-------------------------- MODULE TcpClientProofs --------------------------
(***************************************************************************)
(* Theorems about TcpClient, for any number of orders.  What the client    *)
(* holds depends on where its two threads are: Holdings says what, phase   *)
(* by phase, and is inductive together with the types; the order ids need  *)
(* only that nextOrderId_ is ahead of every id sent.                       *)
(*                                                                         *)
(* What the receiver handles rests on the lemmas about the steps of a      *)
(* MessageStream, which come first, for any lengths of messages, any       *)
(* buffer, any misread headers and any sends, cut short or with bytes      *)
(* behind the message.  Why no message is passed over: as long as nothing  *)
(* up to consumed was spoilt, consumed is where a message starts, or the   *)
(* end of all that was sent (Aligned); and the messages lie one after the  *)
(* other (InOrder).                                                        *)
(***************************************************************************)
EXTENDS TcpClient, TLAPS

(* The messages lie one after the other, each where the one before ends,   *)
(* and each has bytes.                                                     *)
InOrder ==
  /\ \A k \in DOMAIN messages :
       /\ messages[k].size >= 1
       /\ messages[k].start + messages[k].size <= Total
  /\ \A j, k \in DOMAIN messages :
       j < k => messages[j].start + messages[j].size <= messages[k].start

Contiguous ==
  \A k \in DOMAIN messages :
    \/ messages[k].start + messages[k].size = Total
    \/ \E j \in DOMAIN messages : messages[j].start = messages[k].start + messages[k].size

Aligned ==
  NotYetSpoilt(consumed) =>
    consumed = Total \/ \E k \in DOMAIN messages : messages[k].start = consumed

InBounds == consumed <= received /\ received <= Total

StreamInv ==
  /\ StreamTypeOK /\ InOrder /\ Contiguous /\ Aligned /\ InBounds /\ MessagesIntact

-----------------------------------------------------------------------------

(* What the types say of one message, and of all the bytes sent.           *)
LEMMA MessageTypes ==
  ASSUME StreamTypeOK
  PROVE  /\ Total \in Nat
         /\ DOMAIN messages = 1 .. Len(messages) /\ Len(messages) \in Nat
         /\ \A k \in DOMAIN messages :
              /\ messages[k].start \in Nat /\ messages[k].size \in Nat
              /\ messages[k].length \in Lengths /\ messages[k].length \in Nat
              /\ messages[k].length >= HeaderSize
<1> USE LengthsAssumption DEF StreamTypeOK
<1>1. DOMAIN messages = 1 .. Len(messages) /\ Len(messages) \in Nat
  OBVIOUS
<1>2. \A k \in DOMAIN messages : messages[k] \in Message
  OBVIOUS
<1>3. \A k \in DOMAIN messages :
        /\ messages[k].start \in Nat /\ messages[k].size \in Nat
        /\ messages[k].length \in Lengths
  BY <1>2 DEF Message
<1>4. Total \in Nat
  <2>1. CASE messages = <<>>
    BY <2>1 DEF Total
  <2>2. CASE messages # <<>>
    <3>1. Len(messages) \in DOMAIN messages
      BY <2>2, <1>1
    <3> QED
      BY <2>2, <3>1, <1>3 DEF Total
  <2> QED
    BY <2>1, <2>2
<1> QED
  BY <1>1, <1>3, <1>4

(* A stream of which nothing has been sent.                                *)
LEMMA StreamBegins == StreamInit => StreamInv
<1> SUFFICES ASSUME StreamInit PROVE StreamInv
  OBVIOUS
<1>1. DOMAIN messages = {} /\ Total = 0
  BY DEF StreamInit, Total
<1>2. StreamTypeOK
  <2>1. <<>> \in Seq(Message)
    OBVIOUS
  <2> QED
    BY <2>1 DEF StreamInit, StreamTypeOK
<1> QED
  BY <1>1, <1>2 DEF StreamInv, StreamInit, InOrder, Contiguous, Aligned, InBounds,
     MessagesIntact, OnlyMessages, NonePassedOver

(* One more message behind the others.                                     *)
LEMMA SendKeeps == StreamInv /\ SendMessage => StreamInv'
<1> SUFFICES ASSUME StreamInv, SendMessage PROVE StreamInv'
  OBVIOUS
<1> USE LengthsAssumption DEF StreamInv
<1>1. PICK length \in Lengths : \E size \in Sizes(length) :
        messages' = Append(messages, [start |-> Total, length |-> length, size |-> size])
  BY DEF SendMessage
<1>2. PICK size \in Sizes(length) :
        messages' = Append(messages, [start |-> Total, length |-> length, size |-> size])
  BY <1>1
<1>0. length \in Nat /\ size \in Nat /\ size >= 1
  BY <1>2, MaxExtraAssumption DEF Sizes
<1> DEFINE n == Len(messages) + 1
<1>3. /\ Total \in Nat /\ n \in Nat /\ length \in Nat /\ size \in Nat
      /\ DOMAIN messages = 1 .. n - 1
      /\ \A k \in DOMAIN messages :
              /\ messages[k].start \in Nat /\ messages[k].size \in Nat
              /\ messages[k].length \in Nat
  BY <1>0, <1>2, MessageTypes
<1>4. /\ DOMAIN messages' = 1 .. n
      /\ \A k \in DOMAIN messages : messages'[k] = messages[k]
      /\ messages'[n] = [start |-> Total, length |-> length, size |-> size]
  BY <1>2 DEF StreamTypeOK
<1>5. received' = received /\ consumed' = consumed /\ handled' = handled
  BY DEF SendMessage
<1>6. StreamTypeOK'
  <2>1. [start |-> Total, length |-> length, size |-> size] \in Message
    BY <1>3 DEF Message
  <2>2. messages' \in Seq(Message)
    BY <1>2, <2>1 DEF StreamTypeOK
  <2> QED
    BY <2>2, <1>5 DEF StreamTypeOK
<1>7. Total' = Total + size
  <2>1. messages' # <<>> /\ Len(messages') = n
    BY <1>2 DEF StreamTypeOK
  <2> QED
    BY <2>1, <1>4 DEF Total
<1> HIDE DEF n
<1>8. \A k \in DOMAIN messages' : k \in DOMAIN messages \/ k = n
  BY <1>3, <1>4
<1>9. DOMAIN messages \subseteq DOMAIN messages' /\ n \in DOMAIN messages'
  BY <1>3, <1>4 DEF n
<1>10. /\ messages'[n].start = Total /\ messages'[n].size = size
       /\ messages'[n].length = length
  BY <1>4
<1>11. InOrder'
  <2>1. ASSUME NEW k \in DOMAIN messages'
        PROVE  /\ messages'[k].size >= 1
               /\ messages'[k].start + messages'[k].size <= Total'
    <3>1. CASE k \in DOMAIN messages
      BY <3>1, <1>3, <1>4, <1>7 DEF InOrder
    <3>2. CASE k = n
      BY <3>2, <1>0, <1>3, <1>7, <1>10
    <3> QED
      BY <1>8, <3>1, <3>2
  <2>2. ASSUME NEW j \in DOMAIN messages', NEW k \in DOMAIN messages', j < k
        PROVE  messages'[j].start + messages'[j].size <= messages'[k].start
    <3>1. j \in DOMAIN messages
      BY <2>2, <1>3, <1>4
    <3>2. CASE k \in DOMAIN messages
      BY <3>1, <3>2, <2>2, <1>4 DEF InOrder
    <3>3. CASE k = n
      BY <3>1, <3>3, <1>4, <1>10 DEF InOrder
    <3> QED
      BY <1>8, <3>2, <3>3
  <2> QED
    BY <2>1, <2>2 DEF InOrder
<1>12. Contiguous'
  <2> SUFFICES ASSUME NEW k \in DOMAIN messages'
               PROVE  \/ messages'[k].start + messages'[k].size = Total'
                      \/ \E j \in DOMAIN messages' :
                           messages'[j].start = messages'[k].start + messages'[k].size
    BY DEF Contiguous
  <2>1. CASE k \in DOMAIN messages
    <3>1. CASE messages[k].start + messages[k].size = Total
      BY <2>1, <3>1, <1>4, <1>9, <1>10
    <3>2. CASE \E j \in DOMAIN messages : messages[j].start = messages[k].start + messages[k].size
      BY <2>1, <3>2, <1>4, <1>9
    <3> QED
      BY <2>1, <3>1, <3>2 DEF Contiguous
  <2>2. CASE k = n
    BY <2>2, <1>7, <1>10
  <2> QED
    BY <1>8, <2>1, <2>2
<1>13. ASSUME NEW place PROVE NotYetSpoilt(place)' => NotYetSpoilt(place)
  BY <1>4, <1>9 DEF NotYetSpoilt, Cut, Exact
<1>14. Aligned'
  <2> SUFFICES ASSUME NotYetSpoilt(consumed)'
               PROVE  \E k \in DOMAIN messages' : messages'[k].start = consumed'
    BY DEF Aligned
  <2>1. NotYetSpoilt(consumed)
    BY <1>4, <1>5, <1>9 DEF NotYetSpoilt, Cut, Exact
  <2>2. CASE consumed = Total
    BY <2>2, <1>5, <1>9, <1>10
  <2>3. CASE \E k \in DOMAIN messages : messages[k].start = consumed
    BY <2>3, <1>4, <1>5, <1>9
  <2> QED
    BY <2>1, <2>2, <2>3 DEF Aligned
<1>15. InBounds'
  BY <1>3, <1>5, <1>7 DEF InBounds, StreamTypeOK
<1>16. OnlyMessages'
  <2> SUFFICES ASSUME NEW h \in handled, NotYetSpoilt(h.start)'
               PROVE  /\ \E k \in DOMAIN messages' :
                           messages'[k].start = h.start /\ messages'[k].length = h.length
                      /\ h.start + h.length <= received
    BY <1>5 DEF OnlyMessages
  <2>1. NotYetSpoilt(h.start)
    BY <1>13
  <2> QED
    BY <2>1, <1>4, <1>9 DEF MessagesIntact, OnlyMessages
<1>17. NonePassedOver'
  <2> SUFFICES ASSUME NEW k \in DOMAIN messages', Whole(k)', messages'[k].start < consumed
               PROVE  Handled(k)'
    BY <1>5 DEF NonePassedOver
  <2>1. k \in DOMAIN messages
    BY <1>8, <1>10, <1>3 DEF InBounds, StreamTypeOK
  <2>2. Whole(k)
    <3>1. \A j \in 1 .. k : j \in DOMAIN messages
      BY <2>1, <1>3
    <3>2. k \in 1 .. k /\ 1 .. k - 1 \subseteq 1 .. k
      BY <2>1, <1>3
    <3> QED
      BY <3>1, <3>2, <1>4 DEF Whole, Cut, Exact
  <2>3. messages'[k] = messages[k]
    BY <2>1, <1>4
  <2>4. Handled(k)
    BY <2>1, <2>2, <2>3 DEF MessagesIntact, NonePassedOver
  <2> QED
    BY <2>3, <2>4, <1>5 DEF Handled
<1> QED
  BY <1>6, <1>11, <1>12, <1>14, <1>15, <1>16, <1>17 DEF MessagesIntact

(* More of the bytes have arrived.                                         *)
LEMMA RecvKeeps == StreamInv /\ RecvBytes => StreamInv'
<1> SUFFICES ASSUME StreamInv, RecvBytes PROVE StreamInv'
  OBVIOUS
<1> USE DEF StreamInv
<1>1. /\ messages' = messages /\ consumed' = consumed /\ handled' = handled
      /\ Total' = Total
  BY DEF RecvBytes, Total
<1>2. received' \in Nat /\ received <= received' /\ received' <= Total
  BY BufferSizeAssumption DEF RecvBytes, StreamTypeOK
<1>3. StreamTypeOK' /\ InOrder' /\ Contiguous' /\ Aligned'
  BY <1>1, <1>2 DEF StreamTypeOK, InOrder, Contiguous, Aligned, NotYetSpoilt, Cut, Exact
<1>4. InBounds'
  BY <1>1, <1>2 DEF InBounds, StreamTypeOK
<1>5. OnlyMessages'
  <2> SUFFICES ASSUME NEW h \in handled, NotYetSpoilt(h.start)
               PROVE  /\ \E k \in DOMAIN messages :
                           messages[k].start = h.start /\ messages[k].length = h.length
                      /\ h.start + h.length <= received'
    BY <1>1 DEF OnlyMessages, NotYetSpoilt, Cut, Exact
  <2>1. h.start + h.length <= received /\ h.start \in Nat /\ h.length \in Nat
    BY DEF MessagesIntact, OnlyMessages, StreamTypeOK
  <2> QED
    BY <2>1, <1>2 DEF MessagesIntact, OnlyMessages, StreamTypeOK
<1>6. NonePassedOver'
  BY <1>1 DEF MessagesIntact, NonePassedOver, Whole, Cut, Exact, Handled
<1> QED
  BY <1>3, <1>4, <1>5, <1>6 DEF MessagesIntact

(* In front of the buffer, before anything was spoilt, is the header of a  *)
(* message of which no byte is missing, and it gives that message's length.*)
LEMMA HeaderRead ==
  ASSUME StreamInv, received - consumed >= HeaderSize, NotYetSpoilt(consumed)
  PROVE  \E k \in DOMAIN messages :
           /\ messages[k].start = consumed
           /\ messages[k].size >= messages[k].length
           /\ HeaderLengths = {messages[k].length}
<1> USE HeaderSizeAssumption DEF StreamInv
<1>1. /\ Total \in Nat /\ DOMAIN messages = 1 .. Len(messages) /\ Len(messages) \in Nat
      /\ \A k \in DOMAIN messages :
              /\ messages[k].start \in Nat /\ messages[k].size \in Nat
              /\ messages[k].length \in Nat /\ messages[k].length >= HeaderSize
  BY MessageTypes
<1>2. consumed # Total
  BY <1>1 DEF InBounds, StreamTypeOK
<1>3. PICK k \in DOMAIN messages : messages[k].start = consumed
  BY <1>2 DEF Aligned
<1>4. messages[k].size >= messages[k].length
  <2> SUFFICES ASSUME Cut(k) PROVE FALSE
    BY <1>1 DEF Cut
  <2>1. ~Exact(k)
    BY <1>1 DEF Cut, Exact
  <2> QED
    BY <1>1, <1>3, <2>1 DEF NotYetSpoilt
<1>5. messages[k].size >= HeaderSize
  BY <1>1, <1>4
<1>6. ASSUME NEW j \in DOMAIN messages, messages[j].start = consumed PROVE j = k
  <2>1. j < k => messages[j].start + messages[j].size <= messages[k].start
    BY DEF InOrder
  <2>2. k < j => messages[k].start + messages[k].size <= messages[j].start
    BY DEF InOrder
  <2>3. messages[j].size >= 1 /\ messages[k].size >= 1
    BY <1>1 DEF InOrder
  <2>4. j \in Nat /\ k \in Nat /\ consumed \in Nat
    BY <1>1, <1>3
  <2> QED
    BY <1>1, <1>3, <1>6, <2>1, <2>2, <2>3, <2>4
<1>7. HeaderLengths = {messages[k].length}
  BY <1>1, <1>3, <1>5, <1>6 DEF HeaderLengths
<1> QED
  BY <1>3, <1>4, <1>7

(* A header gives a number.                                                *)
LEMMA HeaderTypes == StreamTypeOK => HeaderLengths \subseteq Nat
<1> SUFFICES ASSUME StreamTypeOK, NEW l \in HeaderLengths PROVE l \in Nat
  OBVIOUS
<1> DEFINE starting == {k \in DOMAIN messages :
                         messages[k].start = consumed /\ messages[k].size >= HeaderSize}
           zeros    == {k \in DOMAIN messages :
                         /\ messages[k].start + messages[k].length = consumed
                         /\ messages[k].size >= messages[k].length + HeaderSize}
           lengths  == {messages[k].length : k \in starting}
<1>1. HeaderLengths = IF starting # {} THEN lengths ELSE IF zeros # {} THEN {0} ELSE Misread
  BY DEF HeaderLengths
<1>2. lengths \subseteq Nat
  BY MessageTypes
<1> HIDE DEF starting, zeros, lengths
<1> QED
  BY <1>1, <1>2, MisreadAssumption

(* No message that is whole starts behind a place that was spoilt.         *)
LEMMA WholeBeforeSpoilt ==
  ASSUME StreamInv, NEW place \in Nat, ~NotYetSpoilt(place),
         NEW k \in DOMAIN messages, Whole(k)
  PROVE  messages[k].start < place
<1> USE DEF StreamInv
<1>1. PICK j \in DOMAIN messages :
        /\ ~Exact(j)
        /\ ~(place < messages[j].start + (IF Cut(j) THEN 0 ELSE messages[j].length))
  BY DEF NotYetSpoilt
<1>2. /\ j \in Nat /\ k \in Nat /\ j >= 1
      /\ messages[j].start \in Nat /\ messages[j].length \in Nat
      /\ messages[k].start \in Nat /\ messages[k].size \in Nat
      /\ messages[j].length >= 1
  BY <1>1, MessageTypes, HeaderSizeAssumption
<1>3. k <= j
  BY <1>1, <1>2 DEF Whole
<1>4. CASE k = j
  <2>1. ~Cut(j)
    BY <1>4 DEF Whole
  <2> QED
    BY <1>1, <1>2, <1>4, <2>1
<1>5. CASE k < j
  <2>1. messages[k].start + messages[k].size <= messages[j].start /\ messages[k].size >= 1
    BY <1>1, <1>2, <1>5, MessageTypes DEF InOrder
  <2>2. messages[j].start <= place
    BY <1>1, <1>2
  <2> QED
    BY <1>2, <2>1, <2>2
<1> QED
  BY <1>2, <1>3, <1>4, <1>5

(* A message taken out of the buffer.                                      *)
LEMMA ProcessKeeps == StreamInv /\ ProcessMessage => StreamInv'
<1> SUFFICES ASSUME StreamInv, ProcessMessage PROVE StreamInv'
  OBVIOUS
<1> USE DEF StreamInv
<1>1. received - consumed >= HeaderSize /\ messages' = messages /\ received' = received
  BY DEF ProcessMessage
<1>2. PICK length \in HeaderLengths :
        /\ received - consumed >= length
        /\ length # 0
        /\ handled' = handled \cup {[start |-> consumed, length |-> length]}
        /\ consumed' = consumed + length
  BY DEF ProcessMessage
<1>3. /\ length \in Nat /\ consumed \in Nat /\ received \in Nat /\ Total \in Nat
      /\ DOMAIN messages = 1 .. Len(messages) /\ Len(messages) \in Nat
      /\ \A k \in DOMAIN messages : messages[k].start \in Nat /\ messages[k].size \in Nat
  BY <1>2, HeaderTypes, MessageTypes DEF StreamTypeOK
<1>4. consumed' \in Nat /\ consumed < consumed' /\ consumed' <= received
  BY <1>2, <1>3
<1>5. Total' = Total /\ \A place : NotYetSpoilt(place)' <=> NotYetSpoilt(place)
  BY <1>1 DEF Total, NotYetSpoilt, Cut, Exact
<1>6. StreamTypeOK'
  BY <1>1, <1>2, <1>3, <1>4 DEF StreamTypeOK
<1>7. InOrder' /\ Contiguous'
  BY <1>1, <1>5 DEF InOrder, Contiguous
<1>8. InBounds'
  BY <1>1, <1>4, <1>5 DEF InBounds
<1>9. Aligned' /\ OnlyMessages' /\ NonePassedOver'
  <2>1. CASE ~NotYetSpoilt(consumed)
    <3>1. ~NotYetSpoilt(consumed')
      <4>1. PICK j \in DOMAIN messages :
              /\ ~Exact(j)
              /\ ~(consumed < messages[j].start + (IF Cut(j) THEN 0 ELSE messages[j].length))
        BY <2>1 DEF NotYetSpoilt
      <4>2. messages[j].start \in Nat /\ messages[j].length \in Nat
        BY MessageTypes
      <4>3. ~(consumed' < messages[j].start + (IF Cut(j) THEN 0 ELSE messages[j].length))
        BY <4>1, <4>2, <1>3, <1>4
      <4> QED
        BY <4>1, <4>3 DEF NotYetSpoilt
    <3>2. Aligned'
      BY <3>1, <1>1 DEF Aligned, NotYetSpoilt, Cut, Exact
    <3>3. OnlyMessages'
      BY <2>1, <1>1, <1>2 DEF MessagesIntact, OnlyMessages, NotYetSpoilt, Cut, Exact
    <3>4. NonePassedOver'
      <4> SUFFICES ASSUME NEW k \in DOMAIN messages, Whole(k) PROVE Handled(k)'
        BY <1>1 DEF NonePassedOver, Whole, Cut, Exact
      <4>1. messages[k].start < consumed
        BY <2>1, <1>3, WholeBeforeSpoilt
      <4>2. Handled(k)
        BY <4>1 DEF MessagesIntact, NonePassedOver
      <4> QED
        BY <4>2, <1>1, <1>2 DEF Handled
    <3> QED
      BY <3>2, <3>3, <3>4
  <2>2. CASE NotYetSpoilt(consumed)
    <3>1. PICK k \in DOMAIN messages :
            /\ messages[k].start = consumed
            /\ messages[k].size >= messages[k].length
            /\ HeaderLengths = {messages[k].length}
      BY <2>2, <1>1, HeaderRead
    <3>2. length = messages[k].length /\ consumed' = messages[k].start + messages[k].length
      BY <3>1, <1>2
    <3>3. Aligned'
      <4>1. CASE Exact(k)
        <5>1. \/ consumed' = Total
              \/ \E j \in DOMAIN messages : messages[j].start = consumed'
          BY <3>2, <4>1 DEF Contiguous, Exact
        <5> QED
          BY <5>1, <1>1, <1>5 DEF Aligned
      <4>2. CASE ~Exact(k)
        <5>1. ~Cut(k)
          BY <3>1, <1>3, <3>2 DEF Cut
        <5>2. ~(consumed' < messages[k].start + messages[k].length)
          BY <1>4, <3>2
        <5>3. ~NotYetSpoilt(consumed')
          BY <4>2, <5>1, <5>2 DEF NotYetSpoilt
        <5> QED
          BY <5>3, <1>1 DEF Aligned, NotYetSpoilt, Cut, Exact
      <4> QED
        BY <4>1, <4>2
    <3>4. OnlyMessages'
      <4> SUFFICES ASSUME NEW h \in handled', NotYetSpoilt(h.start)
                   PROVE  /\ \E j \in DOMAIN messages :
                               messages[j].start = h.start /\ messages[j].length = h.length
                          /\ h.start + h.length <= received
        BY <1>1, <1>5 DEF OnlyMessages
      <4>1. CASE h \in handled
        BY <4>1 DEF MessagesIntact, OnlyMessages
      <4>2. CASE h = [start |-> consumed, length |-> length]
        BY <4>2, <3>1, <3>2, <1>2, <1>3
      <4> QED
        BY <1>2, <4>1, <4>2
    <3>5. NonePassedOver'
      <4> SUFFICES ASSUME NEW m \in DOMAIN messages, Whole(m), messages[m].start < consumed'
                   PROVE  Handled(m)'
        BY <1>1 DEF NonePassedOver, Whole, Cut, Exact
      <4>1. CASE m = k
        BY <4>1, <3>1, <3>2, <1>1, <1>2 DEF Handled
      <4>2. CASE m # k
        <5>1. ~(k < m)
          BY <3>1, <3>2, <1>3, <1>4, SMTT(30) DEF InOrder
        <5>2. m < k
          BY <5>1, <4>2, <1>3
        <5>3. messages[m].start + messages[m].size <= consumed /\ messages[m].size >= 1
          BY <5>2, <3>1, MessageTypes DEF InOrder
        <5>4. messages[m].start < consumed
          BY <5>3, <1>3
        <5>5. Handled(m)
          BY <5>4 DEF MessagesIntact, NonePassedOver
        <5> QED
          BY <5>5, <1>1, <1>2 DEF Handled
      <4> QED
        BY <4>1, <4>2
    <3> QED
      BY <3>3, <3>4, <3>5
  <2> QED
    BY <2>1, <2>2
<1> QED
  BY <1>6, <1>7, <1>8, <1>9 DEF MessagesIntact

(* A header that gives zero is one that was spoilt.                        *)
LEMMA ForeverKeeps == StreamInv /\ ProcessForever => StreamInv'
<1> SUFFICES ASSUME StreamInv, ProcessForever PROVE StreamInv'
  OBVIOUS
<1> USE DEF StreamInv
<1>1. /\ received - consumed >= HeaderSize /\ 0 \in HeaderLengths
      /\ handled' = handled \cup {[start |-> consumed, length |-> 0]}
      /\ messages' = messages /\ received' = received /\ consumed' = consumed
  BY DEF ProcessForever
<1>2. ~NotYetSpoilt(consumed)
  <2> SUFFICES ASSUME NotYetSpoilt(consumed) PROVE FALSE
    OBVIOUS
  <2>1. PICK k \in DOMAIN messages : HeaderLengths = {messages[k].length}
    BY <1>1, HeaderRead
  <2>2. messages[k].length \in Nat /\ messages[k].length >= HeaderSize
    BY MessageTypes
  <2> QED
    BY <1>1, <2>1, <2>2, HeaderSizeAssumption
<1>3. Total' = Total
  BY <1>1 DEF Total
<1>4. StreamTypeOK' /\ InOrder' /\ Contiguous' /\ Aligned' /\ InBounds'
  BY <1>1, <1>3 DEF StreamTypeOK, InOrder, Contiguous, Aligned, InBounds, NotYetSpoilt, Cut, Exact
<1>5. OnlyMessages'
  BY <1>1, <1>2 DEF MessagesIntact, OnlyMessages, NotYetSpoilt, Cut, Exact
<1>6. NonePassedOver'
  BY <1>1 DEF MessagesIntact, NonePassedOver, Whole, Cut, Exact, Handled
<1> QED
  BY <1>4, <1>5, <1>6 DEF MessagesIntact

(* Nothing happens to the stream.                                          *)
LEMMA StutterKeeps == StreamInv /\ UNCHANGED streamVars => StreamInv'
BY DEF streamVars, StreamInv, StreamTypeOK, InOrder, Contiguous, Aligned, InBounds,
   MessagesIntact, OnlyMessages, NonePassedOver, NotYetSpoilt, Cut, Exact, Whole, Handled, Total

-----------------------------------------------------------------------------

(* The receiver is at work.                                                *)
Receiving == receiver \in {"test", "recv", "scan", "mark", "spinning"}

(* One connection's socket and Winsock start are held, or two: those of a  *)
(* lost connection and those of the connect in progress.                   *)
One == sockets = 1 /\ winsock = 1
Two == sockets = 2 /\ winsock = 2

Attempting == (receiver = "none" /\ One) \/ (receiver = "ended" /\ Two)

(* What the two threads and the counts are in each phase of main.          *)
Holdings ==
  /\ main \in {"prompt", "sending", "asking", "quitting"} /\ connected =>
       Receiving /\ One /\ link # "none"
  /\ main = "prompt" /\ ~connected => Released \/ Held
  /\ main \in {"sending", "asking", "quitting"} /\ ~connected => Held /\ link # "none"
  /\ main \in {"connecting", "starting"} => ~connected /\ Attempting
  /\ main = "joining" => One /\ (connected <=> Receiving) /\ receiver # "none"
  /\ main = "closing" => One /\ ~connected /\ receiver = "none"
  /\ main = "leaving" => ~connected /\ (Released \/ Held)
  /\ main = "exited" => Released
  /\ main = "terminated" => receiver = "ended"
  /\ main = "starting" => link # "none"

(* Every id sent is older than the next one, and older than the one in     *)
(* hand while a request is being sent.                                     *)
IdsOld ==
  \A i \in DOMAIN sent :
    sent[i] < (IF main = "sending" THEN nextOrderId - 1 ELSE nextOrderId)

IdInHand == main = "sending" => nextOrderId > 1

Ids == IdsOld /\ IdInHand /\ IdsIncrease

IInv == TypeOK /\ Holdings /\ Ids /\ StreamInv

-----------------------------------------------------------------------------

(* Every step of the client is one of its stream, a new stream, or none.   *)
LEMMA StreamKept == IInv /\ [Next]_vars => StreamInv'
<1> SUFFICES ASSUME IInv, [Next]_vars PROVE StreamInv'
  OBVIOUS
<1>1. CASE UNCHANGED streamVars
  BY <1>1, StutterKeeps DEF IInv
<1>2. CASE ConnectSucceeds
  <2>1. StreamInit'
    BY <1>2 DEF ConnectSucceeds, StreamInit
  <2> QED
    BY <2>1, StreamBegins, PTL
<1>3. CASE ServerSends
  BY <1>3, SendKeeps DEF ServerSends, IInv
<1>4. CASE Recv
  BY <1>4, RecvKeeps DEF Recv, IInv
<1>5. CASE RecvNothing
  BY <1>5, StutterKeeps DEF RecvNothing, RecvBlocks, IInv
<1>6. CASE Scan
  BY <1>6, ProcessKeeps, ForeverKeeps, StutterKeeps DEF Scan, Incomplete, IInv
<1>7. CASE \/ Connect \/ ConnectFails \/ StartReceiver \/ Disconnect \/ JoinReceiver
           \/ CloseSocket \/ QuitUnconnected \/ Destroy \/ AddOrder \/ SendOrder
           \/ Request \/ SendRequest \/ LoseLink \/ TestRunning \/ RecvEnd
           \/ Spin \/ MarkDisconnected
  <2>1. UNCHANGED streamVars
    BY <1>7 DEF Connect, ConnectFails, StartReceiver, Disconnect, JoinReceiver,
       CloseSocket, QuitUnconnected, Destroy, AddOrder, SendOrder, Request, SendRequest,
       LoseLink, TestRunning, RecvEnd, Spin, MarkDisconnected
  <2> QED
    BY <2>1, <1>1
<1>8. UNCHANGED vars => UNCHANGED streamVars
  BY DEF vars
<1> QED
  BY <1>1, <1>2, <1>3, <1>4, <1>5, <1>6, <1>7, <1>8 DEF Next, MainThread, ReceiverThread

-----------------------------------------------------------------------------

(* A step keeps the types.                                                 *)
LEMMA TypesKept == IInv /\ [Next]_vars => TypeOK'
<1> SUFFICES ASSUME IInv, [Next]_vars PROVE TypeOK'
  OBVIOUS
<1>0. StreamTypeOK'
  BY StreamKept DEF StreamInv
<1> USE MaxOrdersAssumption DEF IInv, TypeOK, Holdings, Released, Held,
          One, Two, Attempting, Ids, IdInHand
<1>1. CASE Connect
  BY <1>1, <1>0 DEF Connect
<1>2. CASE ConnectFails
  BY <1>2, <1>0 DEF ConnectFails
<1>3. CASE ConnectSucceeds
  BY <1>3, <1>0 DEF ConnectSucceeds
<1>4. CASE StartReceiver
  BY <1>4, <1>0 DEF StartReceiver
<1>5. CASE Disconnect
  BY <1>5, <1>0 DEF Disconnect
<1>6. CASE JoinReceiver
  BY <1>6, <1>0 DEF JoinReceiver
<1>7. CASE CloseSocket
  <2>1. sockets' \in Nat /\ winsock' \in Nat
    BY <1>7 DEF CloseSocket
  <2>2. main' \in {"leaving", "prompt"}
    BY <1>7 DEF CloseSocket, AfterDisconnect
  <2> QED
    BY <1>0, <1>7, <2>1, <2>2 DEF CloseSocket
<1>8. CASE QuitUnconnected
  BY <1>8, <1>0 DEF QuitUnconnected
<1>9. CASE Destroy
  BY <1>9, <1>0 DEF Destroy
<1>10. CASE AddOrder
  BY <1>10, <1>0 DEF AddOrder
<1>11. CASE SendOrder
  <2>1. nextOrderId - 1 \in Nat
    BY <1>11 DEF SendOrder
  <2>2. sent' \in Seq(Nat)
    BY <1>11, <2>1 DEF SendOrder
  <2> QED
    BY <1>0, <1>11, <2>2 DEF SendOrder
<1>12. CASE ~Gone /\ ReceiverThread
  BY <1>12, <1>0 DEF ReceiverThread, TestRunning, Recv, RecvNothing, RecvEnd, Scan, Spin,
     MarkDisconnected, Receiver, Gone
<1>13. CASE LoseLink
  BY <1>13, <1>0 DEF LoseLink
<1>14. CASE Request
  BY <1>14, <1>0 DEF Request
<1>15. CASE SendRequest
  BY <1>15, <1>0 DEF SendRequest
<1>16. CASE ServerSends
  BY <1>16, <1>0 DEF ServerSends
<1>17. CASE UNCHANGED vars
  BY <1>17, <1>0 DEF vars
<1> QED
  BY <1>1, <1>2, <1>3, <1>4, <1>5, <1>6, <1>7, <1>8, <1>9, <1>10, <1>11,
     <1>12, <1>13, <1>14, <1>15, <1>16, <1>17 DEF Next, MainThread

(* A step keeps what the threads hold in step with where they are.         *)
LEMMA HoldingsKept == IInv /\ [Next]_vars => Holdings'
<1> SUFFICES ASSUME IInv, [Next]_vars PROVE Holdings'
  OBVIOUS
<1> USE DEF IInv, TypeOK, Holdings, Released, Held, Receiving, One, Two, Attempting
<1>1. CASE Connect
  BY <1>1 DEF Connect
<1>2. CASE ConnectFails
  BY <1>2 DEF ConnectFails
<1>3. CASE ConnectSucceeds
  BY <1>3 DEF ConnectSucceeds
<1>4. CASE StartReceiver
  BY <1>4 DEF StartReceiver
<1>5. CASE Disconnect
  BY <1>5 DEF Disconnect
<1>6. CASE JoinReceiver
  BY <1>6 DEF JoinReceiver
<1>7. CASE CloseSocket
  BY <1>7 DEF CloseSocket, AfterDisconnect
<1>8. CASE QuitUnconnected
  BY <1>8 DEF QuitUnconnected
<1>9. CASE Destroy
  BY <1>9 DEF Destroy
<1>10. CASE AddOrder
  BY <1>10 DEF AddOrder
<1>11. CASE SendOrder
  BY <1>11 DEF SendOrder
<1>12. CASE ~Gone /\ ReceiverThread
  BY <1>12 DEF ReceiverThread, TestRunning, Recv, RecvNothing, RecvEnd, Scan, Spin,
     MarkDisconnected, Receiver, Gone
<1>13. CASE LoseLink
  BY <1>13 DEF LoseLink
<1>14. CASE Request
  BY <1>14 DEF Request
<1>15. CASE SendRequest
  BY <1>15 DEF SendRequest
<1>16. CASE ServerSends
  BY <1>16 DEF ServerSends
<1>17. CASE UNCHANGED vars
  BY <1>17 DEF vars
<1> QED
  BY <1>1, <1>2, <1>3, <1>4, <1>5, <1>6, <1>7, <1>8, <1>9, <1>10, <1>11,
     <1>12, <1>13, <1>14, <1>15, <1>16, <1>17 DEF Next, MainThread

(* An older id in front of a newer one keeps a sequence increasing.        *)
LEMMA AppendNewest ==
  ASSUME NEW s \in Seq(Nat), NEW k \in Nat,
         \A i \in DOMAIN s : s[i] < k,
         \A i, j \in DOMAIN s : i < j => s[i] < s[j]
  PROVE  /\ \A i \in DOMAIN Append(s, k) : Append(s, k)[i] < k + 1
         /\ \A i, j \in DOMAIN Append(s, k) : i < j => Append(s, k)[i] < Append(s, k)[j]
<1>1. DOMAIN s = 1 .. Len(s) /\ Len(s) \in Nat
  OBVIOUS
<1>2. DOMAIN Append(s, k) = 1 .. Len(s) + 1
  OBVIOUS
<1>3. \A i \in 1 .. Len(s) : Append(s, k)[i] = s[i] /\ s[i] \in Nat
  OBVIOUS
<1>4. Append(s, k)[Len(s) + 1] = k
  OBVIOUS
<1> QED
  <2> DEFINE t == Append(s, k)
  <2> SUFFICES /\ \A i \in DOMAIN t : t[i] < k + 1
               /\ \A i, j \in DOMAIN t : i < j => t[i] < t[j]
    OBVIOUS
  <2>1. /\ DOMAIN t = 1 .. Len(s) + 1
        /\ \A i \in 1 .. Len(s) : t[i] = s[i] /\ s[i] \in Nat
        /\ t[Len(s) + 1] = k
    BY <1>2, <1>3, <1>4
  <2> HIDE DEF t
  <2>2. ASSUME NEW i \in DOMAIN t PROVE t[i] < k + 1
    <3>1. CASE i \in 1 .. Len(s)
      BY <3>1, <1>1, <2>1
    <3>2. CASE i = Len(s) + 1
      BY <3>2, <2>1
    <3> QED
      BY <1>1, <2>1, <3>1, <3>2
  <2>3. ASSUME NEW i \in DOMAIN t, NEW j \in DOMAIN t, i < j PROVE t[i] < t[j]
    <3>1. i \in 1 .. Len(s)
      BY <1>1, <2>1, <2>3
    <3>2. CASE j \in 1 .. Len(s)
      BY <3>1, <3>2, <2>3, <1>1, <2>1
    <3>3. CASE j = Len(s) + 1
      BY <3>1, <3>3, <1>1, <2>1
    <3> QED
      BY <1>1, <2>1, <3>2, <3>3
  <2> QED
    BY <2>2, <2>3

(* A step keeps the ids in order.                                          *)
LEMMA IdsKept == IInv /\ [Next]_vars => Ids'
<1> SUFFICES ASSUME IInv, [Next]_vars PROVE Ids'
  OBVIOUS
<1> USE DEF IInv, TypeOK, Ids, IdsOld, IdInHand, IdsIncrease
<1>1. CASE Connect
  BY <1>1 DEF Connect
<1>2. CASE ConnectFails
  BY <1>2 DEF ConnectFails
<1>3. CASE ConnectSucceeds
  BY <1>3 DEF ConnectSucceeds
<1>4. CASE StartReceiver
  BY <1>4 DEF StartReceiver
<1>5. CASE Disconnect
  BY <1>5 DEF Disconnect
<1>6. CASE JoinReceiver
  BY <1>6 DEF JoinReceiver
<1>7. CASE CloseSocket
  BY <1>7 DEF CloseSocket, AfterDisconnect
<1>8. CASE QuitUnconnected
  BY <1>8 DEF QuitUnconnected
<1>9. CASE Destroy
  BY <1>9 DEF Destroy
<1>10. CASE AddOrder
  BY <1>10 DEF AddOrder
<1>11. CASE SendOrder
  <2>1. CASE sent' = sent
    BY <1>11, <2>1 DEF SendOrder
  <2>2. CASE sent' = Append(sent, nextOrderId - 1)
    <3>1. nextOrderId - 1 \in Nat /\ nextOrderId = (nextOrderId - 1) + 1
      BY <1>11 DEF SendOrder
    <3>2. \A i \in DOMAIN sent : sent[i] < nextOrderId - 1
      BY <1>11 DEF SendOrder
    <3>3. /\ \A i \in DOMAIN sent' : sent'[i] < (nextOrderId - 1) + 1
          /\ \A i, j \in DOMAIN sent' : i < j => sent'[i] < sent'[j]
      BY <2>2, <3>1, <3>2, AppendNewest
    <3> HIDE <2>2
    <3> QED
      BY <1>11, <3>1, <3>3 DEF SendOrder
  <2> QED
    BY <1>11, <2>1, <2>2 DEF SendOrder
<1>12. CASE ~Gone /\ ReceiverThread
  BY <1>12 DEF ReceiverThread, TestRunning, Recv, RecvNothing, RecvEnd, Scan, Spin,
     MarkDisconnected, Receiver, Gone
<1>13. CASE LoseLink
  BY <1>13 DEF LoseLink
<1>14. CASE Request
  BY <1>14 DEF Request
<1>15. CASE SendRequest
  BY <1>15 DEF SendRequest
<1>16. CASE ServerSends
  BY <1>16 DEF ServerSends
<1>17. CASE UNCHANGED vars
  BY <1>17 DEF vars
<1> QED
  BY <1>1, <1>2, <1>3, <1>4, <1>5, <1>6, <1>7, <1>8, <1>9, <1>10, <1>11,
     <1>12, <1>13, <1>14, <1>15, <1>16, <1>17 DEF Next, MainThread

(* The invariant holds of every client.                                    *)
THEOREM Invariance == Spec => []IInv
<1>1. Init => IInv
  <2> SUFFICES ASSUME Init PROVE IInv
    OBVIOUS
  <2>0. StreamInv
    BY StreamBegins DEF Init
  <2>1. TypeOK
    <3>1. <<>> \in Seq(Nat)
      OBVIOUS
    <3>2. 1 \in 1 .. MaxOrders + 1
      BY MaxOrdersAssumption
    <3>3. StreamTypeOK
      BY <2>0 DEF StreamInv
    <3> QED
      BY <3>1, <3>2, <3>3 DEF Init, TypeOK
  <2>2. Holdings
    BY DEF Init, Holdings, Released
  <2>3. Ids
    BY DEF Init, Ids, IdsOld, IdInHand, IdsIncrease
  <2> QED
    BY <2>0, <2>1, <2>2, <2>3 DEF IInv
<1>2. IInv /\ [Next]_vars => IInv'
  BY TypesKept, HoldingsKept, IdsKept, StreamKept DEF IInv
<1> QED
  BY <1>1, <1>2, PTL DEF Spec

(* The client keeps its types: no socket is closed and no Winsock start    *)
(* undone that was not made.                                               *)
THEOREM TypeCorrect == Spec => []TypeOK
<1>1. IInv => TypeOK
  BY DEF IInv
<1> QED
  BY <1>1, Invariance, PTL

(* A request is never sent on a closed socket.                             *)
THEOREM RequestsAreSendable == Spec => []RequestsHaveSocket
<1>1. IInv => RequestsHaveSocket
  BY DEF IInv, TypeOK, Holdings, Held, One, RequestsHaveSocket
<1> QED
  BY <1>1, Invariance, PTL

(* An unconnected client holds all or nothing of its last connection, and  *)
(* std::terminate comes of a receiver that ended by itself only.           *)
THEOREM AllOrNothing == Spec => []ReleasedTogether
<1>1. IInv => ReleasedTogether
  BY DEF IInv, Holdings, ReleasedTogether
<1> QED
  BY <1>1, Invariance, PTL

(* One client never sends two orders with one id.                          *)
THEOREM IdsAreDistinct == Spec => []IdsIncrease
<1>1. IInv => IdsIncrease
  BY DEF IInv, Ids
<1> QED
  BY <1>1, Invariance, PTL

(* On every connection the client handles exactly the messages sent, each  *)
(* whole and none passed over, up to the first place that a send spoilt,   *)
(* by leaving out bytes of its message or by adding others behind it.      *)
THEOREM AnswersAreIntact == Spec => []AnswersIntact
<1>1. IInv => AnswersIntact
  BY DEF IInv, StreamInv, AnswersIntact
<1> QED
  BY <1>1, Invariance, PTL
-----------------------------------------------------------------------------
(***************************************************************************)
(* disconnect waits for the receiver, which is on its way out.             *)
(***************************************************************************)

(* While disconnect waits, the loop's flag is down and the socket open.    *)
Joining == main = "joining" => ~running /\ link # "none"

(* Some step of the receiver is possible: recv returns bytes or says that  *)
(* there are none or that the connection is gone, and a header can be read.*)
ReceiverCanGoOn ==
  \/ receiver \in {"test", "mark", "spinning"}
  \/ receiver = "recv" /\ link # "none" /\ received <= Total
  \/ receiver = "scan" /\ (received - consumed < HeaderSize \/ HeaderLengths # {})

(* How far the receiver is from its end, once running_ is false.           *)
StepsLeft ==
  [recv |-> 4, scan |-> 3, test |-> 2, mark |-> 1, spinning |-> 0, ended |-> 0, none |-> 0]

(* The flag stays down and the socket open until the receiver is joined.   *)
LEMMA JoiningKept == IInv /\ Joining /\ [Next]_vars => Joining'
<1> SUFFICES ASSUME IInv, Joining, [Next]_vars, main' = "joining"
             PROVE  ~running' /\ link' # "none"
  BY DEF Joining
<1>1. CASE Disconnect
  BY <1>1 DEF IInv, Holdings, Disconnect
<1>2. CASE main = "joining" /\ UNCHANGED <<running, link>>
  BY <1>2 DEF Joining
<1>3. CASE UNCHANGED vars
  BY <1>2, <1>3 DEF vars
<1>4. CASE Connect \/ QuitUnconnected \/ AddOrder \/ Request
  BY <1>4 DEF Connect, QuitUnconnected, AddOrder, Request
<1>5. CASE ConnectFails \/ ConnectSucceeds \/ StartReceiver \/ JoinReceiver \/ CloseSocket
           \/ SendOrder \/ SendRequest \/ Destroy
  BY <1>5 DEF ConnectFails, ConnectSucceeds, StartReceiver, JoinReceiver, CloseSocket,
     AfterDisconnect, SendOrder, SendRequest, Destroy
<1>6. CASE ReceiverThread
  BY <1>2, <1>6 DEF ReceiverThread, TestRunning, Recv, RecvNothing, RecvEnd, Scan, Spin,
     MarkDisconnected, Receiver
<1>7. CASE ServerSends
  BY <1>2, <1>7 DEF ServerSends
<1>8. CASE LoseLink
  BY <1>8 DEF LoseLink, Joining
<1> QED
  BY <1>1, <1>3, <1>4, <1>5, <1>6, <1>7, <1>8 DEF Next, MainThread, Gone

(* A header in front of the buffer gives some length.                      *)
LEMMA HeaderGiven == HeaderLengths # {}
BY MisreadAssumption DEF HeaderLengths

(* The receiver that disconnect waits for is never stuck, and each of its  *)
(* steps brings it nearer to its end, be it by a message more out of a     *)
(* buffer that no longer grows, unless it spins on a header of length 0:   *)
(* so disconnect returns if the receiver is given time.                    *)
THEOREM JoinedReceiverEnds ==
  Spec =>
    /\ [](main = "joining" => receiver = "ended" \/ ReceiverCanGoOn)
    /\ [][main = "joining" /\ ReceiverThread =>
            \/ receiver' = "spinning"
            \/ StepsLeft[receiver'] < StepsLeft[receiver]
            \/ receiver' = receiver /\ consumed < consumed' /\ consumed' <= received]_vars
<1>1. Init => Joining
  BY DEF Init, Joining
<1>2. IInv /\ Joining /\ [Next]_vars => Joining'
  BY JoiningKept
<1>3. ASSUME IInv, Joining, main = "joining"
      PROVE  receiver = "ended" \/ ReceiverCanGoOn
  <2>1. /\ receiver \in {"none", "test", "recv", "scan", "mark", "spinning", "ended"}
        /\ receiver # "none" /\ link # "none" /\ received <= Total
    BY <1>3 DEF IInv, TypeOK, Holdings, Joining, StreamInv, InBounds
  <2> QED
    BY <2>1, HeaderGiven DEF ReceiverCanGoOn
<1>4. ASSUME IInv, Joining, [Next]_vars
      PROVE  [main = "joining" /\ ReceiverThread =>
                \/ receiver' = "spinning"
                \/ StepsLeft[receiver'] < StepsLeft[receiver]
                \/ receiver' = receiver /\ consumed < consumed' /\ consumed' <= received]_vars
  <2> SUFFICES ASSUME main = "joining", ReceiverThread
               PROVE  \/ receiver' = "spinning"
                      \/ StepsLeft[receiver'] < StepsLeft[receiver]
                      \/ receiver' = receiver /\ consumed < consumed' /\ consumed' <= received
    OBVIOUS
  <2>1. CASE TestRunning
    BY <1>4, <2>1 DEF TestRunning, Receiver, Joining, StepsLeft
  <2>2. CASE Recv \/ RecvNothing \/ RecvEnd \/ MarkDisconnected
    BY <2>2 DEF Recv, RecvNothing, RecvEnd, MarkDisconnected, Receiver, StepsLeft
  <2>3. CASE Spin
    BY <2>3 DEF Spin, Receiver
  <2>4. CASE Scan
    <3>1. CASE Receiver("scan", "scan") /\ ProcessMessage
      <4>1. consumed \in Nat /\ received \in Nat /\ HeaderLengths \subseteq Nat
        BY <1>4, HeaderTypes DEF IInv, StreamInv, StreamTypeOK
      <4>2. PICK length \in HeaderLengths :
              received - consumed >= length /\ length # 0 /\ consumed' = consumed + length
        BY <3>1 DEF ProcessMessage
      <4>3. consumed < consumed' /\ consumed' <= received
        BY <4>1, <4>2
      <4> QED
        BY <3>1, <4>3 DEF Receiver
    <3> QED
      BY <2>4, <3>1 DEF Scan, Receiver, StepsLeft
  <2> QED
    BY <2>1, <2>2, <2>3, <2>4 DEF ReceiverThread
<1> QED
  BY <1>1, <1>2, <1>3, <1>4, Invariance, PTL DEF Spec
=============================================================================

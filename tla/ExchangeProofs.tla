--------------------------- MODULE ExchangeProofs ---------------------------
(***************************************************************************)
(* Proofs about the exchange, for any clients, commands and book.          *)
(*                                                                         *)
(* The invariant XInv is that of the book and, for every client, one about *)
(* its own requests and answers: what is on the wire can be read back, the *)
(* order ids of its requests increase, and the answers it was sent are for *)
(* requests that its worker is done with.  Whatever a worker does changes  *)
(* the book by a step of Orderbook, and the variables of one client.       *)
(***************************************************************************)
EXTENDS Exchange, OrderbookRefinementProofs, WireProofs

(* Sequences whose elements are records of several shapes.                 *)
IsSequence(s) == \E S : s \in Seq(S)

(* The empty sequence is one.                                              *)
LEMMA NoElements == IsSequence(<<>>) /\ DOMAIN <<>> = {} /\ Len(<<>>) = 0
BY DEF IsSequence

(* The domain of a sequence of any elements.                               *)
LEMMA SequenceDomain ==
  ASSUME NEW s, IsSequence(s)
  PROVE  Len(s) \in Nat /\ DOMAIN s = 1 .. Len(s)
BY LenProperties DEF IsSequence

(* Append, when the new element is of another shape.                       *)
LEMMA Appended ==
  ASSUME NEW s, IsSequence(s), NEW e
  PROVE  /\ IsSequence(Append(s, e))
         /\ Len(Append(s, e)) = Len(s) + 1
         /\ DOMAIN Append(s, e) = 1 .. Len(s) + 1
         /\ \A i \in 1 .. Len(s) : Append(s, e)[i] = s[i]
         /\ Append(s, e)[Len(s) + 1] = e
<1>1. PICK S : s \in Seq(S)
  BY DEF IsSequence
<1> DEFINE T == S \cup {e}
<1>2. s \in Seq(T) /\ e \in T
  BY <1>1, SeqMonotonic
<1> HIDE DEF T
<1>3. Append(s, e) \in Seq(T)
  BY <1>2, AppendProperties
<1> QED
  BY <1>2, <1>3, AppendProperties, LenProperties DEF IsSequence

(* A sequence of one, put behind another, is an append.                    *)
LEMMA AppendedOne ==
  ASSUME NEW s, IsSequence(s), NEW e
  PROVE  s \o <<e>> = Append(s, e)
<1>1. PICK S : s \in Seq(S)
  BY DEF IsSequence
<1> DEFINE T == S \cup {e}
<1>2. s \in Seq(T) /\ e \in T
  BY <1>1, SeqMonotonic
<1> HIDE DEF T
<1>3. Append(s, e) = s \o <<e>>
  BY <1>2, AppendIsConcat
<1> QED
  BY <1>3

(* Two elements appended at once are two appends.                          *)
LEMMA AppendedTwo ==
  ASSUME NEW s, IsSequence(s), NEW a, NEW b
  PROVE  s \o <<a, b>> = Append(Append(s, a), b)
<1>1. PICK S : s \in Seq(S)
  BY DEF IsSequence
<1> DEFINE T == S \cup {a, b}
<1>2. s \in Seq(T) /\ a \in T /\ b \in T
  BY <1>1, SeqMonotonic
<1> HIDE DEF T
<1>3. Append(s, a) \in Seq(T) /\ Append(Append(s, a), b) \in Seq(T)
  BY <1>2, AppendProperties
<1>4. <<a, b>> \in Seq(T) /\ Len(<<a, b>>) = 2 /\ <<a, b>>[1] = a /\ <<a, b>>[2] = b
  BY <1>2
<1> DEFINE two == <<a, b>>
<1> HIDE DEF two
<1>5. /\ s \o two \in Seq(T)
      /\ Len(s \o two) = Len(s) + 2
      /\ \A i \in 1 .. Len(s) + 2 : (s \o two)[i] = IF i <= Len(s) THEN s[i] ELSE two[i - Len(s)]
  BY <1>2, <1>4, ConcatProperties DEF two
<1>6. /\ Len(s) \in Nat /\ Len(Append(s, a)) = Len(s) + 1
      /\ Len(Append(Append(s, a), b)) = Len(s) + 2
      /\ \A i \in 1 .. Len(s) : Append(Append(s, a), b)[i] = s[i]
      /\ Append(Append(s, a), b)[Len(s) + 1] = a
      /\ Append(Append(s, a), b)[Len(s) + 2] = b
  BY <1>2, <1>3, AppendProperties, LenProperties
<1>7. ASSUME NEW i \in 1 .. Len(s) + 2
      PROVE  (s \o two)[i] = Append(Append(s, a), b)[i]
  <2>1. CASE i <= Len(s)
    BY <2>1, <1>5, <1>6
  <2>2. CASE i = Len(s) + 1
    BY <2>2, <1>4, <1>5, <1>6 DEF two
  <2>3. CASE i = Len(s) + 2
    BY <2>3, <1>4, <1>5, <1>6 DEF two
  <2>4. Len(s) \in Nat
    BY <1>6
  <2>5. i <= Len(s) \/ i = Len(s) + 1 \/ i = Len(s) + 2
    BY <2>4
  <2> QED
    BY <2>1, <2>2, <2>3, <2>5, Zenon
<1>8. s \o two = Append(Append(s, a), b)
  BY <1>3, <1>5, <1>6, <1>7, SeqEqual
<1> QED
  BY <1>8 DEF two

-----------------------------------------------------------------------------
(***************************************************************************)
(* Structs that fit their fields, and what is read of them.                *)
(***************************************************************************)

(* The fields that are in every record here are not swapped.               *)
LEMMA SameKind ==
  ASSUME NEW struct
  PROVE  /\ "kind" \in DOMAIN struct => Swapped(struct).kind = struct.kind
         /\ "of" \in DOMAIN struct => Swapped(struct).of = struct.of
BY DEF Swapped, Words, LongWords

(* A struct that fits is read as it was made.                              *)
LEMMA ReadBack ==
  ASSUME NEW struct, FieldsFit(struct), "kind" \in DOMAIN struct
  PROVE  /\ ToHostOrder(ToNetworkOrder(struct)) = struct
         /\ ToNetworkOrder(struct).kind = struct.kind
         /\ "of" \in DOMAIN struct => ToNetworkOrder(struct).of = struct.of
BY HostOrderRestores, SameKind DEF ToNetworkOrder

(* The requests clients send fit.                                          *)
LEMMA AddFits ==
  ASSUME NEW type, NEW side, NEW price \in Uint32, NEW quantity \in Uint32, NEW id \in Uint64
  PROVE  FieldsFit([kind |-> "add", type |-> type, side |-> side, price |-> price,
                    quantity |-> quantity, clientOrderId |-> id])
BY DEF FieldsFit, Words, LongWords

(* So does a cancel request.                                               *)
LEMMA CancelFits ==
  ASSUME NEW id \in Uint64
  PROVE  FieldsFit([kind |-> "cancel", orderId |-> id])
BY DEF FieldsFit, Words, LongWords

(* So does a modify request.                                               *)
LEMMA ModifyFits ==
  ASSUME NEW side, NEW price \in Uint32, NEW quantity \in Uint32, NEW id \in Uint64
  PROVE  FieldsFit([kind |-> "modify", orderId |-> id, side |-> side, price |-> price,
                    quantity |-> quantity])
BY DEF FieldsFit, Words, LongWords

(* So does a request that is a header or a text.                           *)
LEMMA PlainFits ==
  ASSUME NEW kind
  PROVE  FieldsFit([kind |-> kind])
BY DEF FieldsFit, Words, LongWords

(* The answers fit as well: to add,                                        *)
LEMMA AddAnswerFits ==
  ASSUME NEW id \in Uint64, NEW n
  PROVE  FieldsFit([kind |-> "add", of |-> n, clientOrderId |-> id,
                    serverOrderId |-> id, status |-> 0])
BY DEF FieldsFit, Words, LongWords

(* to cancel,                                                              *)
LEMMA CancelAnswerFits ==
  ASSUME NEW id \in Uint64, NEW n
  PROVE  FieldsFit([kind |-> "cancel", of |-> n, orderId |-> id, status |-> 0])
BY DEF FieldsFit, Words, LongWords

(* to modify,                                                              *)
LEMMA ModifyAnswerFits ==
  ASSUME NEW side, NEW price \in Uint32, NEW quantity \in Uint32, NEW id \in Uint64, NEW n
  PROVE  FieldsFit([kind |-> "modify", of |-> n, orderId |-> id, side |-> side,
                    price |-> price, quantity |-> quantity])
BY DEF FieldsFit, Words, LongWords

(* and to the requests that are a header or a text.                        *)
LEMMA PlainAnswerFits ==
  ASSUME NEW kind, NEW n
  PROVE  FieldsFit([kind |-> kind, of |-> n])
BY DEF FieldsFit, Words, LongWords

-----------------------------------------------------------------------------
(***************************************************************************)
(* The requests rs of one client, whose next order gets the id next.       *)
(***************************************************************************)

(* A request, in host order, is one the book can be called with.           *)
RequestOK(request) ==
  /\ request.kind \in Kinds
  /\ request.kind = "add" =>
       /\ request.type \in OrderTypes
       /\ request.clientOrderId \in 1 .. MaxRequests
  /\ request.kind \in {"cancel", "modify"} => request.orderId \in OrderIds
  /\ request.kind \in {"add", "modify"} =>
       /\ request.side \in Sides
       /\ request.price \in Uint32 /\ ToInt32(request.price) \in Prices
       /\ request.quantity \in Uint32 /\ request.quantity \in Quantities

(* The same of a request in network order.                                 *)
SentOK(sent) == RequestOK(ToHostOrder(sent)) /\ sent.kind = ToHostOrder(sent).kind

RequestsOK(rs, next) ==
  /\ IsSequence(rs) /\ Len(rs) <= MaxRequests
  /\ next \in 1 .. Len(rs) + 1
  /\ \A k \in DOMAIN rs :
       /\ SentOK(rs[k])
       /\ rs[k].kind = "add" => ToHostOrder(rs[k]).clientOrderId < next
  /\ \A j, k \in DOMAIN rs :
       j < k /\ rs[j].kind = "add" /\ rs[k].kind = "add" =>
         ToHostOrder(rs[j]).clientOrderId < ToHostOrder(rs[k]).clientOrderId

(* One more request keeps that so.                                         *)
LEMMA RequestAppended ==
  ASSUME NEW rs, NEW next, RequestsOK(rs, next), Len(rs) < MaxRequests,
         NEW sent, SentOK(sent), NEW new \in {next, next + 1},
         sent.kind = "add" => ToHostOrder(sent).clientOrderId = next /\ new = next + 1
  PROVE  RequestsOK(Append(rs, sent), new)
<1> DEFINE more == Append(rs, sent)
<1>1. /\ IsSequence(rs) /\ Len(rs) \in Nat /\ DOMAIN rs = 1 .. Len(rs)
      /\ next \in 1 .. Len(rs) + 1
  BY SequenceDomain DEF RequestsOK
<1>2. /\ IsSequence(more) /\ Len(more) = Len(rs) + 1
      /\ DOMAIN more = 1 .. Len(rs) + 1
      /\ \A i \in 1 .. Len(rs) : more[i] = rs[i]
      /\ more[Len(rs) + 1] = sent
  BY <1>1, Appended
<1> HIDE DEF more
<1>3. Len(more) <= MaxRequests /\ new \in 1 .. Len(more) + 1
  BY <1>1, <1>2, MaxRequestsAssumption
<1>4. \A k \in DOMAIN rs : rs[k].kind = "add" =>
        /\ ToHostOrder(rs[k]).clientOrderId \in Int
        /\ ToHostOrder(rs[k]).clientOrderId < next
  BY MaxRequestsAssumption DEF RequestsOK, SentOK, RequestOK
<1>5. ASSUME NEW k \in DOMAIN more
      PROVE  /\ SentOK(more[k])
             /\ more[k].kind = "add" => ToHostOrder(more[k]).clientOrderId < new
  <2>1. CASE k = Len(rs) + 1
    BY <2>1, <1>1, <1>2
  <2>2. CASE k \in DOMAIN rs
    BY <2>2, <1>1, <1>2, <1>4 DEF RequestsOK
  <2> QED
    BY <2>1, <2>2, <1>1, <1>2
<1>6. ASSUME NEW j \in DOMAIN more, NEW k \in DOMAIN more, j < k,
             more[j].kind = "add", more[k].kind = "add"
      PROVE  ToHostOrder(more[j]).clientOrderId < ToHostOrder(more[k]).clientOrderId
  <2>1. j \in DOMAIN rs /\ more[j] = rs[j]
    BY <1>1, <1>2, <1>6
  <2>2. CASE k = Len(rs) + 1
    BY <2>1, <2>2, <1>2, <1>4, <1>6
  <2>3. CASE k \in DOMAIN rs
    BY <2>1, <2>3, <1>1, <1>2, <1>6 DEF RequestsOK
  <2> QED
    BY <2>2, <2>3, <1>1, <1>2
<1> QED
  BY <1>2, <1>3, <1>5, <1>6 DEF RequestsOK, more

-----------------------------------------------------------------------------
(***************************************************************************)
(* The answers of one client, whose worker is done with n of the requests  *)
(* rs.                                                                     *)
(***************************************************************************)

(* No bid of a status could trade with an ask of it.                       *)
Uncrossed(status) ==
  \A b \in 1 .. status.bidLevelsCount, a \in 1 .. status.askLevelsCount :
    ToInt32(status.bidLevels[b].price) < ToInt32(status.askLevels[a].price)

AnswerOK(rs, answer, n) ==
  LET shown   == Shown(answer)
      request == ToHostOrder(rs[answer.of])
  IN  /\ answer.of \in 1 .. n
      /\ shown.of = answer.of /\ shown.kind = answer.kind
      /\ answer.kind = PlainAnswer(rs[answer.of].kind)
      /\ answer.kind = "add" => shown.clientOrderId = request.clientOrderId
      /\ answer.kind \in {"cancel", "modify"} => shown.orderId = request.orderId
      /\ answer.kind = "modify" =>
           shown.price = request.price /\ shown.quantity = request.quantity
      /\ answer.kind = "status" => Uncrossed(shown)

AnswersOK(rs, ans, n) ==
  /\ IsSequence(ans)
  /\ \A i \in DOMAIN ans : ans[i].kind # "bytes" => AnswerOK(rs, ans[i], n)
  /\ \A i, j \in DOMAIN ans :
       j < i /\ ans[i].kind # "bytes" /\ ans[j].kind # "bytes" => ans[j].of < ans[i].of

OutboxOK(rs, out, n) ==
  out # <<>> => \E answer : out = <<answer>> /\ answer.of = n /\ AnswerOK(rs, answer, n)

(* A further request changes nothing of an answer, nor does being done     *)
(* with one more.                                                          *)
LEMMA AnswerKept ==
  ASSUME NEW rs, IsSequence(rs), NEW n \in 0 .. Len(rs), NEW m \in Nat, n <= m,
         NEW answer, AnswerOK(rs, answer, n), NEW sent
  PROVE  AnswerOK(rs, answer, m) /\ AnswerOK(Append(rs, sent), answer, n)
<1>1. answer.of \in 1 .. n /\ answer.of \in 1 .. Len(rs) /\ answer.of \in 1 .. m
  BY SequenceDomain DEF AnswerOK
<1>2. Append(rs, sent)[answer.of] = rs[answer.of]
  BY <1>1, Appended
<1> DEFINE more == Append(rs, sent)
<1> HIDE DEF more
<1>3. AnswerOK(rs, answer, m)
  BY <1>1 DEF AnswerOK
<1>4. AnswerOK(more, answer, n)
  BY <1>1, <1>2 DEF AnswerOK, more
<1> QED
  BY <1>3, <1>4 DEF more

(* What was answered stays right while the worker takes more requests and  *)
(* the client makes more.                                                  *)
LEMMA AnswersKept ==
  ASSUME NEW rs, IsSequence(rs), NEW n \in 0 .. Len(rs), NEW m \in Nat, n <= m,
         NEW ans, AnswersOK(rs, ans, n), NEW sent
  PROVE  AnswersOK(rs, ans, m) /\ AnswersOK(Append(rs, sent), ans, n)
BY AnswerKept DEF AnswersOK

(* So does the answer about to be sent.                                    *)
LEMMA OutboxKept ==
  ASSUME NEW rs, IsSequence(rs), NEW n \in 0 .. Len(rs),
         NEW out, OutboxOK(rs, out, n), NEW sent
  PROVE  OutboxOK(Append(rs, sent), out, n)
<1>1. CASE out = <<>>
  BY <1>1 DEF OutboxOK
<1>2. CASE out # <<>>
  <2>1. PICK answer : out = <<answer>> /\ answer.of = n /\ AnswerOK(rs, answer, n)
    BY <1>2 DEF OutboxOK
  <2>2. n \in Nat /\ n <= n
    BY SequenceDomain
  <2>3. AnswerOK(Append(rs, sent), answer, n)
    BY <2>1, <2>2, AnswerKept
  <2> QED
    BY <2>1, <2>3 DEF OutboxOK
<1> QED
  BY <1>1, <1>2

(* Sending the answer to the request just done with.                       *)
LEMMA AnswerSent ==
  ASSUME NEW rs, IsSequence(rs), NEW n \in 1 .. Len(rs),
         NEW ans, AnswersOK(rs, ans, n - 1),
         NEW answer, answer.of = n, AnswerOK(rs, answer, n)
  PROVE  AnswersOK(rs, Append(ans, answer), n)
<1> DEFINE more == Append(ans, answer)
<1>1. /\ IsSequence(ans) /\ Len(ans) \in Nat /\ DOMAIN ans = 1 .. Len(ans)
      /\ n \in Nat /\ n - 1 \in 0 .. Len(rs) /\ n - 1 <= n
  BY SequenceDomain DEF AnswersOK
<1>2. /\ IsSequence(more) /\ DOMAIN more = 1 .. Len(ans) + 1
      /\ \A i \in 1 .. Len(ans) : more[i] = ans[i]
      /\ more[Len(ans) + 1] = answer
  BY <1>1, Appended
<1> HIDE DEF more
<1>3. \A i \in DOMAIN ans :
        ans[i].kind # "bytes" =>
          AnswerOK(rs, ans[i], n) /\ ans[i].of \in 1 .. n - 1
  <2>1. AnswersOK(rs, ans, n)
    BY <1>1, AnswersKept
  <2> QED
    BY <2>1 DEF AnswersOK, AnswerOK
<1>4. ASSUME NEW i \in DOMAIN more, more[i].kind # "bytes"
      PROVE  AnswerOK(rs, more[i], n)
  <2>1. CASE i = Len(ans) + 1
    BY <2>1, <1>2, <1>4
  <2>2. CASE i \in DOMAIN ans
    BY <2>2, <1>1, <1>2, <1>3, <1>4
  <2> QED
    BY <2>1, <2>2, <1>1, <1>2
<1>5. ASSUME NEW i \in DOMAIN more, NEW j \in DOMAIN more, j < i,
             more[i].kind # "bytes", more[j].kind # "bytes"
      PROVE  more[j].of < more[i].of
  <2>1. j \in DOMAIN ans /\ more[j] = ans[j]
    BY <1>1, <1>2, <1>5
  <2>2. CASE i = Len(ans) + 1
    <3>1. ans[j].of \in 1 .. n - 1 /\ more[i].of = n
      BY <2>1, <2>2, <1>2, <1>3, <1>5
    <3> QED
      BY <3>1, <2>1, <1>1
  <2>3. CASE i \in DOMAIN ans
    BY <2>1, <2>3, <1>1, <1>2, <1>5 DEF AnswersOK
  <2> QED
    BY <2>2, <2>3, <1>1, <1>2
<1> QED
  BY <1>2, <1>4, <1>5 DEF AnswersOK, more

(* Bytes that are no message spoil nothing sent before.                    *)
LEMMA BytesSent ==
  ASSUME NEW rs, NEW n, NEW ans, AnswersOK(rs, ans, n), NEW bytes, bytes.kind = "bytes"
  PROVE  AnswersOK(rs, Append(ans, bytes), n)
<1> DEFINE more == Append(ans, bytes)
<1>1. IsSequence(ans) /\ Len(ans) \in Nat /\ DOMAIN ans = 1 .. Len(ans)
  BY SequenceDomain DEF AnswersOK
<1>2. /\ IsSequence(more) /\ DOMAIN more = 1 .. Len(ans) + 1
      /\ \A i \in 1 .. Len(ans) : more[i] = ans[i]
      /\ more[Len(ans) + 1] = bytes
  BY <1>1, Appended
<1> HIDE DEF more
<1>3. \A i \in DOMAIN more : more[i].kind # "bytes" => i \in DOMAIN ans /\ more[i] = ans[i]
  BY <1>1, <1>2
<1> QED
  BY <1>2, <1>3 DEF AnswersOK, more

-----------------------------------------------------------------------------
(***************************************************************************)
(* What the handlers answer to request n.                                  *)
(***************************************************************************)

(* Without trades the answer to a call is its response alone.              *)
LEMMA CallAnswersUntraded ==
  ASSUME NEW request, NEW n
  PROVE  CallAnswers(request, n, <<>>) = <<CallResponse(request, n)>>
<1> DEFINE response == CallResponse(request, n)
           none     == [i \in DOMAIN <<>> |-> TradeNotification(<<>>[i], n)]
<1>1. none = <<>>
  OBVIOUS
<1>2. CallAnswers(request, n, <<>>) = <<response>> \o none
  BY DEF CallAnswers
<1> HIDE DEF response, none
<1>3. <<response>> \in Seq({response})
  OBVIOUS
<1>4. <<response>> \o <<>> = <<response>>
  BY <1>3, ConcatEmptySeq
<1> QED
  BY <1>1, <1>2, <1>4 DEF response

(* The handlers of add and modify answer what was asked.                   *)
LEMMA CallAnswered ==
  ASSUME NEW rs, NEW n \in 1 .. Len(rs), SentOK(rs[n]), rs[n].kind \in {"add", "modify"}
  PROVE  OutboxOK(rs, CallAnswers(ToHostOrder(rs[n]), n, <<>>), n)
<1> DEFINE request == ToHostOrder(rs[n])
           answer  == CallResponse(request, n)
<1>1. RequestOK(request) /\ request.kind = rs[n].kind
  BY DEF SentOK
<1>2. AnswerOK(rs, answer, n) /\ answer.of = n
  <2>1. CASE rs[n].kind = "add"
    <3> DEFINE made == [kind |-> "add", of |-> n, clientOrderId |-> request.clientOrderId,
                        serverOrderId |-> request.clientOrderId, status |-> 0]
    <3>1. request.clientOrderId \in Uint64
      BY <2>1, <1>1, MaxRequestsAssumption, OrderIdsAssumption DEF RequestOK
    <3>2. answer = ToNetworkOrder(made)
      BY <2>1, <1>1 DEF CallResponse, AddOrderResponse
    <3>3. FieldsFit(made)
      BY <3>1, AddAnswerFits
    <3>4. /\ "kind" \in DOMAIN made /\ "of" \in DOMAIN made
          /\ made.kind = "add" /\ made.of = n /\ made.clientOrderId = request.clientOrderId
      OBVIOUS
    <3> HIDE DEF made, answer
    <3>5. ToHostOrder(answer) = made /\ answer.kind = "add" /\ answer.of = n
      BY <3>2, <3>3, <3>4, ReadBack
    <3>6. Shown(answer) = made
      BY <3>5 DEF Shown
    <3> QED
      BY <2>1, <3>4, <3>5, <3>6 DEF AnswerOK, PlainAnswer
  <2>2. CASE rs[n].kind = "modify"
    <3> DEFINE made == [kind |-> "modify", of |-> n, orderId |-> request.orderId,
                        side |-> request.side, price |-> request.price,
                        quantity |-> request.quantity]
    <3>1. request.orderId \in Uint64 /\ request.price \in Uint32 /\ request.quantity \in Uint32
      BY <2>2, <1>1, OrderIdsAssumption DEF RequestOK
    <3>2. answer = ToNetworkOrder(made)
      BY <2>2, <1>1 DEF CallResponse, ModifyOrderResponse
    <3>3. FieldsFit(made)
      BY <3>1, ModifyAnswerFits
    <3>4. /\ "kind" \in DOMAIN made /\ "of" \in DOMAIN made
          /\ made.kind = "modify" /\ made.of = n /\ made.orderId = request.orderId
          /\ made.price = request.price /\ made.quantity = request.quantity
      OBVIOUS
    <3> HIDE DEF made, answer
    <3>5. ToHostOrder(answer) = made /\ answer.kind = "modify" /\ answer.of = n
      BY <3>2, <3>3, <3>4, ReadBack
    <3>6. Shown(answer) = made
      BY <3>5 DEF Shown
    <3> QED
      BY <2>2, <3>4, <3>5, <3>6 DEF AnswerOK, PlainAnswer
  <2> QED
    BY <2>1, <2>2
<1> HIDE DEF answer
<1>3. OutboxOK(rs, <<answer>>, n)
  BY <1>2 DEF OutboxOK
<1> QED
  BY <1>3, CallAnswersUntraded DEF answer

(* So does the handler of cancel.                                          *)
LEMMA CancelAnswered ==
  ASSUME NEW rs, NEW n \in 1 .. Len(rs), SentOK(rs[n]), rs[n].kind = "cancel"
  PROVE  OutboxOK(rs, <<CancelOrderResponse(ToHostOrder(rs[n]), n)>>, n)
<1> DEFINE request == ToHostOrder(rs[n])
           answer  == CancelOrderResponse(request, n)
           made    == [kind |-> "cancel", of |-> n, orderId |-> request.orderId, status |-> 0]
<1>1. RequestOK(request) /\ request.kind = "cancel"
  BY DEF SentOK
<1>2. request.orderId \in Uint64
  BY <1>1, OrderIdsAssumption DEF RequestOK
<1>3. answer = ToNetworkOrder(made)
  BY DEF CancelOrderResponse
<1>4. FieldsFit(made)
  BY <1>2, CancelAnswerFits
<1>5. /\ "kind" \in DOMAIN made /\ "of" \in DOMAIN made
      /\ made.kind = "cancel" /\ made.of = n /\ made.orderId = request.orderId
  OBVIOUS
<1> HIDE DEF made, answer
<1>6. ToHostOrder(answer) = made /\ answer.kind = "cancel" /\ answer.of = n
  BY <1>3, <1>4, <1>5, ReadBack
<1>7. Shown(answer) = made
  BY <1>6 DEF Shown
<1>8. AnswerOK(rs, answer, n)
  BY <1>5, <1>6, <1>7 DEF AnswerOK, PlainAnswer
<1>9. OutboxOK(rs, <<answer>>, n)
  BY <1>6, <1>8 DEF OutboxOK
<1> QED
  BY <1>9 DEF answer

(* So do the handlers of users, echo, quit and unknown types.              *)
LEMMA PlainAnswered ==
  ASSUME NEW rs, NEW n \in 1 .. Len(rs), NEW kind \in PlainKinds, rs[n].kind = kind
  PROVE  OutboxOK(rs, <<ToNetworkOrder([kind |-> PlainAnswer(kind), of |-> n])>>, n)
<1> DEFINE named  == PlainAnswer(kind)
           made   == [kind |-> named, of |-> n]
           answer == ToNetworkOrder(made)
<1>0. named \in PlainKinds \cup {"error"} /\ named = PlainAnswer(rs[n].kind)
  BY DEF PlainAnswer, PlainKinds
<1> HIDE DEF named
<1>1. FieldsFit(made)
  BY PlainAnswerFits
<1>2. "kind" \in DOMAIN made /\ "of" \in DOMAIN made /\ made.kind = named /\ made.of = n
  OBVIOUS
<1>3. answer = ToNetworkOrder(made)
  OBVIOUS
<1> HIDE DEF made, answer
<1>4. ToHostOrder(answer) = made /\ answer.kind = named /\ answer.of = n
  BY <1>1, <1>2, <1>3, ReadBack
<1>5. Shown(answer) = made
  BY <1>0, <1>4 DEF Shown, PlainKinds
<1>6. AnswerOK(rs, answer, n)
  BY <1>0, <1>2, <1>4, <1>5 DEF AnswerOK, PlainKinds
<1>7. OutboxOK(rs, <<answer>>, n)
  BY <1>4, <1>6 DEF OutboxOK
<1> QED
  BY <1>7 DEF answer, made, named

-----------------------------------------------------------------------------
(***************************************************************************)
(* The status: what GetOrderInfos reads of the lists, and what is shown.   *)
(***************************************************************************)

(* A price of the book survives the trip.                                  *)
LEMMA PriceKept ==
  ASSUME NEW p \in Prices
  PROVE  ToUint32(p) \in Uint32 /\ ToInt32(ToUint32(p)) = p
<1>1. PICK x \in Uint32 : p = ToInt32(x)
  BY PricesFitAssumption
<1>2. x \in 0 .. Span - 1 /\ Span \in Nat
  BY SpanTypes DEF Uint32
<1> HIDE DEF Span
<1>3. ToUint32(p) = x
  BY <1>1, <1>2 DEF ToInt32, ToUint32
<1> QED
  BY <1>1, <1>3

(* The prices a status shows of one side are prices of its levels.         *)
LEMMA SidePrices ==
  ASSUME IInv, NEW side \in Sides, NEW shown \in FirstPrices(side)
  PROVE  /\ Len(shown) \in 0 .. MaxLevels /\ DOMAIN shown = 1 .. Len(shown)
         /\ \A i \in DOMAIN shown : shown[i] \in DOMAIN levels[side] /\ shown[i] \in Prices
<1>1. PICK n \in 0 .. MaxLevels : shown \in [1 .. n -> DOMAIN levels[side]]
  BY DEF FirstPrices
<1>2. n \in Nat
  BY MaxLevelsAssumption
<1>3. shown \in Seq(DOMAIN levels[side]) /\ Len(shown) = n /\ DOMAIN shown = 1 .. n
  BY <1>1, <1>2
<1>4. \A i \in DOMAIN shown : shown[i] \in DOMAIN levels[side]
  BY <1>1, <1>3
<1>5. DOMAIN levels[side] \subseteq Prices
  BY DEF IInv, BookOK, SideOK, IsMap
<1> QED
  BY <1>3, <1>4, <1>5

(* A sum of 32 bits is a word.                                             *)
LEMMA SumFits ==
  ASSUME NEW x \in Int
  PROVE  x % Span \in Uint32
<1>1. Span \in Nat /\ Span > 0
  BY SpanTypes
<1> HIDE DEF Span
<1>2. x % Span \in 0 .. Span - 1
  BY <1>1
<1> QED
  BY <1>2 DEF Uint32

(* Adding up a list gives what the live orders of its price have left:     *)
(* each of them is in the list, once, and nothing else is.                 *)
LEMMA QueuedQuantity ==
  ASSUME IInv, NEW side \in Sides, NEW p \in DOMAIN levels[side]
  PROVE  LiveQuantity(side, p) \in Int /\ LevelQuantity(side, p) = LiveQuantity(side, p) % Span
<1> DEFINE level == levels[side][p]
           live  == {id \in DOMAIN orders : orders[id].side = side /\ orders[id].price = p}
           f     == [i \in DOMAIN level |-> orders[level[i]].remaining]
           g     == [id \in live |-> orders[id].remaining]
<1>1. SideOK(levels[side], side, orders) /\ BookOK(levels, orders)
  BY DEF IInv, BookOK
<1>2. level \in Seq(OrderIds) /\ DOMAIN level = 1 .. Len(level) /\ Len(level) \in Nat
  BY <1>1, LenProperties DEF SideOK, IsMap
<1>3. IsFiniteSet(DOMAIN level)
  BY <1>2, FS_Interval
<1>4. \A i \in DOMAIN level : level[i] \in live
  BY <1>1 DEF SideOK
<1>5. \A id \in live : \E i \in DOMAIN level : level[i] = id
  BY <1>1 DEF SideOK
<1>6. \A i, j \in DOMAIN level : level[i] = level[j] => i = j
  BY <1>1 DEF SideOK, OnceIn
<1>7. \A id \in live : orders[id].remaining \in Int
  BY <1>1 DEF BookOK, Order
<1> HIDE DEF level, live
<1>8. live = {level[i] : i \in DOMAIN level}
  BY <1>4, <1>5
<1>9. \A i \in DOMAIN level : f[i] \in Int /\ g[level[i]] = f[i]
  BY <1>4, <1>7
<1>10. DOMAIN f = DOMAIN level /\ DOMAIN g = live
  OBVIOUS
<1>11. LevelQuantity(side, p) = SumFunctionOnSet(f, DOMAIN level) % Span
  BY <1>10 DEF LevelQuantity, SumFunction, level
<1>12. LiveQuantity(side, p) = SumFunctionOnSet(g, live)
  BY <1>10 DEF LiveQuantity, SumFunction, live
<1> HIDE DEF f, g
<1>13. SumFunctionOnSet(f, DOMAIN level) = SumFunctionOnSet(g, live)
  BY <1>3, <1>6, <1>8, <1>9, SumImage
<1>14. SumFunctionOnSet(f, DOMAIN level) \in Int
  BY <1>3, <1>9, SumInteger
<1> QED
  BY <1>11, <1>12, <1>13, <1>14

(* The levels of a response fit their fields.                              *)
LEMMA NetworkLevelsFit ==
  ASSUME IInv, NEW side \in Sides, NEW shown \in FirstPrices(side)
  PROVE  LevelsFit(NetworkLevels(side, shown)) /\ Len(NetworkLevels(side, shown)) = Len(shown)
<1> DEFINE infos == NetworkLevels(side, shown)
<1>1. /\ Len(shown) \in 0 .. MaxLevels /\ DOMAIN shown = 1 .. Len(shown)
      /\ \A i \in DOMAIN shown : shown[i] \in DOMAIN levels[side] /\ shown[i] \in Prices
  BY SidePrices
<1>2. /\ DOMAIN infos = DOMAIN shown /\ infos = [i \in DOMAIN infos |-> infos[i]]
      /\ \A i \in DOMAIN infos :
           infos[i] = [price |-> ToUint32(shown[i]), quantity |-> LevelQuantity(side, shown[i])]
  BY DEF NetworkLevels
<1> HIDE DEF infos
<1>3. ASSUME NEW i \in DOMAIN infos
      PROVE  FieldsFit(infos[i])
  <2> DEFINE price    == ToUint32(shown[i])
             quantity == LevelQuantity(side, shown[i])
  <2>1. price \in Uint32
    BY <1>1, <1>2, PriceKept
  <2>2. quantity \in Uint32
    BY <1>1, <1>2, QueuedQuantity, SumFits
  <2>3. infos[i] = [price |-> price, quantity |-> quantity]
    BY <1>2
  <2> HIDE DEF price, quantity
  <2> QED
    BY <2>1, <2>2, <2>3 DEF FieldsFit, Words, LongWords
<1>4. Len(infos) = Len(shown) /\ DOMAIN infos = 1 .. Len(infos)
  <2>1. Len(shown) \in Nat
    BY <1>1, MaxLevelsAssumption
  <2>2. infos = [i \in 1 .. Len(shown) |-> infos[i]]
    BY <1>1, <1>2
  <2>3. Len(infos) = Len(shown)
    BY <2>1, <2>2
  <2> QED
    BY <1>1, <1>2, <2>3
<1> QED
  BY <1>1, <1>2, <1>3, <1>4 DEF LevelsFit, infos

(* The client shows the counts and levels that the handler read.           *)
LEMMA StatusShown ==
  ASSUME IInv, NEW bids \in FirstPrices("Buy"), NEW asks \in FirstPrices("Sell"), NEW n
  PROVE  LET answer == OrderbookStatusResponse(bids, asks, n)
         IN  /\ answer.kind = "status" /\ answer.of = n
             /\ Shown(answer) = StatusOf("status", n, Len(bids), Len(asks),
                                         NetworkLevels("Buy", bids), NetworkLevels("Sell", asks))
<1> DEFINE answer == OrderbookStatusResponse(bids, asks, n)
           lb == NetworkLevels("Buy", bids)
           la == NetworkLevels("Sell", asks)
           made == StatusOf("status", n, Len(bids), Len(asks), lb, la)
<1>1. LevelsFit(lb) /\ Len(lb) = Len(bids) /\ LevelsFit(la) /\ Len(la) = Len(asks)
  BY NetworkLevelsFit DEF Sides
<1> HIDE DEF lb, la
<1>2. answer = StatusToNetworkOrder(made)
  BY DEF OrderbookStatusResponse, StatusOf, lb, la
<1>3. answer = StatusOf("status", n, htonl(Len(bids)), htonl(Len(asks)),
                        LevelsSwapped(lb, htonl(Len(bids))), LevelsSwapped(la, htonl(Len(asks))))
  BY <1>2, StatusFields DEF StatusToNetworkOrder
<1>4. answer.kind = "status" /\ answer.of = n
  BY <1>3 DEF StatusOf
<1> HIDE DEF answer
<1>5. StatusToHostOrder(answer) = made
  BY <1>1, <1>2, StatusRestored
<1> QED
  BY <1>4, <1>5 DEF Shown, answer, lb, la

(* What is shown of a side is right.                                       *)
LEMMA SideIsShown ==
  ASSUME IInv, NEW side \in Sides, NEW shown \in FirstPrices(side)
  PROVE  SideShown(side, Len(shown), NetworkLevels(side, shown))
<1> DEFINE infos == NetworkLevels(side, shown)
<1>1. /\ Len(shown) \in 0 .. MaxLevels /\ DOMAIN shown = 1 .. Len(shown)
      /\ \A i \in DOMAIN shown : shown[i] \in DOMAIN levels[side] /\ shown[i] \in Prices
  BY SidePrices
<1>2. \A i \in 1 .. Len(shown) :
        infos[i].price = ToUint32(shown[i]) /\ infos[i].quantity = LevelQuantity(side, shown[i])
  BY <1>1 DEF NetworkLevels
<1> HIDE DEF infos
<1>3. \A i \in 1 .. Len(shown) : ToInt32(infos[i].price) = shown[i]
  BY <1>1, <1>2, PriceKept
<1>4. \A i \in 1 .. Len(shown) :
        infos[i].quantity = LiveQuantity(side, ToInt32(infos[i].price)) % Span
  BY <1>1, <1>2, <1>3, QueuedQuantity
<1>5. Len(shown) <= MaxLevels
  BY <1>1, MaxLevelsAssumption
<1>6. \A i, j \in 1 .. Len(shown) :
        i < j => AtLeastAsGood(side, shown[i], shown[j]) /\ shown[i] # shown[j]
  BY <1>1 DEF FirstPrices, Before
<1>7. ASSUME NEW id \in DOMAIN orders, orders[id].side = side
      PROVE  \/ \E i \in 1 .. Len(shown) : shown[i] = orders[id].price
             \/ /\ Len(shown) = MaxLevels
                /\ \A i \in 1 .. Len(shown) : AtLeastAsGood(side, shown[i], orders[id].price)
  <2>1. orders[id].price \in DOMAIN levels[side]
    BY <1>7 DEF IInv, BookOK, SideOK
  <2> QED
    BY <1>1, <2>1 DEF FirstPrices, Before
<1> QED
  BY <1>3, <1>4, <1>5, <1>6, <1>7 DEF SideShown, infos

(* The status handler answers what was asked, and shows an uncrossed book: *)
(* under the shared lock no call is matching.                              *)
LEMMA StatusAnswered ==
  ASSUME IInv, pc = "idle", NEW bids \in FirstPrices("Buy"), NEW asks \in FirstPrices("Sell"),
         NEW rs, NEW n \in 1 .. Len(rs), rs[n].kind = "status"
  PROVE  OutboxOK(rs, <<OrderbookStatusResponse(bids, asks, n)>>, n)
<1>1. /\ Len(bids) \in 0 .. MaxLevels /\ DOMAIN bids = 1 .. Len(bids)
      /\ \A i \in DOMAIN bids : bids[i] \in DOMAIN levels["Buy"] /\ bids[i] \in Prices
  BY SidePrices DEF Sides
<1>2. /\ Len(asks) \in 0 .. MaxLevels /\ DOMAIN asks = 1 .. Len(asks)
      /\ \A i \in DOMAIN asks : asks[i] \in DOMAIN levels["Sell"] /\ asks[i] \in Prices
  BY SidePrices DEF Sides
<1>3. \A b \in DOMAIN bids, a \in DOMAIN asks : bids[b] < asks[a]
  <2>1. UncrossedAtRest
    BY InvariantsFollow
  <2>2. \A b \in DOMAIN levels["Buy"], a \in DOMAIN levels["Sell"] : ~(b >= a)
    BY <2>1 DEF UncrossedAtRest, Crossed, CanMatch, Opposite, AtLeastAsGood
  <2>3. \A i \in DOMAIN bids : bids[i] \in Int
    BY <1>1, PricesAssumption
  <2>4. \A i \in DOMAIN asks : asks[i] \in Int
    BY <1>2, PricesAssumption
  <2> QED
    BY <1>1, <1>2, <2>2, <2>3, <2>4
<1> DEFINE answer == OrderbookStatusResponse(bids, asks, n)
           lb     == NetworkLevels("Buy", bids)
           la     == NetworkLevels("Sell", asks)
           shown  == StatusOf("status", n, Len(bids), Len(asks), lb, la)
<1>4. answer.kind = "status" /\ answer.of = n /\ Shown(answer) = shown
  BY StatusShown
<1>5. /\ shown.kind = "status" /\ shown.of = n
      /\ shown.bidLevelsCount = Len(bids) /\ shown.askLevelsCount = Len(asks)
      /\ shown.bidLevels = lb /\ shown.askLevels = la
  BY DEF StatusOf
<1>6. \A i \in 1 .. Len(bids) : ToInt32(lb[i].price) = bids[i]
  BY <1>1, PriceKept DEF NetworkLevels
<1>7. \A i \in 1 .. Len(asks) : ToInt32(la[i].price) = asks[i]
  BY <1>2, PriceKept DEF NetworkLevels
<1> HIDE DEF shown, answer, lb, la
<1>8. Uncrossed(shown)
  BY <1>1, <1>2, <1>3, <1>5, <1>6, <1>7 DEF Uncrossed
<1>9. AnswerOK(rs, answer, n)
  BY <1>4, <1>5, <1>8 DEF AnswerOK, PlainAnswer
<1>10. OutboxOK(rs, <<answer>>, n)
  BY <1>4, <1>9 DEF OutboxOK
<1> QED
  BY <1>10 DEF answer

-----------------------------------------------------------------------------
(***************************************************************************)
(* The invariant.  A worker that matches, or has something to send, is not *)
(* done with the request it took last.                                     *)
(***************************************************************************)

ClientOK(c) ==
  /\ RequestsOK(requests[c], nextOrderId[c])
  /\ taken[c] \in 0 .. Len(requests[c])
  /\ OutboxOK(requests[c], outbox[c], taken[c])
  /\ IF writer = c \/ outbox[c] # <<>>
     THEN taken[c] > 0 /\ AnswersOK(requests[c], answers[c], taken[c] - 1)
     ELSE AnswersOK(requests[c], answers[c], taken[c])
  /\ writer = c =>
       outbox[c] = <<>> /\ requests[c][taken[c]].kind \in {"add", "modify"}

Shapes ==
  /\ DOMAIN requests = Clients /\ DOMAIN outbox = Clients /\ DOMAIN answers = Clients
  /\ taken \in [Clients -> Nat]
  /\ nextOrderId \in [Clients -> Nat \ {0}]

XInv ==
  /\ IInv /\ TradedOnCrossed
  /\ Shapes
  /\ writer \in Clients \cup {None}
  /\ writer # None => pc # "idle"
  /\ \A c \in Clients : ClientOK(c)

(* The first state satisfies XInv.                                         *)
LEMMA XInitHolds == ExchangeInit => XInv
<1> SUFFICES ASSUME ExchangeInit PROVE XInv
  OBVIOUS
<1>1. IInv /\ TradedOnCrossed
  BY InitHolds DEF ExchangeInit, Init, TradedOnCrossed
<1>2. Shapes /\ writer = None /\ None \notin Clients
  BY NoneAssumption DEF ExchangeInit, Shapes
<1>3. ASSUME NEW c \in Clients PROVE ClientOK(c)
  <2>1. /\ requests[c] = <<>> /\ outbox[c] = <<>> /\ answers[c] = <<>>
        /\ taken[c] = 0 /\ nextOrderId[c] = 1 /\ writer # c
    BY <1>2 DEF ExchangeInit
  <2>2. RequestsOK(<<>>, 1) /\ AnswersOK(<<>>, <<>>, 0) /\ OutboxOK(<<>>, <<>>, 0)
    BY NoElements, MaxRequestsAssumption DEF RequestsOK, AnswersOK, OutboxOK
  <2> QED
    BY <2>1, <2>2, NoElements DEF ClientOK
<1> QED
  BY <1>1, <1>2, <1>3 DEF XInv

(* The request a worker takes is one the book can be called with.          *)
LEMMA TakenOK ==
  ASSUME XInv, NEW c \in Clients, NEW kind, Taking(c, kind)
  PROVE  /\ taken[c] \in Nat /\ taken[c] + 1 \in 1 .. Len(requests[c])
         /\ IsSequence(requests[c]) /\ Len(requests[c]) \in Nat
         /\ SentOK(requests[c][taken[c] + 1])
         /\ requests[c][taken[c] + 1].kind = kind
         /\ RequestOK(Asked(c, taken[c] + 1)) /\ Asked(c, taken[c] + 1).kind = kind
         /\ outbox[c] = <<>> /\ writer # c
         /\ taken' = [taken EXCEPT ![c] = taken[c] + 1]
<1>1. taken[c] \in Nat /\ RequestsOK(requests[c], nextOrderId[c])
  BY DEF XInv, Shapes, ClientOK
<1>2. IsSequence(requests[c]) /\ Len(requests[c]) \in Nat /\ DOMAIN requests[c] = 1 .. Len(requests[c])
  BY <1>1, SequenceDomain DEF RequestsOK
<1>3. taken[c] + 1 \in 1 .. Len(requests[c])
  BY <1>1, <1>2 DEF Taking
<1>4. SentOK(requests[c][taken[c] + 1])
  BY <1>1, <1>2, <1>3 DEF RequestsOK
<1> QED
  BY <1>1, <1>2, <1>3, <1>4 DEF Taking, SentOK, Asked

(* Every step is one of the book, or leaves it alone.                      *)
LEMMA BookStep ==
  ASSUME XInv, [ExchangeNext]_exchangeVars
  PROVE  [Next]_vars
<1>1. CASE UNCHANGED exchangeVars
  BY <1>1 DEF exchangeVars
<1>2. ASSUME NEW c \in Clients, Client(c) PROVE UNCHANGED vars
  BY <1>2 DEF Client, SendAdd, SendCancel, SendModify, SendPlain, Request
<1>3. ASSUME NEW c \in Clients, HandleAdd(c) PROVE SomeAdd
  <2> DEFINE request == Asked(c, taken[c] + 1)
  <2>1. Taking(c, "add")
    BY <1>3 DEF HandleAdd
  <2>2. RequestOK(request) /\ request.kind = "add"
    BY <2>1, TakenOK
  <2>3. AddOrder(request.clientOrderId,
                 NewOrder(request.type, request.side, ToInt32(request.price), request.quantity))
    BY <1>3 DEF HandleAdd
  <2> HIDE DEF request
  <2>4. /\ request.clientOrderId \in OrderIds /\ request.type \in OrderTypes
        /\ request.side \in Sides /\ ToInt32(request.price) \in Prices
        /\ request.quantity \in Quantities
    BY <2>2, MaxRequestsAssumption DEF RequestOK
  <2> QED
    BY <2>3, <2>4 DEF SomeAdd
<1>4. ASSUME NEW c \in Clients, HandleModify(c) PROVE SomeModify
  <2> DEFINE request == Asked(c, taken[c] + 1)
  <2>1. Taking(c, "modify")
    BY <1>4 DEF HandleModify
  <2>2. RequestOK(request) /\ request.kind = "modify"
    BY <2>1, TakenOK
  <2>3. MatchOrder(request.orderId, request.side, ToInt32(request.price), request.quantity)
    BY <1>4 DEF HandleModify
  <2> HIDE DEF request
  <2>4. /\ request.orderId \in OrderIds /\ request.side \in Sides
        /\ ToInt32(request.price) \in Prices /\ request.quantity \in Quantities
    BY <2>2 DEF RequestOK
  <2> QED
    BY <2>3, <2>4 DEF SomeModify
<1>5. ASSUME NEW c \in Clients, HandleCancel(c) PROVE SomeCancel
  <2> DEFINE request == Asked(c, taken[c] + 1)
  <2>1. Taking(c, "cancel")
    BY <1>5 DEF HandleCancel
  <2>2. RequestOK(request) /\ request.kind = "cancel"
    BY <2>1, TakenOK
  <2>3. CancelOrder(request.orderId)
    BY <1>5 DEF HandleCancel
  <2> HIDE DEF request
  <2>4. request.orderId \in OrderIds
    BY <2>2 DEF RequestOK
  <2> QED
    BY <2>3, <2>4 DEF SomeCancel
<1>6. ASSUME NEW c \in Clients, HandleStatus(c) \/ HandlePlain(c) \/ SendNext(c)
      PROVE  UNCHANGED vars
  BY <1>6 DEF HandleStatus, HandlePlain, SendNext
<1>7. ASSUME NEW c \in Clients, Match(c) PROVE MatchOrders
  BY <1>7 DEF Match
<1> QED
  BY <1>1, <1>2, <1>3, <1>4, <1>5, <1>6, <1>7 DEF ExchangeNext, Worker, Next

(* Every step keeps the book's invariants.                                 *)
LEMMA BookHolds ==
  ASSUME XInv, [ExchangeNext]_exchangeVars
  PROVE  IInv' /\ TradedOnCrossed'
BY BookStep, StepHolds, TradedHolds DEF XInv

-----------------------------------------------------------------------------
(***************************************************************************)
(* The steps.  Each is one client's.                                       *)
(***************************************************************************)

SameClient(d) ==
  /\ requests'[d] = requests[d] /\ nextOrderId'[d] = nextOrderId[d]
  /\ taken'[d] = taken[d] /\ outbox'[d] = outbox[d] /\ answers'[d] = answers[d]
  /\ writer' = d <=> writer = d

(* A step of one client or its worker leaves the others alone.             *)
LEMMA OtherClient ==
  ASSUME NEW d, ClientOK(d), SameClient(d)
  PROVE  ClientOK(d)'
BY DEF ClientOK, SameClient

(* A client sends a request that fits.                                     *)
LEMMA RequestHolds ==
  ASSUME XInv, IInv', TradedOnCrossed', NEW c \in Clients,
         NEW request, FieldsFit(request), "kind" \in DOMAIN request, RequestOK(request),
         Request(c, request),
         NEW new \in {nextOrderId[c], nextOrderId[c] + 1},
         nextOrderId' = [nextOrderId EXCEPT ![c] = new],
         request.kind = "add" => request.clientOrderId = nextOrderId[c] /\ new = nextOrderId[c] + 1
  PROVE  XInv'
<1> DEFINE sent == ToNetworkOrder(request)
<1>1. ToHostOrder(sent) = request /\ sent.kind = request.kind
  BY ReadBack
<1> HIDE DEF sent
<1>2. SentOK(sent)
  BY <1>1 DEF SentOK
<1>3. /\ requests' = [requests EXCEPT ![c] = Append(requests[c], sent)]
      /\ Len(requests[c]) < MaxRequests
      /\ taken' = taken /\ writer' = writer /\ outbox' = outbox /\ answers' = answers
      /\ pc' = pc
  BY DEF Request, sent, vars
<1>4. Shapes'
  BY <1>3 DEF XInv, Shapes
<1>5. ClientOK(c)'
  <2> DEFINE rs   == requests[c]
             more == Append(rs, sent)
             n    == taken[c]
  <2>1. RequestsOK(rs, nextOrderId[c]) /\ n \in 0 .. Len(rs) /\ OutboxOK(rs, outbox[c], n)
    BY DEF XInv, ClientOK
  <2>2. IsSequence(rs) /\ Len(rs) \in Nat /\ DOMAIN rs = 1 .. Len(rs)
    BY <2>1, SequenceDomain DEF RequestsOK
  <2>3. /\ requests'[c] = more /\ nextOrderId'[c] = new
        /\ taken'[c] = n /\ outbox'[c] = outbox[c] /\ answers'[c] = answers[c]
        /\ writer' = c <=> writer = c
    BY <1>3 DEF XInv, Shapes
  <2>4. RequestsOK(more, new)
    BY <1>1, <1>2, <1>3, <2>1, RequestAppended
  <2>5. Len(more) = Len(rs) + 1 /\ \A i \in 1 .. Len(rs) : more[i] = rs[i]
    BY <2>2, Appended
  <2>6. OutboxOK(more, outbox[c], n)
    BY <2>1, <2>2, OutboxKept
  <2>7. \A m \in 0 .. Len(rs) : AnswersOK(rs, answers[c], m) => AnswersOK(more, answers[c], m)
    <3> TAKE m \in 0 .. Len(rs)
    <3>1. m \in Nat /\ m <= m
      BY <2>2
    <3> QED
      BY <2>2, <3>1, AnswersKept
  <2>8. IF writer = c \/ outbox[c] # <<>>
        THEN n > 0 /\ AnswersOK(rs, answers[c], n - 1)
        ELSE AnswersOK(rs, answers[c], n)
    BY DEF XInv, ClientOK
  <2>9. writer = c => outbox[c] = <<>> /\ rs[n].kind \in {"add", "modify"} /\ n \in 1 .. Len(rs)
    BY <2>1, <2>2, <2>8 DEF XInv, ClientOK
  <2> HIDE DEF rs, more, n
  <2>10. n \in 0 .. Len(more) /\ (n > 0 => n - 1 \in 0 .. Len(rs))
    BY <2>1, <2>2, <2>5
  <2>11. IF writer = c \/ outbox[c] # <<>>
         THEN n > 0 /\ AnswersOK(more, answers[c], n - 1)
         ELSE AnswersOK(more, answers[c], n)
    BY <2>1, <2>7, <2>8, <2>10
  <2>12. writer = c => outbox[c] = <<>> /\ more[n].kind \in {"add", "modify"}
    BY <2>5, <2>9
  <2> QED
    BY <2>3, <2>4, <2>6, <2>10, <2>11, <2>12 DEF ClientOK
<1>6. ASSUME NEW d \in Clients, d # c PROVE ClientOK(d)'
  <2>1. SameClient(d)
    BY <1>3, <1>6 DEF SameClient, XInv, Shapes
  <2> QED
    BY <2>1, OtherClient DEF XInv
<1> QED
  BY <1>3, <1>4, <1>5, <1>6 DEF XInv

(* A worker takes a request and answers it, starts to match, or dies.      *)
LEMMA TakenHolds ==
  ASSUME XInv, IInv', TradedOnCrossed', NEW c \in Clients,
         NEW kind, Taking(c, kind), writer' \in {writer, None, c},
         writer' # writer => pc = "idle", writer' # None => pc' # "idle",
         writer' = c => kind \in {"add", "modify"},
         \/ /\ writer' # c
            /\ \E out : /\ outbox' = [outbox EXCEPT ![c] = out]
                        /\ out # <<>> /\ OutboxOK(requests[c], out, taken[c] + 1)
         \/ outbox' = outbox
  PROVE  XInv'
<1> DEFINE rs == requests[c]
           n  == taken[c] + 1
<1>1. /\ taken[c] \in Nat /\ n \in 1 .. Len(rs) /\ IsSequence(rs) /\ Len(rs) \in Nat
      /\ rs[n].kind = kind /\ outbox[c] = <<>> /\ writer # c
      /\ taken' = [taken EXCEPT ![c] = n]
  BY TakenOK
<1>2. requests' = requests /\ nextOrderId' = nextOrderId /\ answers' = answers
  BY DEF Taking
<1>3. taken'[c] = n /\ \A d \in Clients : d # c => taken'[d] = taken[d]
  BY <1>1 DEF XInv, Shapes
<1>4. DOMAIN outbox' = Clients /\ \A d \in Clients : d # c => outbox'[d] = outbox[d]
  BY DEF XInv, Shapes
<1>5. Shapes'
  BY <1>1, <1>2, <1>4 DEF XInv, Shapes
<1>6. OutboxOK(rs, outbox'[c], n) /\ (writer' = c => outbox'[c] = <<>>)
  <2>1. CASE outbox' = outbox
    BY <2>1, <1>1 DEF OutboxOK
  <2>2. CASE ~(outbox' = outbox)
    BY <2>2 DEF XInv, Shapes
  <2> QED
    BY <2>1, <2>2
<1>7. RequestsOK(rs, nextOrderId[c]) /\ AnswersOK(rs, answers[c], taken[c])
  BY <1>1 DEF XInv, ClientOK
<1>8. AnswersOK(rs, answers[c], n) /\ AnswersOK(rs, answers[c], n - 1) /\ n > 0 /\ n \in 0 .. Len(rs)
  <2>1. taken[c] \in 0 .. Len(rs) /\ n \in Nat /\ taken[c] <= n /\ n - 1 = taken[c]
    BY <1>1
  <2>2. AnswersOK(rs, answers[c], n)
    BY <1>1, <1>7, <2>1, AnswersKept
  <2> QED
    BY <1>1, <1>7, <2>1, <2>2
<1>9. ClientOK(c)'
  <2> HIDE DEF rs, n
  <2>1. requests'[c] = rs /\ nextOrderId'[c] = nextOrderId[c] /\ answers'[c] = answers[c]
    BY <1>2 DEF rs
  <2> QED
    BY <1>1, <1>3, <1>6, <1>7, <1>8, <2>1 DEF ClientOK
<1>10. ASSUME NEW d \in Clients, d # c PROVE ClientOK(d)'
  <2>1. writer' = d <=> writer = d
    BY <1>1, <1>10, NoneAssumption DEF XInv
  <2>2. SameClient(d)
    BY <1>2, <1>3, <1>4, <1>10, <2>1 DEF SameClient
  <2> QED
    BY <2>2, OtherClient DEF XInv
<1>11. writer' \in Clients \cup {None}
  BY DEF XInv
<1> QED
  BY <1>5, <1>9, <1>10, <1>11 DEF XInv

(* A step of the call that matches for c: it returns without a trade, or   *)
(* goes on.                                                                *)
LEMMA MatchHolds ==
  ASSUME XInv, IInv', TradedOnCrossed', NEW c \in Clients, Match(c)
  PROVE  XInv'
<1> DEFINE rs  == requests[c]
           n   == taken[c]
           out == outbox'[c]
<1>1. /\ writer = c /\ MatchOrders /\ outbox[c] = <<>>
      /\ requests' = requests /\ taken' = taken /\ nextOrderId' = nextOrderId
      /\ answers' = answers
  BY DEF Match, XInv, ClientOK
<1>2. /\ RequestsOK(rs, nextOrderId[c]) /\ n \in 0 .. Len(rs) /\ n > 0
      /\ AnswersOK(rs, answers[c], n - 1) /\ rs[n].kind \in {"add", "modify"}
  BY <1>1 DEF XInv, ClientOK
<1>3. IsSequence(rs) /\ Len(rs) \in Nat /\ DOMAIN rs = 1 .. Len(rs) /\ n \in 1 .. Len(rs)
  BY <1>2, SequenceDomain DEF RequestsOK
<1>4. CASE pc' = "idle"
  <2>1. trades = <<>>
    BY <1>1, <1>4, UntradedReturn DEF XInv
  <2>2. writer' = None /\ outbox' = [outbox EXCEPT ![c] = CallAnswers(Asked(c, n), n, <<>>)]
    BY <1>4, <2>1 DEF Match, Answered
  <2>3. /\ DOMAIN outbox' = Clients /\ out = CallAnswers(Asked(c, n), n, <<>>)
        /\ \A d \in Clients : d # c => outbox'[d] = outbox[d]
    BY <2>2 DEF XInv, Shapes
  <2>4. SentOK(rs[n])
    BY <1>2, <1>3 DEF RequestsOK
  <2>5. OutboxOK(rs, out, n)
    BY <1>2, <1>3, <2>3, <2>4, CallAnswered DEF Asked
  <2>6. out # <<>>
    BY <2>3, CallAnswersUntraded
  <2>7. ClientOK(c)'
    <3> HIDE DEF rs, n, out
    <3>1. requests'[c] = rs /\ taken'[c] = n /\ nextOrderId'[c] = nextOrderId[c] /\ answers'[c] = answers[c]
      BY <1>1 DEF rs, n
    <3>2. writer' # c /\ outbox'[c] = out
      BY <2>2, NoneAssumption DEF out
    <3> QED
      BY <1>2, <2>5, <2>6, <3>1, <3>2 DEF ClientOK
  <2>8. ASSUME NEW d \in Clients, d # c PROVE ClientOK(d)'
    <3>1. SameClient(d)
      BY <1>1, <2>2, <2>3, <2>8, NoneAssumption DEF SameClient
    <3> QED
      BY <3>1, OtherClient DEF XInv
  <2>9. Shapes'
    BY <1>1, <2>3 DEF XInv, Shapes
  <2> QED
    BY <2>2, <2>7, <2>8, <2>9 DEF XInv
<1>5. CASE pc' # "idle"
  <2>1. writer' = writer /\ outbox' = outbox
    BY <1>5 DEF Match
  <2>2. ASSUME NEW d \in Clients PROVE ClientOK(d)'
    <3>1. SameClient(d)
      BY <1>1, <2>1 DEF SameClient
    <3> QED
      BY <3>1, OtherClient DEF XInv
  <2>3. Shapes'
    BY <1>1, <2>1 DEF XInv, Shapes
  <2> QED
    BY <1>5, <2>1, <2>2, <2>3 DEF XInv
<1> QED
  BY <1>4, <1>5

(* An answer is sent, whole, cut or with bytes behind it, or lost.         *)
LEMMA SendHolds ==
  ASSUME XInv, IInv', TradedOnCrossed', NEW c \in Clients, SendNext(c)
  PROVE  XInv'
<1> DEFINE rs == requests[c]
           n  == taken[c]
           ans == answers[c]
<1>1. /\ outbox[c] # <<>> /\ writer # c
      /\ requests' = requests /\ taken' = taken /\ nextOrderId' = nextOrderId
      /\ writer' = writer /\ pc' = pc
      /\ outbox' = [outbox EXCEPT ![c] = Tail(outbox[c])]
  BY DEF SendNext, XInv, ClientOK, vars
<1>2. /\ RequestsOK(rs, nextOrderId[c]) /\ n \in 0 .. Len(rs) /\ n > 0
      /\ AnswersOK(rs, ans, n - 1) /\ OutboxOK(rs, outbox[c], n)
  BY <1>1 DEF XInv, ClientOK
<1>3. IsSequence(rs) /\ Len(rs) \in Nat /\ n \in 1 .. Len(rs)
  BY <1>2, SequenceDomain DEF RequestsOK
<1>4. PICK answer : outbox[c] = <<answer>> /\ answer.of = n /\ AnswerOK(rs, answer, n)
  BY <1>1, <1>2 DEF OutboxOK
<1>5. Head(outbox[c]) = answer /\ Tail(outbox[c]) = <<>>
  BY <1>4
<1>6. /\ DOMAIN outbox' = Clients /\ outbox'[c] = <<>>
      /\ \A d \in Clients : d # c => outbox'[d] = outbox[d]
  BY <1>1, <1>5 DEF XInv, Shapes
<1> DEFINE bytes == Bytes(answer)
<1>7. \/ answers' = answers
      \/ \E sent \in {<<answer>>, <<bytes>>, <<answer, bytes>>} :
           answers' = [answers EXCEPT ![c] = ans \o sent]
  BY <1>5 DEF SendNext
<1>8. DOMAIN answers' = Clients /\ \A d \in Clients : d # c => answers'[d] = answers[d]
  BY <1>7 DEF XInv, Shapes
<1>9. AnswersOK(rs, answers'[c], n)
  <2>1. bytes.kind = "bytes"
    BY DEF Bytes
  <2> HIDE DEF bytes
  <2>2. AnswersOK(rs, ans, n)
    <3>1. n - 1 \in 0 .. Len(rs) /\ n \in Nat /\ n - 1 <= n
      BY <1>3
    <3> QED
      BY <3>1, <1>2, <1>3, AnswersKept
  <2>3. AnswersOK(rs, Append(ans, answer), n)
    BY <1>2, <1>3, <1>4, AnswerSent
  <2>4. AnswersOK(rs, Append(ans, bytes), n) /\ AnswersOK(rs, Append(Append(ans, answer), bytes), n)
    BY <2>1, <2>2, <2>3, BytesSent
  <2>5. /\ ans \o <<answer>> = Append(ans, answer)
        /\ ans \o <<bytes>> = Append(ans, bytes)
        /\ ans \o <<answer, bytes>> = Append(Append(ans, answer), bytes)
    BY <1>2, AppendedOne, AppendedTwo DEF AnswersOK
  <2>6. CASE answers' = answers
    BY <2>2, <2>6
  <2>7. CASE \E sent \in {<<answer>>, <<bytes>>, <<answer, bytes>>} :
               answers' = [answers EXCEPT ![c] = ans \o sent]
    <3>1. answers'[c] \in {ans \o <<answer>>, ans \o <<bytes>>, ans \o <<answer, bytes>>}
      BY <2>7 DEF XInv, Shapes
    <3> QED
      BY <2>3, <2>4, <2>5, <3>1
  <2> QED
    BY <1>7, <2>6, <2>7
<1>10. ClientOK(c)'
  <2> HIDE DEF rs, n
  <2>1. requests'[c] = rs /\ taken'[c] = n /\ nextOrderId'[c] = nextOrderId[c] /\ writer' # c
    BY <1>1 DEF rs, n
  <2> QED
    BY <1>2, <1>6, <1>9, <2>1 DEF ClientOK, OutboxOK
<1>11. ASSUME NEW d \in Clients, d # c PROVE ClientOK(d)'
  <2>1. SameClient(d)
    BY <1>1, <1>6, <1>8, <1>11 DEF SameClient
  <2> QED
    BY <2>1, OtherClient DEF XInv
<1>12. Shapes'
  BY <1>1, <1>6, <1>8 DEF XInv, Shapes
<1> QED
  BY <1>1, <1>10, <1>11, <1>12 DEF XInv

(* A client's command.                                                     *)
LEMMA CommandHolds ==
  ASSUME XInv, IInv', TradedOnCrossed', NEW c \in Clients, Client(c)
  PROVE  XInv'
<1>1. PICK command \in Commands :
        \/ SendAdd(c, command) \/ SendCancel(c, command)
        \/ SendModify(c, command) \/ SendPlain(c, command)
  BY DEF Client
<1>2. nextOrderId \in [Clients -> Nat \ {0}] /\ nextOrderId[c] \in Nat
  BY DEF XInv, Shapes
<1>3. CASE SendAdd(c, command)
  <2> DEFINE id      == nextOrderId[c]
             request == [kind |-> "add", type |-> command.type, side |-> command.side,
                         price |-> command.price, quantity |-> command.quantity,
                         clientOrderId |-> id]
  <2>1. /\ command.kind = "add" /\ Request(c, request)
        /\ nextOrderId' = [nextOrderId EXCEPT ![c] = id + 1]
    BY <1>3 DEF SendAdd
  <2>2. id \in 1 .. MaxRequests
    <3>1. RequestsOK(requests[c], id)
      BY DEF XInv, ClientOK
    <3>2. Len(requests[c]) \in Nat /\ id \in 1 .. Len(requests[c]) + 1
      BY <3>1, SequenceDomain DEF RequestsOK
    <3> QED
      BY <2>1, <3>2, MaxRequestsAssumption DEF Request
  <2>3. /\ command.type \in OrderTypes /\ command.side \in Sides
        /\ command.price \in Uint32 /\ ToInt32(command.price) \in Prices
        /\ command.quantity \in Uint32 /\ command.quantity \in Quantities
    BY <2>1, CommandsAssumption
  <2>4. id \in Uint64
    BY <2>2, MaxRequestsAssumption, OrderIdsAssumption
  <2> HIDE DEF id
  <2>5. FieldsFit(request)
    BY <2>3, <2>4, AddFits
  <2>6. /\ "kind" \in DOMAIN request /\ request.kind = "add" /\ request.type = command.type
        /\ request.side = command.side /\ request.price = command.price
        /\ request.quantity = command.quantity /\ request.clientOrderId = id
    OBVIOUS
  <2> HIDE DEF request
  <2>7. RequestOK(request)
    BY <2>2, <2>3, <2>6 DEF RequestOK, Kinds
  <2> QED
    BY <2>1, <2>5, <2>6, <2>7, RequestHolds DEF id
<1>4. CASE ~SendAdd(c, command)
  <2>1. nextOrderId' = [nextOrderId EXCEPT ![c] = nextOrderId[c]]
    BY <1>1, <1>2, <1>4 DEF SendCancel, SendModify, SendPlain
  <2>2. CASE SendCancel(c, command)
    <3> DEFINE request == [kind |-> "cancel", orderId |-> command.orderId]
    <3>1. command.orderId \in OrderIds /\ Request(c, request)
      BY <2>2, CommandsAssumption DEF SendCancel
    <3>2. FieldsFit(request)
      BY <3>1, CancelFits, OrderIdsAssumption
    <3>3. "kind" \in DOMAIN request /\ request.kind = "cancel" /\ request.orderId = command.orderId
      OBVIOUS
    <3> HIDE DEF request
    <3>4. RequestOK(request)
      BY <3>1, <3>3 DEF RequestOK, Kinds
    <3> QED
      BY <2>1, <3>1, <3>2, <3>3, <3>4, RequestHolds
  <2>3. CASE SendModify(c, command)
    <3> DEFINE request == [kind |-> "modify", orderId |-> command.orderId,
                           side |-> command.side, price |-> command.price,
                           quantity |-> command.quantity]
    <3>1. command.kind = "modify" /\ Request(c, request)
      BY <2>3 DEF SendModify
    <3>2. /\ command.orderId \in OrderIds /\ command.side \in Sides
          /\ command.price \in Uint32 /\ ToInt32(command.price) \in Prices
          /\ command.quantity \in Uint32 /\ command.quantity \in Quantities
      BY <3>1, CommandsAssumption
    <3>3. FieldsFit(request)
      BY <3>2, ModifyFits, OrderIdsAssumption
    <3>4. /\ "kind" \in DOMAIN request /\ request.kind = "modify"
          /\ request.orderId = command.orderId /\ request.side = command.side
          /\ request.price = command.price /\ request.quantity = command.quantity
      OBVIOUS
    <3> HIDE DEF request
    <3>5. RequestOK(request)
      BY <3>2, <3>4 DEF RequestOK, Kinds
    <3> QED
      BY <2>1, <3>1, <3>3, <3>4, <3>5, RequestHolds
  <2>4. CASE SendPlain(c, command)
    <3> DEFINE request == [kind |-> command.kind]
    <3>1. command.kind \in PlainKinds \cup {"status"} /\ Request(c, request)
      BY <2>4 DEF SendPlain
    <3>2. FieldsFit(request)
      BY PlainFits
    <3>3. "kind" \in DOMAIN request /\ request.kind = command.kind
      OBVIOUS
    <3> HIDE DEF request
    <3>4. RequestOK(request)
      BY <3>1, <3>3 DEF RequestOK, Kinds, PlainKinds
    <3> QED
      BY <2>1, <3>1, <3>2, <3>3, <3>4, RequestHolds DEF PlainKinds
  <2> QED
    BY <1>1, <1>4, <2>2, <2>3, <2>4
<1> QED
  BY <1>3, <1>4

(* A call of AddOrder or MatchOrder is made.                               *)
LEMMA CallHolds ==
  ASSUME XInv, IInv', TradedOnCrossed', NEW c \in Clients,
         NEW kind \in {"add", "modify"}, Taking(c, kind), pc = "idle",
         CallBegun(c, Asked(c, taken[c] + 1), taken[c] + 1)
  PROVE  XInv'
<1> DEFINE n   == taken[c] + 1
           out == CallAnswers(Asked(c, n), n, <<>>)
<1>1. writer = None /\ None # c
  BY NoneAssumption DEF XInv
<1>2. n \in 1 .. Len(requests[c]) /\ SentOK(requests[c][n]) /\ requests[c][n].kind = kind
  BY TakenOK
<1>3. out # <<>> /\ OutboxOK(requests[c], out, n)
  BY <1>2, CallAnswered, CallAnswersUntraded DEF Asked
<1> HIDE DEF out
<1>4. CASE pc' = "idle"
  <2>1. writer' = None /\ outbox' = [outbox EXCEPT ![c] = out]
    BY <1>1, <1>4 DEF CallBegun, Answered, out
  <2> QED
    BY <1>1, <1>3, <2>1, TakenHolds
<1>5. CASE pc' # "idle"
  <2>1. writer' \in {None, c} /\ outbox' = outbox
    BY <1>5 DEF CallBegun
  <2> QED
    BY <1>1, <1>5, <2>1, TakenHolds
<1> QED
  BY <1>4, <1>5

(* Every step preserves XInv.                                              *)
LEMMA XStepHolds ==
  ASSUME XInv, [ExchangeNext]_exchangeVars
  PROVE  XInv'
<1>1. IInv' /\ TradedOnCrossed'
  BY BookHolds
<1>2. CASE UNCHANGED exchangeVars
  <2>1. /\ requests' = requests /\ taken' = taken /\ nextOrderId' = nextOrderId
        /\ writer' = writer /\ outbox' = outbox /\ answers' = answers /\ pc' = pc
    BY <1>2 DEF exchangeVars, vars
  <2>2. ASSUME NEW d \in Clients PROVE ClientOK(d)'
    <3>1. SameClient(d)
      BY <2>1 DEF SameClient
    <3> QED
      BY <3>1, OtherClient DEF XInv
  <2> QED
    BY <1>1, <2>1, <2>2 DEF XInv, Shapes
<1>3. ASSUME NEW c \in Clients, Client(c) PROVE XInv'
  BY <1>1, <1>3, CommandHolds
<1>4. ASSUME NEW c \in Clients, HandleAdd(c) PROVE XInv'
  <2>1. /\ Taking(c, "add") /\ pc = "idle"
        /\ CallBegun(c, Asked(c, taken[c] + 1), taken[c] + 1)
    BY <1>4 DEF HandleAdd, AddOrder
  <2> QED
    BY <1>1, <2>1, CallHolds
<1>5. ASSUME NEW c \in Clients, HandleModify(c) PROVE XInv'
  <2>1. /\ Taking(c, "modify") /\ pc = "idle"
        /\ CallBegun(c, Asked(c, taken[c] + 1), taken[c] + 1)
    BY <1>5 DEF HandleModify, MatchOrder, NoSuchOrder, StaleFault, ModifyLive
  <2> QED
    BY <1>1, <2>1, CallHolds
<1>6. ASSUME NEW c \in Clients, HandleCancel(c) PROVE XInv'
  <2> DEFINE n   == taken[c] + 1
             out == <<CancelOrderResponse(Asked(c, n), n)>>
  <2>1. /\ Taking(c, "cancel") /\ pc = "idle" /\ writer' = writer
        /\ IF pc' = "idle" THEN outbox' = [outbox EXCEPT ![c] = out] ELSE outbox' = outbox
    BY <1>6 DEF HandleCancel, CancelOrder, NoSuchOrder, StaleFault, CancelLive, Answered
  <2>2. n \in 1 .. Len(requests[c]) /\ SentOK(requests[c][n]) /\ requests[c][n].kind = "cancel"
    BY <2>1, TakenOK
  <2>3. OutboxOK(requests[c], out, n) /\ out # <<>>
    BY <2>2, CancelAnswered DEF Asked
  <2>4. writer = None /\ None # c
    BY <2>1, NoneAssumption DEF XInv
  <2> HIDE DEF out
  <2> QED
    BY <1>1, <2>1, <2>3, <2>4, TakenHolds
<1>7. ASSUME NEW c \in Clients, HandleStatus(c) PROVE XInv'
  <2> DEFINE n == taken[c] + 1
  <2>1. Taking(c, "status") /\ pc = "idle" /\ writer' = writer /\ pc' = pc
    BY <1>7 DEF HandleStatus, vars
  <2>2. PICK bids \in FirstPrices("Buy"), asks \in FirstPrices("Sell") :
          outbox' = [outbox EXCEPT ![c] = <<OrderbookStatusResponse(bids, asks, n)>>]
    BY <1>7 DEF HandleStatus, Answered
  <2> DEFINE out == <<OrderbookStatusResponse(bids, asks, n)>>
  <2>3. n \in 1 .. Len(requests[c]) /\ requests[c][n].kind = "status"
    BY <2>1, TakenOK
  <2>4. OutboxOK(requests[c], out, n) /\ out # <<>>
    BY <2>1, <2>3, StatusAnswered DEF XInv
  <2>5. writer = None /\ None # c
    BY <2>1, NoneAssumption DEF XInv
  <2>6. outbox' = [outbox EXCEPT ![c] = out]
    BY <2>2
  <2> HIDE DEF out
  <2> QED
    BY <1>1, <2>1, <2>4, <2>5, <2>6, TakenHolds
<1>8. ASSUME NEW c \in Clients, HandlePlain(c) PROVE XInv'
  <2> DEFINE n == taken[c] + 1
  <2>1. PICK kind \in PlainKinds :
          /\ Taking(c, kind) /\ writer' = writer /\ pc' = pc
          /\ outbox' = [outbox EXCEPT ![c] =
                           <<ToNetworkOrder([kind |-> PlainAnswer(kind), of |-> n])>>]
    BY <1>8 DEF HandlePlain, Answered, vars
  <2> DEFINE out == <<ToNetworkOrder([kind |-> PlainAnswer(kind), of |-> n])>>
  <2>2. n \in 1 .. Len(requests[c]) /\ requests[c][n].kind = kind /\ writer # c
    BY <2>1, TakenOK
  <2>3. OutboxOK(requests[c], out, n) /\ out # <<>>
    BY <2>2, PlainAnswered
  <2>4. outbox' = [outbox EXCEPT ![c] = out]
    BY <2>1
  <2>5. writer' # None => pc' # "idle"
    BY <2>1 DEF XInv
  <2> HIDE DEF out
  <2> QED
    BY <1>1, <2>1, <2>2, <2>3, <2>4, <2>5, TakenHolds
<1>9. ASSUME NEW c \in Clients, Match(c) PROVE XInv'
  BY <1>1, <1>9, MatchHolds
<1>10. ASSUME NEW c \in Clients, SendNext(c) PROVE XInv'
  BY <1>1, <1>10, SendHolds
<1> QED
  BY <1>2, <1>3, <1>4, <1>5, <1>6, <1>7, <1>8, <1>9, <1>10 DEF ExchangeNext, Worker

-----------------------------------------------------------------------------

(* Whatever the clients send and the workers do, XInv holds.               *)
THEOREM ExchangeInvariance == ExchangeSpec => []XInv
<1>1. ExchangeInit => XInv
  BY XInitHolds
<1>2. XInv /\ [ExchangeNext]_exchangeVars => XInv'
  BY XStepHolds
<1> QED
  BY <1>1, <1>2, PTL DEF ExchangeSpec

(* The requests and answers of every client, and the book, stay of their   *)
(* types.                                                                  *)
THEOREM ExchangeTypeCorrect == ExchangeSpec => []ExchangeTypeOK
<1>1. ASSUME XInv PROVE ExchangeTypeOK
  <2>1. TypeOK /\ Shapes /\ writer \in Clients \cup {None}
    BY <1>1, InvariantsFollow DEF XInv
  <2>2. ASSUME NEW c \in Clients
        PROVE  /\ Len(requests[c]) \in 0 .. MaxRequests
               /\ taken[c] \in 0 .. Len(requests[c])
               /\ \A i \in DOMAIN requests[c] :
                    requests[c][i].kind \in Kinds
    <3>1. RequestsOK(requests[c], nextOrderId[c]) /\ taken[c] \in 0 .. Len(requests[c])
      BY <1>1 DEF XInv, ClientOK
    <3>2. Len(requests[c]) \in Nat /\ Len(requests[c]) <= MaxRequests
      BY <3>1, SequenceDomain DEF RequestsOK
    <3> QED
      BY <3>1, <3>2, MaxRequestsAssumption DEF RequestsOK, SentOK, RequestOK
  <2> QED
    BY <2>1, <2>2 DEF ExchangeTypeOK, Shapes
<1> QED
  BY <1>1, ExchangeInvariance, PTL

(* The answers a client can read are not bytes behind one, and are for     *)
(* requests its worker has taken.                                          *)
LEMMA ReadableOK ==
  ASSUME XInv, NEW c \in Clients, NEW i \in Readable(c)
  PROVE  /\ i \in DOMAIN answers[c] /\ answers[c][i].kind # "bytes"
         /\ taken[c] \in 0 .. Len(requests[c]) /\ RequestsOK(requests[c], nextOrderId[c])
         /\ \E n \in 0 .. taken[c] :
              AnswersOK(requests[c], answers[c], n) /\ AnswerOK(requests[c], answers[c][i], n)
<1>1. ClientOK(c)
  BY DEF XInv
<1>2. RequestsOK(requests[c], nextOrderId[c]) /\ taken[c] \in 0 .. Len(requests[c])
  BY <1>1 DEF ClientOK
<1>3. Len(requests[c]) \in Nat
  BY <1>2, SequenceDomain DEF RequestsOK
<1>4. \E n \in 0 .. taken[c] : AnswersOK(requests[c], answers[c], n)
  <2>1. CASE writer = c \/ outbox[c] # <<>>
    <3>1. taken[c] > 0 /\ AnswersOK(requests[c], answers[c], taken[c] - 1)
      BY <1>1, <2>1 DEF ClientOK
    <3>2. taken[c] - 1 \in 0 .. taken[c]
      BY <1>2, <1>3, <3>1
    <3> QED
      BY <3>1, <3>2
  <2>2. CASE ~(writer = c \/ outbox[c] # <<>>)
    <3>1. AnswersOK(requests[c], answers[c], taken[c])
      BY <1>1, <2>2 DEF ClientOK
    <3>2. taken[c] \in 0 .. taken[c]
      BY <1>2, <1>3
    <3> QED
      BY <3>1, <3>2
  <2> QED
    BY <2>1, <2>2
<1>5. PICK n \in 0 .. taken[c] : AnswersOK(requests[c], answers[c], n)
  BY <1>4
<1>6. i \in DOMAIN answers[c] /\ \A j \in 1 .. i : answers[c][j].kind # "bytes"
  BY DEF Readable
<1>7. i \in 1 .. i
  BY <1>5, <1>6, SequenceDomain DEF AnswersOK
<1>8. answers[c][i].kind # "bytes"
  BY <1>6, <1>7
<1>9. AnswerOK(requests[c], answers[c][i], n)
  BY <1>5, <1>6, <1>8 DEF AnswersOK
<1> QED
  BY <1>2, <1>5, <1>6, <1>8, <1>9

(* An answer is never for another request than the client thinks, nor out  *)
(* of order, however the workers take turns and whatever is lost.          *)
THEOREM AnswersAreInOrder == ExchangeSpec => []AnswersInOrder
<1>1. ASSUME XInv PROVE AnswersInOrder
  <2> SUFFICES ASSUME NEW c \in Clients, NEW i \in Readable(c)
               PROVE  /\ IsAnswer(c, Shown(answers[c][i]))
                      /\ \A j \in Readable(c) : j < i => answers[c][j].of < answers[c][i].of
    BY DEF AnswersInOrder
  <2> DEFINE rs     == requests[c]
             answer == answers[c][i]
             shown  == Shown(answer)
             k      == answer.of
  <2>1. /\ i \in DOMAIN answers[c] /\ answer.kind # "bytes"
        /\ taken[c] \in 0 .. Len(rs) /\ RequestsOK(rs, nextOrderId[c])
        /\ \E n \in 0 .. taken[c] : AnswersOK(rs, answers[c], n) /\ AnswerOK(rs, answer, n)
    BY <1>1, ReadableOK
  <2>2. PICK n \in 0 .. taken[c] : AnswersOK(rs, answers[c], n) /\ AnswerOK(rs, answer, n)
    BY <2>1
  <2>3. Len(rs) \in Nat /\ DOMAIN rs = 1 .. Len(rs)
    BY <2>1, SequenceDomain DEF RequestsOK
  <2>4. \A j \in Readable(c) : j < i => answers[c][j].of < answers[c][i].of
    <3> SUFFICES ASSUME NEW j \in Readable(c), j < i
                 PROVE  answers[c][j].of < answers[c][i].of
      OBVIOUS
    <3>1. j \in DOMAIN answers[c] /\ answers[c][j].kind # "bytes"
      BY <1>1, ReadableOK
    <3> QED
      BY <2>1, <2>2, <3>1 DEF AnswersOK
  <2> HIDE DEF shown
  <2>5. /\ k \in 1 .. n /\ shown.of = k /\ shown.kind = answer.kind
        /\ answer.kind = PlainAnswer(rs[k].kind)
        /\ answer.kind = "add" => shown.clientOrderId = ToHostOrder(rs[k]).clientOrderId
        /\ answer.kind \in {"cancel", "modify"} => shown.orderId = ToHostOrder(rs[k]).orderId
        /\ answer.kind = "modify" =>
             /\ shown.price = ToHostOrder(rs[k]).price
             /\ shown.quantity = ToHostOrder(rs[k]).quantity
    BY <2>2 DEF AnswerOK, shown
  <2> HIDE DEF rs, answer, k
  <2>6. k \in DOMAIN rs /\ k \in 1 .. taken[c]
    BY <2>1, <2>2, <2>3, <2>5
  <2>7. rs[k].kind = ToHostOrder(rs[k]).kind
    BY <2>1, <2>6 DEF RequestsOK, SentOK
  <2>8. ASSUME NEW m \in DOMAIN rs, rs[m].kind = "add", shown.kind = "add",
               ToHostOrder(rs[m]).clientOrderId = shown.clientOrderId
        PROVE  m = k
    <3>1. rs[k].kind = "add" /\ ToHostOrder(rs[m]).clientOrderId = ToHostOrder(rs[k]).clientOrderId
      BY <2>5, <2>8 DEF PlainAnswer
    <3>2. ~(m < k) /\ ~(k < m)
      <4>1. ToHostOrder(rs[k]).clientOrderId \in Int
        BY <2>1, <2>6, <2>7, <3>1, MaxRequestsAssumption DEF RequestsOK, SentOK, RequestOK
      <4> QED
        BY <2>1, <2>6, <2>8, <3>1, <4>1 DEF RequestsOK
    <3> QED
      BY <2>3, <2>6, <3>2
  <2>9. IsAnswer(c, shown)
    BY <2>5, <2>6, <2>7, <2>8 DEF IsAnswer, Asked, rs
  <2> QED
    BY <2>4, <2>9 DEF shown, answer
<1> QED
  BY <1>1, ExchangeInvariance, PTL

(* No client is ever shown a book that could trade: a status is read under *)
(* the lock, and the wire keeps the sign of a price.                       *)
THEOREM StatusIsUncrossed == ExchangeSpec => []ShownUncrossed
<1>1. ASSUME XInv PROVE ShownUncrossed
  <2> SUFFICES ASSUME NEW c \in Clients, NEW i \in Readable(c), answers[c][i].kind = "status"
               PROVE  Uncrossed(Shown(answers[c][i]))
    BY DEF ShownUncrossed, Uncrossed
  <2>1. \E n \in 0 .. taken[c] : AnswerOK(requests[c], answers[c][i], n)
    BY <1>1, ReadableOK
  <2> QED
    BY <2>1 DEF AnswerOK
<1> QED
  BY <1>1, ExchangeInvariance, PTL

(* With many clients, what the book promises of one caller still holds:    *)
(* every step of the exchange is one of the book or leaves it alone.       *)
THEOREM BookKept ==
  ExchangeSpec =>
    /\ Init /\ [][Next]_vars
    /\ [](IndexConsistent /\ UncrossedAtRest /\ NoLeftoversAtRest)
<1>1. ExchangeInit => Init
  BY DEF ExchangeInit
<1>2. XInv /\ [ExchangeNext]_exchangeVars => [Next]_vars
  BY BookStep
<1>3. XInv => IndexConsistent /\ UncrossedAtRest /\ NoLeftoversAtRest
  BY InvariantsFollow DEF XInv
<1> QED
  BY <1>1, <1>2, <1>3, ExchangeInvariance, PTL DEF ExchangeSpec
-----------------------------------------------------------------------------

(* A step puts a status into an outbox only by HandleStatus: what is about *)
(* to be sent is the answer to the request taken last.                     *)
LEMMA StatusOnlyHandled ==
  ASSUME XInv, XInv', NEW c \in Clients, ExchangeNext,
         outbox'[c] # outbox[c], outbox'[c] # <<>>, Head(outbox'[c]).kind = "status"
  PROVE  HandleStatus(c)
<1>1. requests'[c][taken'[c]].kind = "status"
  <2>1. PICK answer : /\ outbox'[c] = <<answer>> /\ answer.of = taken'[c]
                      /\ AnswerOK(requests'[c], answer, taken'[c])
    BY DEF XInv, ClientOK, OutboxOK
  <2>2. Head(outbox'[c]) = answer
    BY <2>1
  <2> QED
    BY <2>1, <2>2 DEF AnswerOK, PlainAnswer
<1>2. PICK d \in Clients : Client(d) \/ Worker(d)
  BY DEF ExchangeNext
<1>3. DOMAIN outbox = Clients
  BY DEF XInv, Shapes
<1>4. ~Client(d)
  BY DEF Client, SendAdd, SendCancel, SendModify, SendPlain, Request
<1>5. ASSUME NEW kind, Taking(d, kind), kind # "status" PROVE d # c
  <2>1. /\ taken[d] \in Nat /\ taken' = [taken EXCEPT ![d] = taken[d] + 1]
        /\ requests[d][taken[d] + 1].kind = kind
    BY <1>5, TakenOK
  <2>2. taken'[d] = taken[d] + 1 /\ requests' = requests
    BY <1>5, <2>1 DEF Taking, XInv, Shapes
  <2> QED
    BY <1>1, <1>5, <2>1, <2>2
<1>6. ASSUME NEW toSend, d # c, Answered(d, toSend) \/ UNCHANGED outbox PROVE FALSE
  BY <1>3, <1>6 DEF Answered
<1>7. ~HandleAdd(d) /\ ~HandleModify(d)
  BY <1>5, <1>6 DEF HandleAdd, HandleModify, CallBegun
<1>8. ~HandleCancel(d) /\ ~HandlePlain(d)
  BY <1>5, <1>6 DEF HandleCancel, HandlePlain, PlainKinds
<1>9. ~Match(d)
  <2> SUFFICES ASSUME Match(d) PROVE FALSE
    OBVIOUS
  <2>1. d = c
    BY <1>6 DEF Match
  <2>2. requests[d][taken[d]].kind \in {"add", "modify"} /\ requests' = requests /\ taken' = taken
    BY DEF Match, XInv, ClientOK
  <2> QED
    BY <1>1, <2>1, <2>2
<1>10. ~SendNext(d)
  <2> SUFFICES ASSUME SendNext(d) PROVE FALSE
    OBVIOUS
  <2>1. outbox[d] # <<>> /\ outbox' = [outbox EXCEPT ![d] = Tail(outbox[d])]
    BY DEF SendNext
  <2>2. PICK answer : outbox[d] = <<answer>>
    BY <2>1 DEF XInv, ClientOK, OutboxOK
  <2>3. Tail(outbox[d]) = <<>>
    BY <2>2
  <2> QED
    BY <1>3, <2>1, <2>3
<1>11. HandleStatus(d)
  BY <1>2, <1>4, <1>7, <1>8, <1>9, <1>10 DEF Worker
<1>12. d = c
  BY <1>6, <1>11 DEF HandleStatus
<1> QED
  BY <1>11, <1>12

(* Every status a worker makes shows the book as it is: the best levels of *)
(* both sides in order, each with all that its live orders have left (in   *)
(* 32 bits), and none left out that is better than one shown; for lists of *)
(* any length, and whatever the other workers do meanwhile.                *)
THEOREM LevelsAreShown == ExchangeSpec => LevelsShown
<1>1. XInv /\ XInv' /\ [ExchangeNext]_exchangeVars =>
        [\A c \in Clients :
           outbox'[c] # outbox[c] /\ outbox'[c] # <<>> /\ Head(outbox'[c]).kind = "status" =>
             LET status == Shown(Head(outbox'[c]))
             IN  /\ SideShown("Buy", status.bidLevelsCount, status.bidLevels)
                 /\ SideShown("Sell", status.askLevelsCount, status.askLevels)]_exchangeVars
  <2> SUFFICES ASSUME XInv, XInv', ExchangeNext, NEW c \in Clients,
                      outbox'[c] # outbox[c], outbox'[c] # <<>>,
                      Head(outbox'[c]).kind = "status"
               PROVE  LET status == Shown(Head(outbox'[c]))
                      IN  /\ SideShown("Buy", status.bidLevelsCount, status.bidLevels)
                          /\ SideShown("Sell", status.askLevelsCount, status.askLevels)
    OBVIOUS
  <2> DEFINE n == taken[c] + 1
  <2>1. HandleStatus(c)
    BY StatusOnlyHandled
  <2>2. PICK bids \in FirstPrices("Buy"), asks \in FirstPrices("Sell") :
          outbox' = [outbox EXCEPT ![c] = <<OrderbookStatusResponse(bids, asks, n)>>]
    BY <2>1 DEF HandleStatus, Answered
  <2> DEFINE answer == OrderbookStatusResponse(bids, asks, n)
             lb     == NetworkLevels("Buy", bids)
             la     == NetworkLevels("Sell", asks)
             status == StatusOf("status", n, Len(bids), Len(asks), lb, la)
  <2>3. Shown(answer) = status
    BY StatusShown DEF XInv
  <2>4. Head(outbox'[c]) = answer
    BY <2>2 DEF XInv, Shapes
  <2>5. SideShown("Buy", Len(bids), lb) /\ SideShown("Sell", Len(asks), la)
    BY SideIsShown DEF XInv, Sides
  <2>6. /\ status.bidLevelsCount = Len(bids) /\ status.askLevelsCount = Len(asks)
        /\ status.bidLevels = lb /\ status.askLevels = la
    BY DEF StatusOf
  <2> HIDE DEF answer, status, lb, la
  <2> QED
    BY <2>3, <2>4, <2>5, <2>6
<1> QED
  BY <1>1, ExchangeInvariance, PTL DEF ExchangeSpec, LevelsShown
-----------------------------------------------------------------------------

(* The book behind the handlers keeps price-time priority: the clients'    *)
(* orders, of whichever worker, trade by price and then by the time their  *)
(* requests were handled.                                                  *)
THEOREM PriorityKept == ExchangeSpec => PriceTimePriority
<1>1. IInv /\ [Next]_vars => [Book!Next]_Book!bookVars
  BY StepImplements
<1>2. Init => Book!Init
  BY InitImplements
<1>3. XInv => IInv
  BY DEF XInv
<1> QED
  BY <1>1, <1>2, <1>3, BookKept, ExchangeInvariance, PTL DEF PriceTimePriority, Book!Spec

-----------------------------------------------------------------------------
(***************************************************************************)
(* No worker waits for nothing.                                            *)
(***************************************************************************)

(* Prices of T, the best one first.                                        *)
Sorted(side, T, n, s) ==
  /\ \A i, j \in 1 .. n : i < j => Before(side, s[i], s[j])
  /\ \A p \in T : \E i \in 1 .. n : s[i] = p

(* The prices of a finite map can be put in order.                         *)
LEMMA PricesSorted ==
  ASSUME NEW side \in Sides, NEW S, S \subseteq Int, IsFiniteSet(S)
  PROVE  \E n \in Nat : \E s \in [1 .. n -> S] : Sorted(side, S, n, s)
<1> DEFINE Good == {T \in SUBSET S : \E n \in Nat : \E s \in [1 .. n -> T] : Sorted(side, T, n, s)}
<1>1. ASSUME NEW T \in SUBSET S, \A U \in SUBSET T : U # T => U \in Good
      PROVE  T \in Good
  <2>1. CASE T = {}
    <3>1. [i \in 1 .. 0 |-> 0] \in [1 .. 0 -> T] /\ Sorted(side, T, 0, [i \in 1 .. 0 |-> 0])
      BY <2>1 DEF Sorted
    <3> QED
      BY <3>1
  <2>2. CASE T # {}
    <3> DEFINE other == IF side = "Buy" THEN "Sell" ELSE "Buy"
    <3>1. PICK w \in T : \A q \in T : AtLeastAsGood(other, w, q)
      BY <1>1, <2>2, BestOfFinite, FS_Subset DEF Sides
    <3>2. \A q \in T : q # w => Before(side, q, w)
      BY <3>1 DEF Before, AtLeastAsGood, Sides
    <3>3. T \ {w} \in Good
      BY <1>1
    <3>4. PICK n \in Nat : \E s \in [1 .. n -> T \ {w}] : Sorted(side, T \ {w}, n, s)
      BY <3>3
    <3>5. PICK s \in [1 .. n -> T \ {w}] : Sorted(side, T \ {w}, n, s)
      BY <3>4
    <3> DEFINE t == [i \in 1 .. n + 1 |-> IF i = n + 1 THEN w ELSE s[i]]
    <3>6. \A i \in 1 .. n + 1 : i = n + 1 \/ (i # n + 1 /\ i \in 1 .. n)
      OBVIOUS
    <3>7. t \in [1 .. n + 1 -> T] /\ n + 1 \in Nat
      BY <3>5, <3>6
    <3>8. ASSUME NEW i \in 1 .. n + 1, NEW j \in 1 .. n + 1, i < j
          PROVE  Before(side, t[i], t[j])
      <4>1. i \in 1 .. n /\ t[i] = s[i] /\ s[i] \in T /\ s[i] # w
        BY <3>5, <3>8
      <4>2. CASE j = n + 1
        BY <3>2, <4>1, <4>2
      <4>3. CASE j # n + 1
        BY <3>5, <3>6, <3>8, <4>1, <4>3 DEF Sorted
      <4> QED
        BY <4>2, <4>3
    <3>9. ASSUME NEW p \in T PROVE \E i \in 1 .. n + 1 : t[i] = p
      <4>1. CASE p = w
        BY <4>1
      <4>2. CASE p # w
        <5>1. PICK i \in 1 .. n : s[i] = p
          BY <3>5, <4>2 DEF Sorted
        <5>2. i \in 1 .. n + 1 /\ i # n + 1
          OBVIOUS
        <5> QED
          BY <5>1, <5>2
      <4> QED
        BY <4>1, <4>2
    <3> HIDE DEF t
    <3>10. Sorted(side, T, n + 1, t)
      BY <3>8, <3>9 DEF Sorted
    <3> QED
      BY <3>7, <3>10
  <2> QED
    BY <2>1, <2>2
<1>2. S \in Good
  <2> HIDE DEF Good
  <2> QED
    BY <1>1, SubsetInduction
<1> QED
  BY <1>2

(* GetOrderInfos of any book gives a response its levels.                  *)
LEMMA PricesToShow ==
  ASSUME IInv, FiniteBook, NEW side \in Sides
  PROVE  FirstPrices(side) # {}
<1> DEFINE S == DOMAIN levels[side]
<1>1. S \subseteq Int /\ IsFiniteSet(S)
  BY PricesAssumption DEF IInv, BookOK, SideOK, IsMap, FiniteBook
<1> HIDE DEF S
<1>2. PICK n \in Nat : \E s \in [1 .. n -> S] : Sorted(side, S, n, s)
  BY <1>1, PricesSorted
<1>3. PICK s \in [1 .. n -> S] : Sorted(side, S, n, s)
  BY <1>2
<1> DEFINE m == IF n <= MaxLevels THEN n ELSE MaxLevels
           shown == [i \in 1 .. m |-> s[i]]
<1>4. m \in 0 .. MaxLevels /\ m <= n /\ m \in Nat
  BY MaxLevelsAssumption
<1>5. m = n \/ (m = MaxLevels /\ m < n)
  BY MaxLevelsAssumption
<1> HIDE DEF m
<1>6. \A i \in 1 .. m : i \in 1 .. n
  BY <1>4
<1>7. shown \in [1 .. m -> S] /\ DOMAIN shown = 1 .. m
  BY <1>6
<1>8. Len(shown) = m
  <2>1. shown \in Seq(S)
    BY <1>4, <1>7
  <2> QED
    BY <1>4, <1>7, <2>1, LenProperties
<1>9. ASSUME NEW i \in DOMAIN shown, NEW j \in DOMAIN shown, i < j
      PROVE  Before(side, shown[i], shown[j])
  BY <1>3, <1>6, <1>7, <1>9 DEF Sorted
<1>10. ASSUME NEW p \in S
       PROVE  \/ \E i \in DOMAIN shown : shown[i] = p
              \/ Len(shown) = MaxLevels /\ \A i \in DOMAIN shown : Before(side, shown[i], p)
  <2>1. PICK k \in 1 .. n : s[k] = p
    BY <1>3 DEF Sorted
  <2>2. CASE k \in 1 .. m
    BY <1>7, <2>1, <2>2
  <2>3. CASE k \notin 1 .. m
    <3>1. m = MaxLevels /\ \A i \in 1 .. m : i < k
      BY <1>4, <1>5, <2>3
    <3>2. \A i \in 1 .. m : Before(side, s[i], s[k])
      BY <1>3, <1>6, <3>1 DEF Sorted
    <3> QED
      BY <1>7, <1>8, <2>1, <3>1, <3>2
  <2> QED
    BY <2>2, <2>3
<1> HIDE DEF shown
<1>11. shown \in UNION {[1 .. k -> S] : k \in 0 .. MaxLevels}
  BY <1>4, <1>7
<1> QED
  BY <1>9, <1>10, <1>11 DEF FirstPrices, S

(* The lock of the book is held by a client exactly while a call matches.  *)
LockHeld == writer # None <=> pc = "matching"

(* A step of the loop of MatchOrders goes on, or the call returns.         *)
LEMMA MatchingOrBack ==
  ASSUME IInv, MatchOrders
  PROVE  pc' \in {"matching", "idle"}
<1>1. CASE Fill
  BY <1>1, FillHolds
<1>2. CASE Spin
  BY <1>2 DEF Spin, vars
<1>3. CASE Return
  BY <1>3, ReturnHolds
<1> QED
  BY <1>1, <1>2, <1>3 DEF MatchOrders

(* Every step gives the lock to the call that matches and takes it back    *)
(* when that returns.                                                      *)
LEMMA LockHolds ==
  ASSUME XInv, LockHeld, [ExchangeNext]_exchangeVars
  PROVE  LockHeld'
<1>1. CASE UNCHANGED <<pc, writer>>
  BY <1>1 DEF LockHeld
<1>2. CASE UNCHANGED exchangeVars
  BY <1>1, <1>2 DEF exchangeVars, vars
<1>3. ASSUME NEW c \in Clients, Client(c) PROVE LockHeld'
  BY <1>1, <1>3 DEF Client, SendAdd, SendCancel, SendModify, SendPlain, Request, vars
<1>4. ASSUME NEW c \in Clients, HandleAdd(c) \/ HandleModify(c) PROVE LockHeld'
  <2>1. pc = "idle"
    BY <1>4 DEF HandleAdd, AddOrder, HandleModify, MatchOrder, NoSuchOrder, StaleFault, ModifyLive
  <2>2. IF pc' = "idle" THEN writer' = writer
                        ELSE writer' = (IF pc' = "matching" THEN c ELSE None)
    BY <1>4 DEF HandleAdd, HandleModify, CallBegun
  <2>3. writer = None /\ c # None
    BY <2>1, NoneAssumption DEF LockHeld
  <2> QED
    BY <2>2, <2>3 DEF LockHeld
<1>5. ASSUME NEW c \in Clients, HandleCancel(c) PROVE LockHeld'
  <2>1. writer' = writer /\ pc = "idle" /\ pc' # "matching"
    BY <1>5 DEF HandleCancel, CancelOrder, NoSuchOrder, CancelLive, StaleFault, vars
  <2> QED
    BY <2>1 DEF LockHeld
<1>6. ASSUME NEW c \in Clients, HandleStatus(c) \/ HandlePlain(c) \/ SendNext(c)
      PROVE  LockHeld'
  BY <1>1, <1>6 DEF HandleStatus, HandlePlain, SendNext, vars
<1>7. ASSUME NEW c \in Clients, Match(c) PROVE LockHeld'
  <2>1. writer = c /\ pc' \in {"matching", "idle"} /\ c # None
    BY <1>7, MatchingOrBack, NoneAssumption DEF Match, XInv
  <2> QED
    BY <1>7, <2>1 DEF Match, LockHeld
<1> QED
  BY <1>2, <1>3, <1>4, <1>5, <1>6, <1>7 DEF ExchangeNext, Worker

(* As long as a request is to be handled or an answer to be sent, some     *)
(* worker can go on: nobody waits for a lock that nobody has, every status *)
(* has levels to show, and the call that matches has a step to take.       *)
THEOREM NobodyIsStuck == ExchangeSpec => []NobodyStuck
<1>1. ExchangeInit => LockHeld /\ FiniteBook
  <2>1. DOMAIN EmptyMap = {}
    BY DEF EmptyMap
  <2> QED
    BY <2>1, FS_EmptySet DEF ExchangeInit, Init, LockHeld, FiniteBook, Sides
<1>2. XInv /\ LockHeld /\ [ExchangeNext]_exchangeVars => LockHeld'
  BY LockHolds
<1>3. XInv /\ FiniteBook /\ [ExchangeNext]_exchangeVars => FiniteBook'
  BY BookStep, FiniteHolds DEF XInv
<1>4. ASSUME XInv, LockHeld, FiniteBook PROVE NobodyStuck
  <2> SUFFICES ASSUME Running, Pending
               PROVE  \E c \in Clients : CanGoOn(c)
    BY DEF NobodyStuck
  <2>1. CASE pc = "matching"
    <3>1. writer \in Clients
      BY <1>4, <2>1 DEF XInv, LockHeld
    <3>2. LoopGoesOn
      BY <1>4, <2>1, BestLevelsExist DEF XInv, LoopGoesOn, Exhausted
    <3> QED
      BY <2>1, <3>1, <3>2 DEF CanGoOn
  <2>2. CASE pc = "idle"
    <3>1. writer = None
      BY <1>4, <2>2 DEF LockHeld
    <3>2. PICK c \in Clients : taken[c] < Len(requests[c]) \/ outbox[c] # <<>>
      BY <3>1, NoneAssumption DEF Pending
    <3>3. FirstPrices("Buy") # {} /\ FirstPrices("Sell") # {}
      BY <1>4, PricesToShow DEF XInv, Sides
    <3> QED
      BY <2>2, <3>1, <3>2, <3>3, NoneAssumption DEF CanGoOn
  <2>3. pc \in {"idle", "matching", "crashed"}
    BY <1>4 DEF XInv, IInv
  <2> QED
    BY <2>1, <2>2, <2>3 DEF Running
<1> QED
  BY <1>1, <1>2, <1>3, <1>4, ExchangeInvariance, PTL DEF ExchangeSpec
=============================================================================

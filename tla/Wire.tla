-------------------------------- MODULE Wire --------------------------------
(***************************************************************************)
(* The integers of message_format.h on the wire: uint32 and uint64 fields  *)
(* in network byte order, and the structs' toNetworkOrder and toHostOrder. *)
(*                                                                         *)
(* A 32-bit field is two digits in base Byte instead of four bytes, and a  *)
(* 64-bit field is two such fields; the host is little endian.  A struct   *)
(* is a record of its fields, its type called kind; of is in no struct and *)
(* says which request an answer is for.  The header's sequence is zero in  *)
(* everything the client sends, and its length is the subject of           *)
(* MessageStream.                                                          *)
(***************************************************************************)
EXTENDS Integers, Sequences

CONSTANTS
  Byte,      (* how many values a digit has; 256 in the code               *)
  MaxLevels  (* MAX_LEVELS                                                 *)

ASSUME ByteAssumption == Byte \in Nat /\ Byte > 1
ASSUME MaxLevelsAssumption == MaxLevels \in Nat /\ MaxLevels < Byte

Span   == Byte * Byte
Uint32 == 0 .. Span - 1
Uint64 == 0 .. Span * Span - 1

(* Price is std::int32_t in the book and uint32_t on the wire.             *)
ToInt32(x)  == IF 2 * x >= Span THEN x - Span ELSE x
ToUint32(p) == IF p < 0 THEN p + Span ELSE p

-----------------------------------------------------------------------------

htonl(x) == (x % Byte) * Byte + x \div Byte

htonll(x) == htonl(x % Span) * Span + htonl(x \div Span)

Words     == {"price", "quantity"}
LongWords == {"clientOrderId", "serverOrderId", "orderId", "buyOrderId", "sellOrderId"}

Swapped(struct) ==
  [field \in DOMAIN struct |->
     IF field \in LongWords THEN htonll(struct[field])
     ELSE IF field \in Words THEN htonl(struct[field])
     ELSE struct[field]]

(* Mutant of ToNetworkOrder: htonl for the 64-bit fields too.              *)
ToNetworkOrderShort(struct) ==
  [field \in DOMAIN struct |->
     IF field \in Words \cup LongWords THEN htonl(struct[field] % Span) ELSE struct[field]]

(* Of every request and response but the status of the book.               *)
ToNetworkOrder(struct) == Swapped(struct)
ToHostOrder(struct)    == Swapped(struct)

-----------------------------------------------------------------------------
(***************************************************************************)
(* OrderbookStatusResponse.  Its two loops run up to the counts after they *)
(* have been converted: on the way out they stop at MAX_LEVELS, because a  *)
(* count that is not zero is large once it is swapped.  The levels beyond  *)
(* the counts, which nobody sets or reads, are left out.                   *)
(***************************************************************************)

LevelsSwapped(infos, count) ==
  [i \in DOMAIN infos |->
     IF i <= count /\ i <= MaxLevels THEN Swapped(infos[i]) ELSE infos[i]]

StatusSwapped(status) ==
  LET bidLevelsCount == htonl(status.bidLevelsCount)
      askLevelsCount == htonl(status.askLevelsCount)
  IN  [kind |-> status.kind, of |-> status.of,
       bidLevelsCount |-> bidLevelsCount,
       askLevelsCount |-> askLevelsCount,
       bidLevels |-> LevelsSwapped(status.bidLevels, bidLevelsCount),
       askLevels |-> LevelsSwapped(status.askLevels, askLevelsCount)]

StatusToNetworkOrder(status) == StatusSwapped(status)
StatusToHostOrder(status)    == StatusSwapped(status)
=============================================================================

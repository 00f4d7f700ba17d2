----------------------------- MODULE WireProofs -----------------------------
(***************************************************************************)
(* The two ends understand each other: whatever is put in network order is *)
(* read back, for any byte size and any number of levels.                  *)
(***************************************************************************)
EXTENDS Wire, TLAPS

(* A number has one quotient and one remainder.                            *)
LEMMA OneQuotient ==
  ASSUME NEW b \in Nat, NEW p \in Nat, NEW q \in Nat,
         NEW r \in 0 .. b - 1, NEW s \in 0 .. b - 1, b * p + r = b * q + s
  PROVE  p = q /\ r = s
<1>1. p = q
  OBVIOUS
<1> QED
  BY <1>1

(* Division with remainder.                                                *)
LEMMA Division ==
  ASSUME NEW b \in Nat, b > 0, NEW x \in Nat
  PROVE  /\ x % b \in 0 .. b - 1 /\ x \div b \in Nat
         /\ x = b * (x \div b) + (x % b)
OBVIOUS

(* Two digits of a number, by the digits it is made of.                    *)
LEMMA Digits ==
  ASSUME NEW b \in Nat, b > 0, NEW q \in Nat, NEW r \in 0 .. b - 1
  PROVE  (b * q + r) \div b = q /\ (b * q + r) % b = r
<1> DEFINE x == b * q + r
<1>1. x \in Nat
  OBVIOUS
<1>2. /\ x % b \in 0 .. b - 1 /\ x \div b \in Nat
      /\ x = b * (x \div b) + (x % b)
  BY <1>1, Division
<1>3. x = b * q + r
  OBVIOUS
<1> HIDE DEF x
<1>4. x \div b = q /\ x % b = r
  BY <1>2, <1>3, OneQuotient
<1> QED
  BY <1>4 DEF x

(* A number below b * b has two digits.                                    *)
LEMMA TwoDigits ==
  ASSUME NEW b \in Nat, b > 0, NEW x \in 0 .. b * b - 1
  PROVE  x \div b \in 0 .. b - 1
<1>1. /\ x % b \in 0 .. b - 1 /\ x \div b \in Nat
      /\ x = b * (x \div b) + (x % b)
  BY Division
<1>2. ASSUME x \div b >= b PROVE FALSE
  <2>1. b * (x \div b) >= b * b
    BY <1>1, <1>2
  <2> QED
    BY <1>1, <2>1
<1> QED
  BY <1>1, <1>2

(* Two digits make a number below b * b.                                   *)
LEMMA Composed ==
  ASSUME NEW b \in Nat, b > 0, NEW q \in 0 .. b - 1, NEW r \in 0 .. b - 1
  PROVE  b * q + r \in 0 .. b * b - 1
<1>1. b * q + b <= b * b
  OBVIOUS
<1> QED
  BY <1>1

(* The span of two digits.                                                 *)
LEMMA SpanTypes == Byte \in Nat /\ Byte > 0 /\ Span \in Nat /\ Span > 0 /\ Span = Byte * Byte
BY ByteAssumption DEF Span

(* htonl and ntohl, the same function, undo each other.                    *)
LEMMA htonlTwice ==
  ASSUME NEW x \in Uint32
  PROVE  htonl(x) \in Uint32 /\ htonl(htonl(x)) = x
<1> DEFINE q == x \div Byte
           r == x % Byte
<1>1. x \in 0 .. Byte * Byte - 1 /\ x \in Nat
  BY SpanTypes DEF Uint32
<1>2. q \in 0 .. Byte - 1 /\ r \in 0 .. Byte - 1 /\ x = Byte * q + r
  BY <1>1, SpanTypes, TwoDigits, Division
<1>3. htonl(x) = Byte * r + q
  BY <1>1, <1>2, SpanTypes DEF htonl
<1> HIDE DEF q, r
<1>4. Byte * r + q \in 0 .. Byte * Byte - 1
  BY <1>2, SpanTypes, Composed
<1>5. (Byte * r + q) \div Byte = r /\ (Byte * r + q) % Byte = q
  BY <1>2, SpanTypes, Digits
<1>6. htonl(Byte * r + q) = q * Byte + r
  BY <1>5 DEF htonl
<1> QED
  BY <1>2, <1>3, <1>4, <1>6, SpanTypes DEF Uint32

(* htonll and ntohll, the same function, undo each other.                  *)
LEMMA htonllTwice ==
  ASSUME NEW x \in Uint64
  PROVE  htonll(x) \in Uint64 /\ htonll(htonll(x)) = x
<1> DEFINE high == x \div Span
           low  == x % Span
<1>1. x \in 0 .. Span * Span - 1 /\ x \in Nat
  BY SpanTypes DEF Uint64
<1>2. high \in Uint32 /\ low \in Uint32 /\ x = Span * high + low
  BY <1>1, SpanTypes, TwoDigits, Division DEF Uint32
<1>3. htonll(x) = htonl(low) * Span + htonl(high)
  BY DEF htonll
<1> HIDE DEF high, low
<1> DEFINE p == htonl(low)
           q == htonl(high)
           y == Span * p + q
<1>4. p \in 0 .. Span - 1 /\ q \in 0 .. Span - 1
  BY <1>2, htonlTwice DEF Uint32
<1>5. htonl(p) = low /\ htonl(q) = high
  BY <1>2, htonlTwice
<1>6. htonll(x) = p * Span + q
  BY <1>3
<1> HIDE DEF p, q
<1>7. y \in 0 .. Span * Span - 1
  BY <1>4, SpanTypes, Composed
<1>8. y \div Span = p /\ y % Span = q
  BY <1>4, SpanTypes, Digits
<1>9. htonll(x) = y
  BY <1>4, <1>6, SpanTypes
<1> HIDE DEF y
<1>10. htonll(y) = high * Span + low
  BY <1>5, <1>8 DEF htonll
<1> QED
  BY <1>2, <1>7, <1>9, <1>10, SpanTypes DEF Uint32, Uint64

-----------------------------------------------------------------------------

(* A struct whose fields have the widths of their types.                   *)
FieldsFit(struct) ==
  /\ struct = [field \in DOMAIN struct |-> struct[field]]
  /\ \A field \in DOMAIN struct :
       /\ field \in Words => struct[field] \in Uint32
       /\ field \in LongWords => struct[field] \in Uint64

(* toHostOrder gives back what toNetworkOrder was given: of every struct   *)
(* but the status, field by field.                                         *)
THEOREM HostOrderRestores ==
  ASSUME NEW struct, FieldsFit(struct)
  PROVE  ToHostOrder(ToNetworkOrder(struct)) = struct
<1>1. Words \cap LongWords = {}
  BY DEF Words, LongWords
<1> DEFINE wire == Swapped(struct)
<1>2. /\ DOMAIN wire = DOMAIN struct
      /\ \A field \in DOMAIN struct :
           wire[field] = IF field \in LongWords THEN htonll(struct[field])
                         ELSE IF field \in Words THEN htonl(struct[field])
                         ELSE struct[field]
  BY DEF Swapped
<1>3. /\ Swapped(wire) = [field \in DOMAIN struct |-> Swapped(wire)[field]]
      /\ \A field \in DOMAIN struct :
           Swapped(wire)[field] = IF field \in LongWords THEN htonll(wire[field])
                                  ELSE IF field \in Words THEN htonl(wire[field])
                                  ELSE wire[field]
  BY <1>2 DEF Swapped
<1> HIDE DEF wire
<1>4. ASSUME NEW field \in DOMAIN struct PROVE Swapped(wire)[field] = struct[field]
  <2>1. CASE field \in LongWords
    BY <2>1, <1>2, <1>3, htonllTwice DEF FieldsFit
  <2>2. CASE field \in Words
    BY <2>2, <1>1, <1>2, <1>3, htonlTwice DEF FieldsFit
  <2>3. CASE field \notin Words \cup LongWords
    BY <2>3, <1>2, <1>3
  <2> QED
    BY <2>1, <2>2, <2>3
<1>5. Swapped(wire) = struct
  BY <1>3, <1>4, Zenon DEF FieldsFit
<1> QED
  BY <1>5 DEF wire, ToHostOrder, ToNetworkOrder

(* The same of a status, whose levels are converted by two loops that run  *)
(* up to a count just converted: as long as no more levels are counted     *)
(* than there are, and there are at most MAX_LEVELS.                       *)
LevelsFit(infos) ==
  /\ infos = [i \in DOMAIN infos |-> infos[i]]
  /\ DOMAIN infos = 1 .. Len(infos) /\ Len(infos) \in 0 .. MaxLevels
  /\ \A i \in DOMAIN infos : FieldsFit(infos[i])

(* A count that is not zero is larger than MAX_LEVELS when it is swapped.  *)
LEMMA SwappedCount ==
  ASSUME NEW n \in 0 .. MaxLevels
  PROVE  n \in Uint32 /\ \A i \in 1 .. n : i <= htonl(n)
<1>1. n \in Nat /\ n < Byte
  BY MaxLevelsAssumption, ByteAssumption
<1>2. n \div Byte = 0 /\ n % Byte = n
  BY <1>1, SpanTypes, Digits
<1>3. htonl(n) = n * Byte
  BY <1>1, <1>2, SpanTypes DEF htonl
<1>4. n <= n * Byte
  BY <1>1, ByteAssumption
<1>5. Byte <= Byte * Byte
  BY ByteAssumption
<1> QED
  BY <1>1, <1>3, <1>4, <1>5, SpanTypes DEF Uint32

(* Levels that are swapped up to two counts that cover them all are        *)
(* restored.                                                               *)
LEMMA LevelsRestored ==
  ASSUME NEW infos, LevelsFit(infos), NEW n \in Int, NEW m \in Int,
         \A i \in DOMAIN infos : i <= n /\ i <= m
  PROVE  LevelsSwapped(LevelsSwapped(infos, n), m) = infos
<1> DEFINE wire == LevelsSwapped(infos, n)
<1>1. \A i \in DOMAIN infos : i <= MaxLevels
  BY MaxLevelsAssumption DEF LevelsFit
<1>2. DOMAIN wire = DOMAIN infos /\ \A i \in DOMAIN infos : wire[i] = Swapped(infos[i])
  BY <1>1 DEF LevelsSwapped
<1> HIDE DEF wire
<1>3. LevelsSwapped(wire, m) = [i \in DOMAIN infos |-> Swapped(wire[i])]
  BY <1>1, <1>2 DEF LevelsSwapped
<1>4. \A i \in DOMAIN infos : Swapped(wire[i]) = infos[i]
  BY <1>2, HostOrderRestores DEF LevelsFit, ToHostOrder, ToNetworkOrder
<1> QED
  BY <1>3, <1>4, Zenon DEF LevelsFit, wire

StatusOf(kind, of, n, m, bids, asks) ==
  [kind |-> kind, of |-> of, bidLevelsCount |-> n, askLevelsCount |-> m,
   bidLevels |-> bids, askLevels |-> asks]

(* What StatusSwapped does to the fields.                                  *)
LEMMA StatusFields ==
  ASSUME NEW kind, NEW of, NEW n, NEW m, NEW bids, NEW asks
  PROVE  StatusSwapped(StatusOf(kind, of, n, m, bids, asks)) =
           StatusOf(kind, of, htonl(n), htonl(m),
                    LevelsSwapped(bids, htonl(n)), LevelsSwapped(asks, htonl(m)))
<1> DEFINE status == StatusOf(kind, of, n, m, bids, asks)
<1>1. /\ status.kind = kind /\ status.of = of
      /\ status.bidLevelsCount = n /\ status.askLevelsCount = m
      /\ status.bidLevels = bids /\ status.askLevels = asks
  BY DEF StatusOf
<1> HIDE DEF status
<1>2. StatusSwapped(status) =
        StatusOf(kind, of, htonl(n), htonl(m),
                 LevelsSwapped(bids, htonl(n)), LevelsSwapped(asks, htonl(m)))
  BY <1>1, Zenon DEF StatusSwapped, StatusOf
<1> QED
  BY <1>2 DEF status

(* A status is shown as it was made.                                       *)
THEOREM StatusRestored ==
  ASSUME NEW kind, NEW of, NEW bids, NEW asks, LevelsFit(bids), LevelsFit(asks)
  PROVE  StatusToHostOrder(StatusToNetworkOrder(
           StatusOf(kind, of, Len(bids), Len(asks), bids, asks)))
             = StatusOf(kind, of, Len(bids), Len(asks), bids, asks)
<1> DEFINE n == htonl(Len(bids))
           m == htonl(Len(asks))
           wire == StatusOf(kind, of, n, m, LevelsSwapped(bids, n), LevelsSwapped(asks, m))
<1>1. StatusSwapped(StatusOf(kind, of, Len(bids), Len(asks), bids, asks)) = wire
  BY StatusFields
<1>2. StatusSwapped(wire) =
        StatusOf(kind, of, htonl(n), htonl(m),
                 LevelsSwapped(LevelsSwapped(bids, n), htonl(n)),
                 LevelsSwapped(LevelsSwapped(asks, m), htonl(m)))
  BY StatusFields
<1>3. /\ Len(bids) \in Uint32 /\ \A i \in 1 .. Len(bids) : i <= n
      /\ Len(asks) \in Uint32 /\ \A i \in 1 .. Len(asks) : i <= m
  BY SwappedCount DEF LevelsFit
<1>4. n \in Uint32 /\ htonl(n) = Len(bids) /\ m \in Uint32 /\ htonl(m) = Len(asks)
  BY <1>3, htonlTwice
<1> HIDE DEF n, m
<1>5. LevelsSwapped(LevelsSwapped(bids, n), htonl(n)) = bids
  BY <1>3, <1>4, LevelsRestored DEF LevelsFit, Uint32
<1>6. LevelsSwapped(LevelsSwapped(asks, m), htonl(m)) = asks
  BY <1>3, <1>4, LevelsRestored DEF LevelsFit, Uint32
<1>7. StatusSwapped(wire) = StatusOf(kind, of, Len(bids), Len(asks), bids, asks)
  BY <1>2, <1>4, <1>5, <1>6
<1> QED
  BY <1>1, <1>7 DEF StatusToHostOrder, StatusToNetworkOrder
=============================================================================

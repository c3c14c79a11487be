----------------------------- MODULE WireProofs -----------------------------
(***************************************************************************)
(* Proofs about modules IdsInUse and Wire, for every base of the digits,   *)
(* every number of rows and every set of packets.                          *)
(*                                                                         *)
(* First the identifiers: what their encoder and their decoder make of     *)
(* each other; and since the rows behave as IdsInUse says whatever comes   *)
(* and goes, what is proved of its identifiers holds of the broker that    *)
(* relays packets.                                                         *)
(*                                                                         *)
(* Then the packets.  Strings that lie one behind the other in a buffer    *)
(* (LaidOut, Lying) are read one by one (Reading); as long as they are     *)
(* plain each is read as it was sent (PlainPrefix), and the first that is  *)
(* not spoils the reading (Spoilt).  The body of every packet lies in its  *)
(* buffer that way, which decides what the broker stores, answers and      *)
(* relays; and what it writes for a subscriber is taken apart again.       *)
(***************************************************************************)
EXTENDS Wire, SequenceTheorems, WellFoundedInduction, TLAPS

(* A number is its quotient and its remainder. *)
LEMMA QuotientAndRemainder ==
  ASSUME NEW x \in Nat, NEW b \in Nat \ {0}
  PROVE  /\ x \div b \in Nat
         /\ x % b \in 0..(b - 1)
         /\ x = b * (x \div b) + (x % b)
  BY SMT

(* A quotient is smaller than the number, unless there is nothing left.    *)
LEMMA QuotientIsLess ==
  ASSUME NEW x \in Nat, NEW b \in Nat, b >= 2, x >= b
  PROVE  x \div b < x
  BY SMT

(* An identifier of one digit comes back as itself; any other comes back   *)
(* as its highest digit, which is less (ML_encode writes the last digit to *)
(* the byte string_len starts from).                                       *)
LEMMA ComesBackAs ==
  ASSUME NEW x \in Nat
  PROVE  /\ x < Base => AckedId(x) = x
         /\ x >= Base => AckedId(x) < x
<1> USE BaseAssumption
<1>1. CASE x < Base
  BY <1>1 DEF AckedId, StringLen, MLEncode, Byte
<1>2. CASE x >= Base /\ x < Base * Base
  <2>1. AckedId(x) = x \div Base
    BY <1>2 DEF AckedId, StringLen, MLEncode, Byte
  <2> QED BY <1>2, <2>1, QuotientIsLess
<1>3. CASE x >= Base /\ ~(x < Base * Base)
  <2>1. AckedId(x) = x \div (Base * Base)
    BY <1>3 DEF AckedId, StringLen, MLEncode, Byte
  <2>2. Base * Base \in Nat /\ Base * Base >= 2
    OBVIOUS
  <2>3. x \div (Base * Base) < x
    BY <1>3, <2>2, QuotientIsLess
  <2> QED BY <1>3, <2>1, <2>3
<1> QED BY <1>1, <1>2, <1>3

(* Up to two digits, the two bytes determine the identifier. *)
LEMMA TwoDigitsDiffer ==
  ASSUME NEW x \in Nat, NEW y \in Nat, x < y, y < Base * Base
  PROVE  MLEncode(x) # MLEncode(y)
<1> USE BaseAssumption
<1>1. CASE y < Base
  BY <1>1 DEF MLEncode, Byte
<1>2. CASE x < Base /\ ~(y < Base)
  <2>1. MLEncode(x).msb.high = FALSE
    BY <1>2 DEF MLEncode, Byte
  <2>2. MLEncode(y).msb.high = TRUE
    BY <1>2 DEF MLEncode, Byte
  <2> QED BY <2>1, <2>2
<1>3. CASE ~(x < Base)
  <2>1. x < Base * Base /\ ~(y < Base)
    BY <1>3
  <2>2. /\ MLEncode(x).msb.digit = x % Base
        /\ MLEncode(x).lsb.digit = x \div Base
    BY <1>3, <2>1 DEF MLEncode, Byte
  <2>3. /\ MLEncode(y).msb.digit = y % Base
        /\ MLEncode(y).lsb.digit = y \div Base
    BY <2>1 DEF MLEncode, Byte
  <2>4. /\ x = Base * (x \div Base) + (x % Base)
        /\ y = Base * (y \div Base) + (y % Base)
    BY QuotientAndRemainder
  <2>5. SUFFICES ASSUME MLEncode(x) = MLEncode(y) PROVE FALSE
    OBVIOUS
  <2>6. x % Base = y % Base /\ x \div Base = y \div Base
    BY <2>2, <2>3, <2>5
  <2>7. x = y
    BY <2>4, <2>6
  <2> QED BY <2>7
<1> QED BY <1>1, <1>2, <1>3

-----------------------------------------------------------------------------
(* The rows in use are among the rows. *)
IdType == id \in 1..MaxId

(* The counter of rows stays among the rows.                               *)
LEMMA TypeCorrect == Spec => []IdType
<1>1. Init => IdType
  BY MaxIdAssumption DEF Init, IdType
<1>2. IdType /\ [SessionPublishAdd]_id => IdType'
  BY MaxIdAssumption DEF IdType, SessionPublishAdd
<1> QED BY <1>1, <1>2, PTL DEF Spec

(* Whatever the base of the digits and the number of rows: an              *)
(* acknowledgement frees the row it is about exactly when the row's number *)
(* is a single digit (below 128 in the code).                              *)
THEOREM AcksFindTheirRow == Spec => []OwnRowBelowBase
<1>1. IdType => OwnRowBelowBase
  <2> SUFFICES ASSUME IdType PROVE OwnRowBelowBase
    OBVIOUS
  <2>1. id \in Nat
    BY MaxIdAssumption DEF IdType
  <2>2. /\ id < Base => AckedId(id) = id
        /\ id >= Base => AckedId(id) < id
    BY <2>1, ComesBackAs
  <2> QED BY <2>1, <2>2, BaseAssumption DEF OwnRowBelowBase
<1> QED BY <1>1, TypeCorrect, PTL

(* Whatever the base and the number of rows: while fewer than Base * Base  *)
(* rows are in use (16384 in the code), a subscriber can tell the messages *)
(* it has in hand apart by their identifiers.                              *)
THEOREM IdentifiersDiffer == Spec => []DistinctOnWire
<1>1. IdType => DistinctOnWire
  <2> SUFFICES ASSUME IdType, id < Base * Base, NEW x \in 1..(id - 1)
               PROVE  MLEncode(x) # MLEncode(id)
    BY DEF DistinctOnWire
  <2>1. id \in Nat /\ x \in Nat /\ x < id
    BY MaxIdAssumption DEF IdType
  <2> QED BY <2>1, TwoDigitsDiffer
<1> QED BY <1>1, TypeCorrect, PTL

-----------------------------------------------------------------------------
(* A step of the broker takes the next row or leaves the rows alone.       *)
LEMMA StepTakesARowOrNone ==
  ASSUME [Next]_vars
  PROVE  [SessionPublishAdd]_id
<1>1. CASE Connect
  BY <1>1 DEF Connect
<1>2. CASE Publish
  BY <1>2 DEF Publish
<1>3. CASE Subscribe
  BY <1>3 DEF Subscribe
<1>4. CASE Unsubscribe
  BY <1>4 DEF Unsubscribe
<1>5. CASE Control
  BY <1>5 DEF Control
<1>6. CASE Done
  BY <1>6 DEF Done
<1>7. CASE Others
  BY <1>7 DEF Others
<1>8. CASE UNCHANGED vars
  BY <1>8 DEF vars
<1> QED
  BY <1>1, <1>2, <1>3, <1>4, <1>5, <1>6, <1>7, <1>8 DEF Next

(* The broker on the wire implements the rows of IdsInUse.                 *)
THEOREM WireImplementsRows == WireSpec => Spec
<1>1. WireInit => Init
  BY DEF WireInit
<1>2. [Next]_vars => [SessionPublishAdd]_id
  BY StepTakesARowOrNone
<1> QED
  BY <1>1, <1>2, PTL DEF WireSpec, Spec

(* On the wire, too, an acknowledgement frees the row it is about exactly  *)
(* below 128 (mqtt_encode.c:9 and mqtt_decode.c:10).                       *)
THEOREM WireOwnRow == WireSpec => []OwnRowBelowBase
  BY WireImplementsRows, AcksFindTheirRow, PTL

(* And two identifiers in use look different as long as fewer than 128^2   *)
(* rows are taken.                                                         *)
THEOREM WireDistinct == WireSpec => []DistinctOnWire
  BY WireImplementsRows, IdentifiersDiffer, PTL

-----------------------------------------------------------------------------
(* Least numbers, and induction up to a bound.                             *)
LEMMA LeastNumber ==
  ASSUME NEW S, S \subseteq Nat, S # {}
  PROVE  \E n \in S : \A m \in S : n <= m
<1> DEFINE R == OpToRel(<, Nat)
<1>1. PICK n \in S : \A m \in S : <<m, n>> \notin R
  <2>1. IsWellFoundedOn(R, Nat)
    BY NatLessThanWellFounded
  <2> QED BY <2>1, WFMin
<1>2. \A m \in S : ~(m < n)
  BY <1>1 DEF OpToRel
<1> HIDE DEF R
<1> QED BY <1>2

(* What holds of 0 and is handed on from each number to the next holds of  *)
(* every number up to a bound.                                             *)
LEMMA UpTo ==
  ASSUME NEW b \in Nat, NEW S, 0 \in S,
         \A n \in 0..b : n > 0 /\ n - 1 \in S => n \in S
  PROVE  \A n \in 0..b : n \in S
<1> DEFINE Out == {n \in 0..b : n \notin S}
<1>1. SUFFICES ASSUME Out # {} PROVE FALSE
  OBVIOUS
<1>2. PICK n \in Out : \A m \in Out : n <= m
  <2>1. Out \subseteq Nat
    OBVIOUS
  <2> HIDE DEF Out
  <2> QED BY <1>1, <2>1, LeastNumber
<1>3. n \in 0..b /\ n > 0 /\ n - 1 \notin Out
  BY <1>2
<1>4. n - 1 \in S
  BY <1>3
<1> QED BY <1>2, <1>3, <1>4

-----------------------------------------------------------------------------
(* Strings as the peers write them.                                        *)

(* A string as the peers write it: two length bytes, then its bytes.       *)
LEMMA StrIs ==
  ASSUME NEW n \in Nat
  PROVE  /\ Str(n) \in Seq(Nat) /\ Len(Str(n)) = 2 + n
         /\ Str(n)[1] = n \div (2 * Base) /\ Str(n)[2] = n % (2 * Base)
         /\ \A m \in 1..n : Str(n)[2 + m] = 1
         /\ Fill(n) \in Seq(Nat) /\ Len(Fill(n)) = n
<1> DEFINE h == <<n \div (2 * Base), n % (2 * Base)>>
<1>0. 2 * Base \in Nat \ {0}
  BY BaseAssumption
<1>1. n \div (2 * Base) \in Nat /\ n % (2 * Base) \in Nat
  <2> DEFINE d == 2 * Base
  <2>1. d \in Nat \ {0}
    BY <1>0
  <2> HIDE DEF d
  <2>2. n \div d \in Nat /\ n % d \in Nat
    BY <2>1
  <2> QED BY <2>2 DEF d
<1> HIDE DEF h
<1>2. h \in Seq(Nat) /\ Len(h) = 2 /\ h[1] = n \div (2 * Base) /\ h[2] = n % (2 * Base)
  BY <1>1 DEF h
<1>3. Fill(n) \in Seq(Nat) /\ Len(Fill(n)) = n /\ \A m \in 1..n : Fill(n)[m] = 1
  BY DEF Fill
<1>4. Str(n) = h \o Fill(n)
  BY DEF Str, h
<1>5. /\ Str(n) \in Seq(Nat) /\ Len(Str(n)) = 2 + n
      /\ \A i \in 1..(2 + n) : Str(n)[i] = IF i <= 2 THEN h[i] ELSE Fill(n)[i - 2]
  <2> DEFINE f == Fill(n)
  <2>1. f \in Seq(Nat) /\ h \in Seq(Nat) /\ Len(f) = n /\ Len(h) = 2
    BY <1>2, <1>3
  <2> HIDE DEF f
  <2>2. /\ h \o f \in Seq(Nat) /\ Len(h \o f) = Len(h) + Len(f)
        /\ \A i \in 1..(Len(h) + Len(f)) :
             (h \o f)[i] = IF i <= Len(h) THEN h[i] ELSE f[i - Len(h)]
    BY <2>1, ConcatProperties
  <2>3. Str(n) = h \o f
    BY <1>4 DEF f
  <2>4. \A i \in 1..(2 + n) : Str(n)[i] = IF i <= 2 THEN h[i] ELSE f[i - 2]
    BY <2>1, <2>2, <2>3
  <2>5. Str(n) \in Seq(Nat) /\ Len(Str(n)) = 2 + n
    BY <2>1, <2>2, <2>3
  <2> QED BY <2>4, <2>5 DEF f
<1>6. 1 \in 1..(2 + n) /\ 2 \in 1..(2 + n) /\ \A m \in 1..n : 2 + m \in 1..(2 + n) /\ (2 + m) - 2 = m
  OBVIOUS
<1>7. ASSUME NEW m \in 1..n PROVE Str(n)[2 + m] = 1
  <2>1. Str(n)[2 + m] = Fill(n)[m]
    BY <1>5, <1>6
  <2> QED BY <2>1, <1>3
<1>8. Str(n)[1] = h[1] /\ Str(n)[2] = h[2]
  BY <1>5, <1>6
<1>9. \A m \in 1..n : Str(n)[2 + m] = 1
  BY <1>7
<1>10. Str(n)[1] = n \div (2 * Base) /\ Str(n)[2] = n % (2 * Base)
  BY <1>2, <1>8
<1>11. Str(n) \in Seq(Nat) /\ Len(Str(n)) = 2 + n
  BY <1>5
<1>12. Fill(n) \in Seq(Nat) /\ Len(Fill(n)) = n
  BY <1>3
<1> QED BY <1>9, <1>10, <1>11, <1>12, Zenon

(* What string_len makes of such a length: less, unless it has seven bits. *)
LEMMA LenRead ==
  ASSUME NEW n \in Nat, NEW b, NEW at,
         b[at] = n \div (2 * Base), b[at + 1] = n % (2 * Base)
  PROVE  /\ LenAt(b, at) \in Nat
         /\ n < Base => LenAt(b, at) = n
         /\ n >= Base => LenAt(b, at) < n
         /\ LenAt(b, at) < Base * Base
<1> DEFINE m == n \div (2 * Base)
           l == n % (2 * Base)
<1>1. 2 * Base \in Nat \ {0}
  BY BaseAssumption
<1>2. m \in Nat /\ l \in 0..(2 * Base - 1) /\ n = 2 * Base * m + l
  <2> DEFINE d == 2 * Base
  <2>1. d \in Nat \ {0}
    BY <1>1
  <2> HIDE DEF d
  <2>2. n \div d \in Nat /\ n % d \in 0..(d - 1) /\ n = d * (n \div d) + (n % d)
    BY <2>1
  <2> QED BY <2>2 DEF d
<1> HIDE DEF m, l
<1>3. m % Base \in 0..(Base - 1) /\ m % Base <= m
  BY <1>2, BaseAssumption
<1>4. l < Base => l % Base = l
  BY <1>2, BaseAssumption
<1>5. l >= Base => l % Base = l - Base
  BY <1>2, BaseAssumption
<1>6. LenAt(b, at) = IF l >= Base THEN (l % Base) + Base * (m % Base) ELSE l % Base
  BY DEF LenAt, StringLen, AsByte, Byte, m, l
<1>7. Base * (m % Base) \in Nat /\ Base * (m % Base) <= Base * m /\ Base * m \in Nat
      /\ Base * (m % Base) <= Base * (Base - 1)
  <2> DEFINE x == m % Base
  <2>1. x \in Nat /\ x <= m /\ x <= Base - 1 /\ m \in Nat /\ Base \in Nat
    BY <1>2, <1>3, BaseAssumption
  <2> HIDE DEF x
  <2>2. Base * x \in Nat /\ Base * x <= Base * m /\ Base * m \in Nat /\ Base * x <= Base * (Base - 1)
    BY <2>1
  <2> QED BY <2>2 DEF x
<1>8. n = Base * m + Base * m + l /\ Base * (Base - 1) = Base * Base - Base /\ Base * Base \in Nat
      /\ Base <= Base * Base
  BY <1>2, BaseAssumption
<1>9. CASE l >= Base
  <2> DEFINE x == Base * (m % Base)
             y == Base * m
             z == Base * Base
  <2>5. LenAt(b, at) = (l - Base) + x
    BY <1>9, <1>5, <1>6
  <2>1. /\ LenAt(b, at) = (l - Base) + x /\ x \in Nat /\ y \in Nat /\ x <= y /\ n = y + y + l
        /\ x <= z - Base /\ l < 2 * Base
    <3>1. x \in Nat /\ x <= y /\ y \in Nat
      BY <1>7
    <3>2. n = y + y + l
      BY <1>8
    <3>3. x <= z - Base
      BY <1>7, <1>8
    <3>4. l < 2 * Base
      BY <1>2, BaseAssumption
    <3> QED BY <2>5, <3>1, <3>2, <3>3, <3>4
  <2> HIDE DEF x, y, z
  <2>2. /\ LenAt(b, at) \in Nat /\ LenAt(b, at) < n /\ n >= Base
    BY <1>9, <2>1, <1>2, BaseAssumption
  <2>3. z \in Nat
    BY BaseAssumption DEF z
  <2>4. LenAt(b, at) < z
    BY <2>1, <2>3, <1>2, <1>9, BaseAssumption
  <2> QED BY <2>2, <2>4, BaseAssumption DEF z
<1>10. CASE l < Base
  <2> DEFINE y == Base * m
  <2>4. LenAt(b, at) = l
    BY <1>10, <1>2, <1>4, <1>6, BaseAssumption
  <2>1. LenAt(b, at) = l /\ y \in Nat /\ n = y + y + l
    BY <2>4, <1>7, <1>8
  <2>2. m >= 1 => y >= Base
    BY <1>2, BaseAssumption
  <2>3. m = 0 => y = 0
    BY BaseAssumption
  <2> HIDE DEF y
  <2> QED BY <2>1, <2>2, <2>3, <1>10, <1>2, <1>8, BaseAssumption
<1> QED BY <1>2, <1>9, <1>10, BaseAssumption
-----------------------------------------------------------------------------
(* Strings one after the other.                                            *)

(* f has everything before the i-th in one, up to the n-th.                *)
Flattens(p, n, f) ==
  \A i \in 1..n : f[i] = IF i = 1 THEN p[i] ELSE f[i - 1] \o p[i]

(* The recursive function with which FlattenSeq is defined exists.         *)
LEMMA FlattenExists ==
  ASSUME NEW p \in Seq(Seq(Nat))
  PROVE  \E f \in [1..Len(p) -> Seq(Nat)] :
           f = [i \in 1..Len(p) |-> IF i = 1 THEN p[i] ELSE f[i - 1] \o p[i]]
<1> DEFINE S == {n \in Nat : \E f \in [1..n -> Seq(Nat)] : Flattens(p, n, f)}
<1>1. 0 \in S
  <2>1. [i \in 1..0 |-> <<>>] \in [1..0 -> Seq(Nat)] /\ Flattens(p, 0, [i \in 1..0 |-> <<>>])
    BY DEF Flattens
  <2> QED BY <2>1
<1>2. ASSUME NEW n \in 0..Len(p), n > 0, n - 1 \in S PROVE n \in S
  <2>1. PICK f \in [1..(n - 1) -> Seq(Nat)] : Flattens(p, n - 1, f)
    BY <1>2
  <2>2. n \in 1..Len(p) /\ p[n] \in Seq(Nat)
    BY <1>2
  <2> DEFINE last == IF n = 1 THEN p[n] ELSE f[n - 1] \o p[n]
             g == [i \in 1..n |-> IF i = n THEN last ELSE f[i]]
  <2>3. last \in Seq(Nat)
    <3>1. CASE n = 1
      BY <3>1, <2>2
    <3>2. CASE n # 1
      <4>1. n - 1 \in 1..(n - 1)
        BY <3>2, <2>2
      <4>2. f[n - 1] \in Seq(Nat)
        BY <2>1, <4>1
      <4> QED BY <3>2, <2>2, <4>2, ConcatProperties
    <3> QED BY <3>1, <3>2
  <2> HIDE DEF last
  <2>4. g \in [1..n -> Seq(Nat)]
    <3>1. ASSUME NEW i \in 1..n PROVE (IF i = n THEN last ELSE f[i]) \in Seq(Nat)
      <4>1. CASE i = n
        BY <4>1, <2>3
      <4>2. CASE i # n
        <5>1. i \in 1..(n - 1)
          BY <4>2, <2>2
        <5> QED BY <5>1, <4>2, <2>1
      <4> QED BY <4>1, <4>2
    <3> QED BY <3>1
  <2>5. ASSUME NEW i \in 1..n PROVE g[i] = IF i = 1 THEN p[i] ELSE g[i - 1] \o p[i]
    <3>1. CASE i = n /\ n = 1
      BY <3>1, <2>2 DEF last
    <3>2. CASE i = n /\ n # 1
      <4>1. n - 1 \in 1..n /\ n - 1 # n /\ i # 1
        BY <3>2, <2>2
      <4>2. g[n - 1] = f[n - 1] /\ g[i] = last
        BY <4>1, <3>2
      <4>3. last = f[n - 1] \o p[n]
        BY <3>2 DEF last
      <4> HIDE DEF g
      <4> QED BY <3>2, <4>1, <4>2, <4>3
    <3>3. CASE i # n
      <4>1. i \in 1..(n - 1) /\ i \in 1..n /\ (i # 1 => i - 1 \in 1..n /\ i - 1 # n)
        BY <3>3, <2>2
      <4>2. g[i] = f[i] /\ (i # 1 => g[i - 1] = f[i - 1])
        BY <4>1, <3>3
      <4>3. f[i] = IF i = 1 THEN p[i] ELSE f[i - 1] \o p[i]
        BY <2>1, <4>1 DEF Flattens
      <4> HIDE DEF g
      <4> QED BY <4>2, <4>3
    <3> QED BY <3>1, <3>2, <3>3
  <2> HIDE DEF g
  <2>6. n \in Nat /\ Flattens(p, n, g)
    BY <2>2, <2>5 DEF Flattens
  <2> QED BY <2>4, <2>6
<1> HIDE DEF S
<1>3. Len(p) \in S
  <2>1. Len(p) \in Nat
    OBVIOUS
  <2>2. \A n \in 0..Len(p) : n \in S
    BY <1>1, <1>2, <2>1, UpTo
  <2> QED BY <2>1, <2>2
<1>4. PICK f \in [1..Len(p) -> Seq(Nat)] : Flattens(p, Len(p), f)
  BY <1>3 DEF S
<1>5. f = [i \in 1..Len(p) |-> IF i = 1 THEN p[i] ELSE f[i - 1] \o p[i]]
  BY <1>4 DEF Flattens
<1> QED BY <1>5

(* Where each of them starts: at[i] bytes are before it.                   *)
Places(p, at, b) ==
  /\ at \in [1..(Len(p) + 1) -> Nat]
  /\ at[1] = 0 /\ at[Len(p) + 1] = Len(b)
  /\ \A i \in 1..Len(p) :
       /\ at[i + 1] = at[i] + Len(p[i])
       /\ \A m \in 1..Len(p[i]) : b[at[i] + m] = p[i][m]

(* FlattenSeq lays the sequences out one behind the other.                 *)
LEMMA Flattened ==
  ASSUME NEW p \in Seq(Seq(Nat)), p # <<>>
  PROVE  /\ FlattenSeq(p) \in Seq(Nat)
         /\ \E at : Places(p, at, FlattenSeq(p))
<1> DEFINE Is(f) == f = [i \in 1..Len(p) |-> IF i = 1 THEN p[i] ELSE f[i - 1] \o p[i]]
           flat == CHOOSE f : Is(f)
           N == Len(p)
<1>1. N \in Nat \ {0}
  BY EmptySeq
<1>2. PICK f \in [1..N -> Seq(Nat)] : Is(f)
  BY FlattenExists
<1>3. Is(flat)
  BY <1>2
<1>4. FlattenSeq(p) = flat[N]
  BY <1>1 DEF FlattenSeq
<1> HIDE DEF flat
<1>5. \A i \in 1..N : flat[i] = IF i = 1 THEN p[i] ELSE flat[i - 1] \o p[i]
  BY <1>3
<1> HIDE DEF Is
<1> DEFINE at == [i \in 1..(N + 1) |-> IF i = 1 THEN 0 ELSE Len(flat[i - 1])]
           Laid(n) == /\ flat[n] \in Seq(Nat)
                      /\ at[n + 1] = at[n] + Len(p[n])
                      /\ \A i \in 1..n : \A m \in 1..Len(p[i]) :
                           /\ at[i] + m \in 1..Len(flat[n])
                           /\ flat[n][at[i] + m] = p[i][m]
           S == {n \in 0..N : n > 0 => Laid(n)}
<1>6. ASSUME NEW n \in 1..N
      PROVE  at[n + 1] = Len(flat[n]) /\ at[1] = 0 /\ p[n] \in Seq(Nat) /\ n + 1 \in 1..(N + 1)
             /\ Len(p[n]) \in Nat
  <2>1. n + 1 \in 1..(N + 1) /\ n + 1 # 1 /\ (n + 1) - 1 = n /\ 1 \in 1..(N + 1)
    BY <1>1
  <2> QED BY <2>1, <1>1
<1> HIDE DEF at
<1>7. \A n \in 0..N : n \in S
  <2>1. 0 \in S
    BY <1>1
  <2>2. ASSUME NEW n \in 0..N, n > 0, n - 1 \in S PROVE Laid(n)
    <3>1. n \in 1..N
      BY <2>2, <1>1
    <3>2. CASE n = 1
      <4>1. flat[1] = p[1] /\ p[1] \in Seq(Nat)
        BY <3>1, <3>2, <1>5, <1>6
      <4>2. at[1] = 0 /\ at[1 + 1] = Len(p[1]) /\ Len(p[1]) \in Nat
        BY <4>1, <1>6, <3>1, <3>2
      <4>3. ASSUME NEW i \in 1..1, NEW m \in 1..Len(p[i])
            PROVE  at[i] + m \in 1..Len(flat[1]) /\ flat[1][at[i] + m] = p[i][m]
        <5>1. i = 1
          OBVIOUS
        <5>2. at[i] + m = m
          BY <5>1, <4>2
        <5> QED BY <5>1, <5>2, <4>1, <4>2
      <4>4. at[1 + 1] = at[1] + Len(p[1])
        BY <4>2
      <4> QED BY <3>2, <4>1, <4>3, <4>4
    <3>3. CASE n # 1
      <4>1. n - 1 \in 1..N /\ (n - 1) + 1 = n /\ n - 1 > 0
        BY <3>1, <3>3
      <4>2. Laid(n - 1)
        BY <2>2, <4>1
      <4> DEFINE q == p[n]
                 g == flat[n - 1]
      <4>3. g \in Seq(Nat) /\ q \in Seq(Nat) /\ flat[n] = g \o q /\ at[n] = Len(g)
        <5>1. at[n] = Len(g)
          BY <4>1, <1>6
        <5> QED BY <5>1, <4>2, <3>1, <3>3, <1>5, <1>6
      <4>4. /\ g \o q \in Seq(Nat) /\ Len(g \o q) = Len(g) + Len(q)
            /\ \A i \in 1..(Len(g) + Len(q)) :
                 (g \o q)[i] = IF i <= Len(g) THEN g[i] ELSE q[i - Len(g)]
        <5>1. g \in Seq(Nat) /\ q \in Seq(Nat)
          BY <4>3
        <5> HIDE DEF g, q
        <5> QED BY <5>1, ConcatProperties
      <4>5. \A i \in 1..(n - 1) : \A m \in 1..Len(p[i]) :
              at[i] + m \in 1..Len(g) /\ g[at[i] + m] = p[i][m]
        BY <4>2
      <4>6. Len(g) \in Nat /\ Len(q) \in Nat
        BY <4>3
      <4>7. at[n + 1] = at[n] + Len(q)
        BY <1>6, <3>1, <4>3, <4>4
      <4>8. ASSUME NEW i \in 1..n, NEW m \in 1..Len(p[i])
            PROVE  at[i] + m \in 1..Len(flat[n]) /\ flat[n][at[i] + m] = p[i][m]
        <5> HIDE DEF g, q
        <5>1. CASE i = n
          <6>1. m \in 1..Len(q) /\ at[i] + m = Len(g) + m
            BY <5>1, <4>3 DEF q
          <6>2. Len(g) + m \in 1..(Len(g) + Len(q)) /\ ~(Len(g) + m <= Len(g)) /\ (Len(g) + m) - Len(g) = m
            BY <6>1, <4>6
          <6>3. (g \o q)[Len(g) + m] = q[m]
            BY <6>2, <4>4
          <6>4. q[m] = p[i][m]
            BY <5>1 DEF q
          <6>5. Len(g) + m \in 1..Len(g \o q)
            BY <6>2, <4>4
          <6> QED BY <6>1, <6>3, <6>4, <6>5, <4>3
        <5>2. CASE i # n
          <6>1. i \in 1..(n - 1)
            BY <5>2, <3>1
          <6>2. at[i] + m \in 1..Len(g) /\ g[at[i] + m] = p[i][m]
            BY <6>1, <4>5
          <6>3. at[i] + m \in 1..(Len(g) + Len(q)) /\ at[i] + m <= Len(g)
            BY <6>2, <4>6
          <6>4. (g \o q)[at[i] + m] = g[at[i] + m]
            BY <6>3, <4>4
          <6> QED BY <6>2, <6>3, <6>4, <4>3, <4>4
        <5> QED BY <5>1, <5>2
      <4> QED BY <4>3, <4>4, <4>7, <4>8
    <3> QED BY <3>2, <3>3
  <2>3. ASSUME NEW n \in 0..N, n > 0, n - 1 \in S PROVE n \in S
    BY <2>2, <2>3
  <2> HIDE DEF S
  <2> QED BY <2>1, <2>3, <1>1, UpTo
<1>8. \A n \in 1..N : Laid(n)
  BY <1>7, <1>1
<1>9. N \in 1..N /\ Laid(N)
  BY <1>1, <1>8
<1>10. at \in [1..(N + 1) -> Nat]
  <2>1. ASSUME NEW i \in 1..(N + 1), i # 1 PROVE Len(flat[i - 1]) \in Nat
    <3>1. i - 1 \in 1..N
      BY <2>1, <1>1
    <3>2. flat[i - 1] \in Seq(Nat)
      BY <3>1, <1>8
    <3> QED BY <3>2
  <2> QED BY <2>1 DEF at
<1>11. at[1] = 0 /\ at[N + 1] = Len(flat[N])
  BY <1>6, <1>9
<1>12. \A i \in 1..N : at[i + 1] = at[i] + Len(p[i])
  BY <1>8
<1>13. \A i \in 1..N : \A m \in 1..Len(p[i]) : flat[N][at[i] + m] = p[i][m]
  BY <1>9
<1>14. Places(p, at, flat[N])
  BY <1>10, <1>11, <1>12, <1>13 DEF Places
<1> QED BY <1>4, <1>9, <1>14

(* Strings of lengths lens lie in b from at[1] on, each followed by a      *)
(* byte of q if gap is 1, and something lies behind them.                  *)
StringAt(b, start, n) ==
  /\ b[start] = n \div (2 * Base) /\ b[start + 1] = n % (2 * Base)
  /\ \A m \in 1..n : b[start + 1 + m] = 1

LaidOut(b, at, lens, gap, q) ==
  /\ at \in [1..(Len(lens) + 1) -> Nat]
  /\ at[1] >= 1 /\ at[Len(lens) + 1] < Len(b)
  /\ \A i \in 1..Len(lens) :
       /\ at[i + 1] = at[i] + 2 + lens[i] + gap
       /\ StringAt(b, at[i], lens[i])
       /\ gap = 1 => b[at[i] + 2 + lens[i]] = q[i]

Parts(p, lens, gap, q) ==
  /\ p \in Seq(Seq(Nat)) /\ p # <<>>
  /\ lens \in Seq(Nat) /\ Len(lens) = Len(p)
  /\ gap \in 0..1
  /\ \A i \in 1..Len(p) :
       /\ Len(p[i]) = 2 + lens[i] + gap
       /\ StringAt(p[i], 1, lens[i])
       /\ gap = 1 => p[i][3 + lens[i]] = q[i]

(* From b[o + 1] on there is f, and something behind it.                   *)
Holds(b, o, f) ==
  /\ b \in Seq(Nat) /\ o \in Nat /\ f \in Seq(Nat)
  /\ o + Len(f) + 2 <= Len(b)
  /\ \A m \in 1..Len(f) : b[o + m] = f[m]

(* Places that never go back stay before the last one.                     *)
LEMMA PlacesAgain ==
  ASSUME NEW n \in Nat, NEW a \in [1..(n + 1) -> Nat],
         \A i \in 1..n : a[i] <= a[i + 1]
  PROVE  \A i \in 1..(n + 1) : a[i] <= a[n + 1]
<1> DEFINE S == {k \in 0..n : a[n + 1 - k] <= a[n + 1]}
<1>1. 0 \in S
  <2>1. n + 1 \in 1..(n + 1) /\ n + 1 - 0 = n + 1 /\ a[n + 1] \in Nat
    OBVIOUS
  <2> QED BY <2>1
<1>2. ASSUME NEW k \in 0..n, k > 0, k - 1 \in S PROVE k \in S
  <2> DEFINE i == n + 1 - k
  <2>1. i \in 1..n /\ i + 1 = n + 1 - (k - 1) /\ i + 1 \in 1..(n + 1) /\ i \in 1..(n + 1)
        /\ n + 1 \in 1..(n + 1)
    BY <1>2
  <2>2. a[i] \in Nat /\ a[i + 1] \in Nat /\ a[n + 1] \in Nat
    BY <2>1
  <2>3. a[i] <= a[i + 1]
    BY <2>1
  <2>4. a[i + 1] <= a[n + 1]
    BY <1>2, <2>1
  <2>5. a[i] <= a[n + 1]
    BY <2>2, <2>3, <2>4
  <2> QED BY <2>5
<1> HIDE DEF S
<1>3. \A k \in 0..n : k \in S
  BY <1>1, <1>2, UpTo
<1>4. ASSUME NEW i \in 1..(n + 1) PROVE a[i] <= a[n + 1]
  <2>1. n + 1 - i \in 0..n /\ n + 1 - (n + 1 - i) = i
    OBVIOUS
  <2>2. a[n + 1 - (n + 1 - i)] <= a[n + 1]
    BY <1>3, <2>1 DEF S
  <2> QED BY <2>1, <2>2
<1> QED BY <1>4

(* Strings (and what follows each) that are flattened into a buffer lie in *)
(* it one behind the other.                                                *)
LEMMA PartsLaidOut ==
  ASSUME NEW p, NEW lens, NEW gap, NEW q, NEW b, NEW o,
         Parts(p, lens, gap, q), Holds(b, o, FlattenSeq(p))
  PROVE  \E at : /\ LaidOut(b, at, lens, gap, q)
                 /\ at[1] = o + 1
                 /\ at[Len(lens) + 1] = o + Len(FlattenSeq(p)) + 1
<1> DEFINE n == Len(lens)
           F == FlattenSeq(p)
<1>1. /\ p \in Seq(Seq(Nat)) /\ p # <<>> /\ Len(p) = n
      /\ lens \in Seq(Nat) /\ gap \in 0..1
  BY DEF Parts
<1>2. PICK a : Places(p, a, F)
  BY <1>1, Flattened
<1>3. n \in Nat \ {0}
  BY <1>1, EmptySeq
<1>4. /\ b \in Seq(Nat) /\ o \in Nat /\ Len(F) \in Nat /\ Len(b) \in Nat
      /\ o + Len(F) + 2 <= Len(b)
      /\ \A m \in 1..Len(F) : b[o + m] = F[m]
  BY DEF Holds
<1>a. gap \in Nat
  BY <1>1
<1>b. o \in Nat /\ Len(F) \in Nat /\ Len(b) \in Nat /\ o + Len(F) + 2 <= Len(b)
  BY <1>4
<1> HIDE DEF F, n
<1>5. /\ a \in [1..(n + 1) -> Nat] /\ a[1] = 0 /\ a[n + 1] = Len(F)
      /\ \A i \in 1..n : a[i + 1] = a[i] + Len(p[i])
      /\ \A i \in 1..n : \A m \in 1..Len(p[i]) : F[a[i] + m] = p[i][m]
  BY <1>1, <1>2 DEF Places
<1>6. \A i \in 1..n : /\ Len(p[i]) = 2 + lens[i] + gap
                      /\ StringAt(p[i], 1, lens[i])
                      /\ gap = 1 => p[i][3 + lens[i]] = q[i]
  BY <1>1 DEF Parts
<1>7. ASSUME NEW i \in 1..n
      PROVE  i \in 1..(n + 1) /\ i + 1 \in 1..(n + 1) /\ a[i] \in Nat /\ lens[i] \in Nat
  <2>1. i \in 1..(n + 1) /\ i + 1 \in 1..(n + 1)
    BY <1>3
  <2>2. lens[i] \in Nat
    BY <1>1 DEF n
  <2>3. a[i] \in Nat
    BY <2>1, <1>5
  <2> QED BY <2>1, <2>2, <2>3
<1>8. ASSUME NEW i \in 1..n PROVE a[i] <= a[i + 1] /\ a[i + 1] <= Len(F) /\ a[i + 1] \in Nat
  <2>1. \A j \in 1..n : a[j] <= a[j + 1]
    <3>1. ASSUME NEW j \in 1..n PROVE a[j] <= a[j + 1]
      <4>1. a[j + 1] = a[j] + Len(p[j]) /\ Len(p[j]) = 2 + lens[j] + gap
        BY <1>5, <1>6
      <4>2. a[j] \in Nat /\ lens[j] \in Nat
        BY <1>7
      <4> QED BY <4>1, <4>2, <1>a
    <3> QED BY <3>1
  <2>2. \A j \in 1..(n + 1) : a[j] <= a[n + 1]
    BY <2>1, <1>3, <1>5, PlacesAgain
  <2>3. a[i + 1] \in Nat
    BY <1>5, <1>7
  <2> QED BY <2>1, <2>2, <2>3, <1>5, <1>7
<1> DEFINE at == [i \in 1..(n + 1) |-> o + 1 + a[i]]
<1>9. at \in [1..(n + 1) -> Nat] /\ at[1] = o + 1 /\ at[n + 1] = o + Len(F) + 1
  <2>1. a \in [1..(n + 1) -> Nat] /\ a[1] = 0 /\ a[n + 1] = Len(F)
    BY <1>5
  <2>2. ASSUME NEW i \in 1..(n + 1) PROVE o + 1 + a[i] \in Nat
    <3>1. a[i] \in Nat
      BY <2>1
    <3> QED BY <3>1, <1>b
  <2>3. at \in [1..(n + 1) -> Nat]
    BY <2>2
  <2>4. 1 \in 1..(n + 1) /\ n + 1 \in 1..(n + 1)
    BY <1>3
  <2>5. at[1] = o + 1 + a[1] /\ at[n + 1] = o + 1 + a[n + 1]
    BY <2>4
  <2> HIDE DEF at
  <2>6. at[1] = o + 1 /\ at[n + 1] = o + Len(F) + 1
    BY <2>5, <2>1, <1>b
  <2> QED BY <2>3, <2>6
<1>10. ASSUME NEW i \in 1..n
       PROVE  /\ at[i + 1] = at[i] + 2 + lens[i] + gap
              /\ StringAt(b, at[i], lens[i])
              /\ gap = 1 => b[at[i] + 2 + lens[i]] = q[i]
  <2>1. at[i] = o + 1 + a[i] /\ at[i + 1] = o + 1 + a[i + 1]
    BY <1>7
  <2> HIDE DEF at
  <2> DEFINE l == lens[i]
             s == at[i]
  <2>2. s \in Nat /\ l \in Nat /\ gap \in Nat /\ s = o + 1 + a[i] /\ a[i] \in Nat
    BY <2>1, <1>a, <1>b, <1>7
  <2>3. Len(p[i]) = 2 + l + gap
    BY <1>6
  <2>4. a[i + 1] = a[i] + 2 + l + gap
    BY <2>2, <2>3, <1>5
  <2>5. at[i + 1] = at[i] + 2 + lens[i] + gap
    <3>1. at[i + 1] = o + 1 + (a[i] + 2 + l + gap) /\ at[i] = o + 1 + a[i]
      BY <2>1, <2>4
    <3> HIDE DEF s, l
    <3>2. at[i + 1] = at[i] + 2 + l + gap
      <4>1. a[i] \in Nat /\ l \in Nat /\ gap \in Nat /\ o \in Nat
        BY <2>2, <1>b
      <4>2. o + 1 + (a[i] + 2 + l + gap) = (o + 1 + a[i]) + 2 + l + gap
        BY <4>1
      <4> QED BY <3>1, <4>2, Zenon
    <3> QED BY <3>2 DEF l
  <2> HIDE DEF l, s
  <2>6. ASSUME NEW m \in 1..(2 + l + gap) PROVE b[s + m - 1] = p[i][m]
    <3>1. a[i] + m \in 1..Len(F)
      <4>1. a[i] + m <= a[i + 1]
        BY <2>2, <2>4
      <4>2. a[i + 1] <= Len(F) /\ a[i + 1] \in Nat
        BY <1>8
      <4>3. a[i] \in Nat /\ m \in Nat \ {0}
        BY <2>2
      <4> QED BY <4>1, <4>2, <4>3, <1>b
    <3>2. s + m - 1 = o + (a[i] + m)
      <4>1. s = o + 1 + a[i] /\ a[i] \in Nat /\ m \in Int /\ o \in Nat
        BY <2>2, <1>b
      <4> QED BY <4>1
    <3>3. b[o + (a[i] + m)] = F[a[i] + m]
      BY <3>1, <1>4
    <3>4. F[a[i] + m] = p[i][m]
      BY <2>3, <1>5
    <3> QED BY <3>2, <3>3, <3>4
  <2>7. b[s] = p[i][1] /\ b[s + 1] = p[i][2]
    <3>1. 1 \in 1..(2 + l + gap) /\ 2 \in 1..(2 + l + gap) /\ s + 1 - 1 = s /\ s + 2 - 1 = s + 1
      BY <2>2
    <3>2. b[s + 1 - 1] = p[i][1] /\ b[s + 2 - 1] = p[i][2]
      BY <3>1, <2>6
    <3> QED BY <3>1, <3>2
  <2>8. StringAt(p[i], 1, l)
    BY <1>6 DEF l
  <2>9. /\ p[i][1] = l \div (2 * Base) /\ p[i][2] = l % (2 * Base)
        /\ \A m \in 1..l : p[i][2 + m] = 1
    <3>1. /\ p[i][1] = l \div (2 * Base) /\ p[i][1 + 1] = l % (2 * Base)
          /\ \A m \in 1..l : p[i][1 + 1 + m] = 1
      BY <2>8 DEF StringAt
    <3> QED BY <3>1
  <2>10. ASSUME NEW m \in 1..l PROVE b[s + 1 + m] = 1
    <3>1. 2 + m \in 1..(2 + l + gap) /\ s + (2 + m) - 1 = s + 1 + m
      BY <2>2
    <3>2. b[s + (2 + m) - 1] = p[i][2 + m]
      BY <3>1, <2>6
    <3> QED BY <3>1, <3>2, <2>9
  <2>11. ASSUME gap = 1 PROVE b[s + 2 + l] = q[i]
    <3>1. 3 + l \in 1..(2 + l + gap) /\ s + (3 + l) - 1 = s + 2 + l
      BY <2>2, <2>11
    <3>2. b[s + (3 + l) - 1] = p[i][3 + l]
      BY <3>1, <2>6
    <3>3. p[i][3 + l] = q[i]
      BY <2>11, <1>6 DEF l
    <3> QED BY <3>1, <3>2, <3>3
  <2>12. StringAt(b, s, l)
    BY <2>7, <2>9, <2>10, Zenon DEF StringAt
  <2> QED BY <2>5, <2>11, <2>12 DEF s, l
<1> HIDE DEF at
<1>11. at[1] >= 1 /\ at[n + 1] < Len(b)
  BY <1>4, <1>9
<1>12. LaidOut(b, at, lens, gap, q)
  BY <1>9, <1>10, <1>11, Zenon DEF LaidOut, n
<1> QED BY <1>9, <1>12 DEF F, n
-----------------------------------------------------------------------------
(* One more string.                                                        *)

(* strncpy of a string without a zero is the string; of one with a zero    *)
(* less.                                                                   *)
LEMMA CutIs ==
  ASSUME NEW s \in Seq(Nat)
  PROVE  /\ Cut(s) \in Seq(Nat) /\ Len(Cut(s)) <= Len(s)
         /\ (\A i \in 1..Len(s) : s[i] # 0) => Cut(s) = s
         /\ (\E i \in 1..Len(s) : s[i] = 0) => Len(Cut(s)) < Len(s)
<1> DEFINE I == {i \in 1..Len(s) : s[i] = 0}
           zero == IF I # {} THEN Min(I) ELSE 0
<1>1. Cut(s) = IF zero = 0 THEN s ELSE SubSeq(s, 1, zero - 1)
  BY DEF Cut, SelectInSeq
<1>2. CASE I = {}
  BY <1>1, <1>2
<1>3. CASE I # {}
  <2>1. \E n \in I : \A m \in I : n <= m
    <3>1. I \subseteq Nat
      OBVIOUS
    <3> HIDE DEF I
    <3> QED BY <3>1, <1>3, LeastNumber
  <2>2. zero \in I
    BY <1>3, <2>1 DEF Min
  <2>3. zero \in 1..Len(s) /\ s[zero] = 0
    BY <2>2
  <2> HIDE DEF I, zero
  <2>4. Cut(s) = SubSeq(s, 1, zero - 1)
    BY <1>1, <2>3
  <2>5. \A i \in 1..(zero - 1) : s[i] \in Nat
    BY <2>3
  <2>6. SubSeq(s, 1, zero - 1) \in Seq(Nat)
        /\ Len(SubSeq(s, 1, zero - 1)) = IF 1 <= zero - 1 THEN (zero - 1) - 1 + 1 ELSE 0
    BY <2>3, <2>5, SubSeqProperties
  <2>7. Len(Cut(s)) < Len(s)
    BY <2>3, <2>4, <2>6
  <2> QED BY <2>3, <2>4, <2>6, <2>7
<1> QED BY <1>2, <1>3

Status == {"more", "read", "crash", "beyond"}
Text == Seq(Nat) \X Nat
Acc == [status : Status, at : Nat \ {0}, texts : Seq(Text)]

(* A string more, no longer than string_len says, or nothing any more.     *)
Furthers(b, acc, new) ==
  /\ new \in Acc
  /\ acc.status # "more" => new = acc
  /\ new.status = "more" =>
       \E t \in Text : new.texts = Append(acc.texts, t) /\ Len(t[1]) <= LenAt(b, acc.at)
  /\ new.status # "more" => new.texts = acc.texts

(* One round of hex_to_string never goes back, adds one text or stops.     *)
LEMMA OneMoreIs ==
  ASSUME NEW b \in Seq(Nat), NEW acc \in Acc, NEW start \in Nat, NEW gap \in Nat,
         NEW limit \in Nat
  PROVE  Furthers(b, acc, OneMore(b, acc, start, gap, limit))
<1> DEFINE new == OneMore(b, acc, start, gap, limit)
           n == LenAt(b, acc.at)
           next == acc.at + 2 + n
           last == IF next <= Len(b) THEN next - 1 ELSE Len(b)
           t == <<Cut(SubSeq(b, acc.at + 2, last)), IF gap > 0 THEN b[next] ELSE 0>>
           added == [status |-> "more", at |-> next + gap, texts |-> Append(acc.texts, t)]
<1>1. /\ acc.status \in Status /\ acc.at \in Nat \ {0} /\ acc.texts \in Seq(Text)
      /\ acc = [status |-> acc.status, at |-> acc.at, texts |-> acc.texts]
  BY DEF Acc
<1>a. acc.at \in Nat \ {0} /\ Len(b) \in Nat
  BY <1>1
<1>2. ASSUME new \in {acc, [acc EXCEPT !.status = "beyond"], [acc EXCEPT !.status = "read"],
                    [acc EXCEPT !.status = "crash"]} /\ (acc.status # "more" => new = acc)
           /\ new.status # "more"
      PROVE  Furthers(b, acc, new)
  <2>1. new.texts = acc.texts /\ new \in Acc
    BY <1>1, <1>2 DEF Acc, Status
  <2> QED BY <2>1, <1>2 DEF Furthers
<1>3. ASSUME new = added /\ acc.status = "more" /\ acc.at < Len(b)
           /\ n # 0 /\ (gap > 0 => next <= Len(b))
      PROVE  Furthers(b, acc, new)
  <2>1. b[acc.at] \in Nat /\ b[acc.at + 1] \in Nat
    <3>1. acc.at \in 1..Len(b) /\ acc.at + 1 \in 1..Len(b)
      BY <1>3, <1>a
    <3> QED BY <3>1
  <2>2. n \in Nat
    <3> DEFINE x == b[acc.at]
               y == b[acc.at + 1]
    <3>1. x \in Nat /\ y \in Nat
      BY <2>1
    <3> HIDE DEF x, y
    <3>2. x % Base \in Nat /\ y % Base \in Nat
      BY <3>1, BaseAssumption
    <3>3. (y % Base) + Base * (x % Base) \in Nat
      BY <3>2, BaseAssumption
    <3>4. n \in {y % Base, (y % Base) + Base * (x % Base)}
      BY DEF LenAt, StringLen, AsByte, Byte, x, y
    <3> QED BY <3>2, <3>3, <3>4
  <2> HIDE DEF n
  <2>3. next \in Nat /\ next >= 3 /\ last \in Nat /\ last <= next - 1 /\ last <= Len(b)
    BY <1>a, <2>2
  <2>4. t \in Text /\ Len(t[1]) <= n
    <3> DEFINE from == acc.at + 2
               s == SubSeq(b, from, last)
    <3>1. from \in Nat /\ \A i \in from..last : b[i] \in Nat
      <4>1. from \in Nat /\ from >= 3 /\ last \in Nat /\ last <= Len(b)
        BY <1>a, <2>3
      <4> HIDE DEF from, last
      <4>2. \A i \in from..last : i \in 1..Len(b)
        BY <4>1, <1>a
      <4> QED BY <4>1, <4>2
    <3>2. s \in Seq(Nat) /\ Len(s) = IF from <= last THEN last - from + 1 ELSE 0
      <4> HIDE DEF last, from, next
      <4> QED BY <2>3, <3>1, SubSeqProperties
    <3>3. Len(s) <= n
      <4>1. from <= last => last - from + 1 <= n
        BY <2>2, <2>3, <1>1, <1>a
      <4>2. Len(s) = IF from <= last THEN last - from + 1 ELSE 0
        BY <3>2
      <4> HIDE DEF s, from, last, next
      <4> QED BY <4>1, <4>2, <2>2
    <3>4. Cut(s) \in Seq(Nat) /\ Len(Cut(s)) <= Len(s)
      BY <3>2, CutIs
    <3>5. (IF gap > 0 THEN b[next] ELSE 0) \in Nat
      <4>1. gap > 0 => next \in 1..Len(b)
        BY <1>3, <1>a, <2>3
      <4> QED BY <4>1
    <3>6. t[1] = Cut(s)
      OBVIOUS
    <3>7. Len(s) \in Nat /\ Len(Cut(s)) \in Nat
      BY <3>2, <3>4
    <3>8. t \in Text
      BY <3>4, <3>5 DEF Text
    <3>9. Len(Cut(s)) <= n
      <4> HIDE DEF s
      <4> QED BY <3>3, <3>4, <3>7, <2>2
    <3> QED BY <3>6, <3>8, <3>9
  <2> HIDE DEF t, last
  <2>5. new.texts = Append(acc.texts, t) /\ new.status = "more"
    BY <1>3
  <2>6. Append(acc.texts, t) \in Seq(Text)
    BY <1>1, <2>4, AppendProperties
  <2>7. next + gap \in Nat \ {0}
    BY <2>3
  <2>8. new \in Acc
    <3> HIDE DEF next, new
    <3> QED BY <1>3, <2>6, <2>7 DEF Acc, Status
  <2> HIDE DEF new
  <2>9. Len(t[1]) <= LenAt(b, acc.at)
    BY <2>4 DEF n
  <2> QED BY <1>3, <2>4, <2>5, <2>8, <2>9 DEF Furthers
<1>4. \/ new \in {acc, [acc EXCEPT !.status = "beyond"], [acc EXCEPT !.status = "read"],
                  [acc EXCEPT !.status = "crash"]} /\ (acc.status # "more" => new = acc)
         /\ new.status # "more"
      \/ new = added /\ acc.status = "more" /\ acc.at < Len(b)
         /\ n # 0 /\ (gap > 0 => next <= Len(b))
  <2> HIDE DEF n
  <2>1. new = IF acc.status # "more" THEN acc
     ELSE IF acc.at >= Len(b) THEN [acc EXCEPT !.status = "beyond"]
     ELSE IF limit > 0 /\ ((b[acc.at] = 0 /\ b[acc.at + 1] = 0) \/ next - start > limit)
     THEN [acc EXCEPT !.status = "read"]
     ELSE IF n = 0 THEN [acc EXCEPT !.status = "crash"]
     ELSE IF gap > 0 /\ next > Len(b) THEN [acc EXCEPT !.status = "beyond"]
     ELSE added
    BY DEF OneMore, n
  <2>2. \A x \in Status : x # "more" => [acc EXCEPT !.status = x].status # "more"
    BY <1>1
  <2>3. "beyond" \in Status /\ "read" \in Status /\ "crash" \in Status
    BY DEF Status
  <2> HIDE DEF new, added
  <2>4. acc.at < Len(b) <=> ~(acc.at >= Len(b))
    BY <1>1
  <2> DEFINE stop == limit > 0 /\ ((b[acc.at] = 0 /\ b[acc.at + 1] = 0) \/ next - start > limit)
             short == gap > 0 /\ next > Len(b)
  <2>5. CASE acc.status # "more"
    BY <2>1, <2>5
  <2>6. CASE acc.status = "more" /\ acc.at >= Len(b)
    BY <2>1, <2>2, <2>3, <2>6
  <2>7. CASE acc.status = "more" /\ ~(acc.at >= Len(b)) /\ stop
    BY <2>1, <2>2, <2>3, <2>7
  <2> HIDE DEF stop
  <2>8. CASE acc.status = "more" /\ ~(acc.at >= Len(b)) /\ ~stop /\ n = 0
    BY <2>1, <2>2, <2>3, <2>8 DEF stop
  <2>9. CASE acc.status = "more" /\ ~(acc.at >= Len(b)) /\ ~stop /\ n # 0 /\ short
    BY <2>1, <2>2, <2>3, <2>9 DEF stop
  <2>10. CASE acc.status = "more" /\ ~(acc.at >= Len(b)) /\ ~stop /\ n # 0 /\ ~short
    <3>1. new = added
      BY <2>1, <2>10 DEF stop
    <3>2. n \in Nat
      <4>1. b[acc.at] \in Nat /\ b[acc.at + 1] \in Nat
        BY <1>1, <2>10
      <4> DEFINE x == b[acc.at]
                 y == b[acc.at + 1]
      <4>2. x \in Nat /\ y \in Nat
        BY <4>1
      <4> HIDE DEF x, y
      <4>3. x % Base \in Nat /\ y % Base \in Nat
        BY <4>2, BaseAssumption
      <4>4. (y % Base) + Base * (x % Base) \in Nat
        BY <4>3, BaseAssumption
      <4>5. n \in {y % Base, (y % Base) + Base * (x % Base)}
        BY DEF n, LenAt, StringLen, AsByte, Byte, x, y
      <4> QED BY <4>3, <4>4, <4>5
    <3>3. gap > 0 => next <= Len(b)
      BY <3>2, <2>10, <1>1
    <3> QED BY <3>1, <3>3, <2>4, <2>10
  <2> QED BY <2>5, <2>6, <2>7, <2>8, <2>9, <2>10
<1> HIDE DEF new, added, n, next
<1>5. Furthers(b, acc, new)
  BY <1>2, <1>3, <1>4
<1> QED BY <1>5 DEF new
-----------------------------------------------------------------------------
(* All the strings.                                                        *)

(* What is read after 0, 1, ... k strings.                                 *)
First(start) == [status |-> "more", at |-> start, texts |-> <<>>]
Reading(b, start, k, gap, limit, r) ==
  /\ r[0] = First(start)
  /\ \A i \in 1..k : r[i] = OneMore(b, r[i - 1], start, gap, limit)
Ended(acc) == IF acc.status = "more" THEN [acc EXCEPT !.status = "read"] ELSE acc

(* Strings is the end of a reading: the recursive function with which it   *)
(* is defined exists.                                                      *)
LEMMA ReadIs ==
  ASSUME NEW b, NEW start, NEW k \in Nat, NEW gap, NEW limit
  PROVE  \E r : /\ Reading(b, start, k, gap, limit, r)
                /\ Strings(b, start, k, gap, limit) = Ended(r[k])
<1> DEFINE More(a) == OneMore(b, a, start, gap, limit)
           Is(n, f) == f = [i \in 0..n |-> IF i = 0 THEN First(start) ELSE More(f[i - 1])]
           read == CHOOSE f : Is(k, f)
           S == {n \in 0..k : \E f : Is(n, f)}
<1>1. 0 \in S
  <2> DEFINE f == [i \in 0..0 |-> First(start)]
  <2>1. Is(0, f) /\ 0 \in 0..k
    OBVIOUS
  <2> HIDE DEF f, Is
  <2> QED BY <2>1
<1>2. ASSUME NEW n \in 0..k, n > 0, n - 1 \in S PROVE n \in S
  <2>1. PICK f : Is(n - 1, f)
    BY <1>2
  <2> HIDE DEF More
  <2>2. \A i \in 0..(n - 1) : f[i] = IF i = 0 THEN First(start) ELSE More(f[i - 1])
    BY <2>1
  <2> DEFINE g == [i \in 0..n |-> IF i = n THEN More(f[n - 1]) ELSE f[i]]
  <2>3. ASSUME NEW i \in 0..n
        PROVE  g[i] = IF i = 0 THEN First(start) ELSE More(g[i - 1])
    <3>1. CASE i = n
      <4>1. i - 1 \in 0..n /\ i - 1 # n /\ i # 0
        BY <3>1, <1>2
      <4>2. g[i - 1] = f[i - 1] /\ g[i] = More(f[n - 1])
        BY <3>1, <4>1
      <4> QED BY <3>1, <4>1, <4>2
    <3>2. CASE i # n
      <4>1. i \in 0..(n - 1) /\ (i # 0 => i - 1 \in 0..n /\ i - 1 # n)
        BY <3>2, <1>2
      <4>2. g[i] = f[i] /\ (i # 0 => g[i - 1] = f[i - 1])
        BY <4>1, <3>2
      <4> HIDE DEF g
      <4> QED BY <2>2, <4>1, <4>2
    <3> QED BY <3>1, <3>2
  <2>4. Is(n, g)
    <3>1. g = [i \in 0..n |-> g[i]]
      OBVIOUS
    <3> HIDE DEF g
    <3>2. [i \in 0..n |-> g[i]] = [i \in 0..n |-> IF i = 0 THEN First(start) ELSE More(g[i - 1])]
      BY <2>3
    <3> QED BY <3>1, <3>2
  <2> HIDE DEF Is
  <2> QED BY <2>4
<1>3. k \in S
  <2> HIDE DEF S
  <2>1. \A n \in 0..k : n \in S
    BY <1>1, <1>2, UpTo
  <2> QED BY <2>1
<1>4. Is(k, read)
  BY <1>3
<1>5. Strings(b, start, k, gap, limit) = Ended(read[k])
  BY DEF Strings, Ended, First
<1> HIDE DEF read
<1>6. \A i \in 0..k : read[i] = IF i = 0 THEN First(start) ELSE More(read[i - 1])
  <2> HIDE DEF More
  <2> QED BY <1>4
<1>7. Reading(b, start, k, gap, limit, read)
  <2>1. \A i \in 1..k : i \in 0..k /\ i # 0
    OBVIOUS
  <2>2. 0 \in 0..k
    OBVIOUS
  <2>3. read[0] = First(start)
    BY <1>6, <2>2
  <2>4. \A i \in 1..k : read[i] = OneMore(b, read[i - 1], start, gap, limit)
    BY <1>6, <2>1
  <2> QED BY <2>3, <2>4 DEF Reading
<1> QED BY <1>5, <1>7

(* A reading goes from one accumulator to the next, and stops for good.    *)
LEMMA ReadingIs ==
  ASSUME NEW b \in Seq(Nat), NEW start \in Nat \ {0}, NEW k \in Nat, NEW gap \in Nat,
         NEW limit \in Nat, NEW r, Reading(b, start, k, gap, limit, r)
  PROVE  /\ \A i \in 0..k : r[i] \in Acc
         /\ \A i \in 1..k : Furthers(b, r[i - 1], r[i])
<1> DEFINE S == {n \in 0..k : r[n] \in Acc}
<1>1. 0 \in S
  <2>1. r[0] = [status |-> "more", at |-> start, texts |-> <<>>]
    BY DEF Reading, First
  <2>2. <<>> \in Seq(Text)
    OBVIOUS
  <2>3. r[0] \in Acc
    BY <2>1, <2>2 DEF Acc, Status
  <2> QED BY <2>3
<1>2. ASSUME NEW n \in 1..k, r[n - 1] \in Acc
      PROVE  Furthers(b, r[n - 1], r[n])
  <2>1. r[n] = OneMore(b, r[n - 1], start, gap, limit)
    BY DEF Reading
  <2>2. Furthers(b, r[n - 1], OneMore(b, r[n - 1], start, gap, limit))
    BY <1>2, OneMoreIs
  <2> QED BY <2>1, <2>2
<1>3. ASSUME NEW n \in 0..k, n > 0, n - 1 \in S PROVE n \in S
  <2>1. n \in 1..k /\ r[n - 1] \in Acc
    BY <1>3
  <2>2. Furthers(b, r[n - 1], r[n])
    BY <2>1, <1>2
  <2> QED BY <2>2 DEF Furthers
<1> HIDE DEF S
<1>4. \A n \in 0..k : n \in S
  BY <1>1, <1>3, UpTo
<1>5. \A n \in 0..k : r[n] \in Acc
  BY <1>4 DEF S
<1>6. ASSUME NEW n \in 1..k PROVE Furthers(b, r[n - 1], r[n])
  <2>1. n - 1 \in 0..k
    OBVIOUS
  <2> QED BY <2>1, <1>5, <1>2
<1> QED BY <1>5, <1>6

(* What reading strings returns is an accumulator.                         *)
LEMMA StringsTyped ==
  ASSUME NEW b \in Seq(Nat), NEW start \in Nat \ {0}, NEW k \in Nat, NEW gap \in Nat,
         NEW limit \in Nat
  PROVE  Strings(b, start, k, gap, limit) \in Acc
<1>1. PICK r : /\ Reading(b, start, k, gap, limit, r)
               /\ Strings(b, start, k, gap, limit) = Ended(r[k])
  BY ReadIs
<1>2. r[k] \in Acc
  <2>1. k \in 0..k
    OBVIOUS
  <2> QED BY <1>1, <2>1, ReadingIs
<1>3. Ended(r[k]) \in Acc
  BY <1>2 DEF Ended, Acc, Status
<1> QED BY <1>1, <1>3

(* What has stopped stays as it is; texts that were read stay.             *)
LEMMA Stays ==
  ASSUME NEW b \in Seq(Nat), NEW start \in Nat \ {0}, NEW k \in Nat, NEW gap \in Nat,
         NEW limit \in Nat, NEW r, Reading(b, start, k, gap, limit, r),
         NEW i \in 0..k
  PROVE  /\ r[i].status # "more" => r[k] = r[i]
         /\ \A j \in 1..Len(r[i].texts) :
              j \in 1..Len(r[k].texts) /\ r[k].texts[j] = r[i].texts[j]
<1> DEFINE T == r[i].texts
           Kept(n) == /\ r[i].status # "more" => r[n] = r[i]
                      /\ \A j \in 1..Len(T) : j \in 1..Len(r[n].texts) /\ r[n].texts[j] = T[j]
           S == {m \in 0..(k - i) : Kept(i + m)}
<1>1. 0 \in S
  <2>1. i + 0 = i /\ 0 \in 0..(k - i)
    OBVIOUS
  <2> QED BY <2>1
<1>2. ASSUME NEW m \in 0..(k - i), m > 0, m - 1 \in S PROVE m \in S
  <2> DEFINE n == i + m
  <2>1. n \in 1..k /\ n - 1 \in 0..k /\ i + (m - 1) = n - 1
    BY <1>2
  <2>2. Kept(n - 1)
    BY <1>2, <2>1
  <2>3. r[n - 1] \in Acc /\ Furthers(b, r[n - 1], r[n])
    BY <2>1, ReadingIs
  <2> DEFINE old == r[n - 1]
             new == r[n]
  <2>4. old \in Acc /\ Furthers(b, old, new)
    BY <2>3
  <2>5. old.texts \in Seq(Text)
    BY <2>4 DEF Acc
  <2> HIDE DEF n, old, new
  <2>6. old.status # "more" => new = old
    BY <2>4 DEF Furthers
  <2>7. \A j \in 1..Len(old.texts) : j \in 1..Len(new.texts) /\ new.texts[j] = old.texts[j]
    <3>1. CASE new.status = "more"
      <4>1. PICK t \in Text : new.texts = Append(old.texts, t)
        BY <3>1, <2>4 DEF Furthers
      <4>2. Len(new.texts) = Len(old.texts) + 1
        BY <4>1, <2>5, AppendProperties
      <4>3. \A j \in 1..Len(old.texts) : new.texts[j] = old.texts[j]
        BY <4>1, <2>5, AppendProperties
      <4>4. Len(old.texts) \in Nat
        BY <2>5
      <4> QED BY <4>2, <4>3, <4>4
    <3>2. CASE new.status # "more"
      BY <3>2, <2>4 DEF Furthers
    <3> QED BY <3>1, <3>2
  <2>8. Kept(n)
    BY <2>2, <2>6, <2>7 DEF old, new
  <2> QED BY <2>8 DEF n
<1> HIDE DEF S
<1>3. \A m \in 0..(k - i) : m \in S
  <2>1. k - i \in Nat
    OBVIOUS
  <2> QED BY <2>1, <1>1, <1>2, UpTo
<1>4. k - i \in 0..(k - i) /\ i + (k - i) = k
  OBVIOUS
<1>5. Kept(k)
  BY <1>3, <1>4 DEF S
<1> QED BY <1>5

(* What is read of strings that lie in b.                                  *)
Lying(b, at, lens, gap, q) ==
  b \in Seq(Nat) /\ lens \in Seq(Nat) /\ gap \in 0..1 /\ LaidOut(b, at, lens, gap, q)

TextOf(n, gap, x) == <<Fill(n), IF gap > 0 THEN x ELSE 0>>
TextsTo(i, lens, gap, q) == [j \in 1..i |-> TextOf(lens[j], gap, q[j])]
AllRead(i, at, lens, gap, q) ==
  [status |-> "more", at |-> at[i + 1], texts |-> TextsTo(i, lens, gap, q)]

(* The strings are as far from start as the limit allows.                  *)
Room(at, lens, start, limit) == limit = 0 \/ at[Len(lens) + 1] - start <= limit

(* Where each string that lies in a buffer starts and ends.                *)
LEMMA LyingIs ==
  ASSUME NEW b, NEW at, NEW lens, NEW gap, NEW q, Lying(b, at, lens, gap, q),
         NEW i \in 1..Len(lens)
  PROVE  /\ at[i] \in Nat /\ at[i] >= 1 /\ lens[i] \in Nat
         /\ at[i + 1] = at[i] + 2 + lens[i] + gap
         /\ at[i + 1] <= at[Len(lens) + 1] /\ at[Len(lens) + 1] < Len(b)
         /\ at[Len(lens) + 1] \in Nat
<1> DEFINE n == Len(lens)
<1>1. /\ at \in [1..(n + 1) -> Nat] /\ at[1] >= 1 /\ at[n + 1] < Len(b)
      /\ \A j \in 1..n : at[j + 1] = at[j] + 2 + lens[j] + gap
  BY DEF Lying, LaidOut
<1>2. n \in Nat /\ lens \in Seq(Nat) /\ gap \in Nat /\ Len(b) \in Nat
  BY DEF Lying
<1>3. \A j \in 1..n : lens[j] \in Nat
  BY <1>2
<1> HIDE DEF n
<1>4. ASSUME NEW j \in 1..n PROVE at[j] <= at[j + 1] /\ at[j] \in Nat
  <2>1. at[j + 1] = at[j] + 2 + lens[j] + gap
    BY <1>1
  <2>2. j \in 1..(n + 1)
    BY <1>2
  <2>3. at[j] \in Nat
    BY <1>1, <2>2
  <2>4. lens[j] \in Nat
    BY <1>3
  <2> QED BY <2>1, <2>3, <2>4, <1>2
<1>5. \A j \in 1..(n + 1) : at[j] <= at[n + 1]
  BY <1>1, <1>2, <1>4, PlacesAgain
<1> DEFINE S == {m \in 0..n : at[m + 1] >= 1}
<1>6. \A m \in 0..n : m \in S
  <2>1. 0 \in S
    BY <1>1, <1>2
  <2>2. ASSUME NEW m \in 0..n, m > 0, m - 1 \in S PROVE m \in S
    <3>1. m \in 1..n /\ at[(m - 1) + 1] >= 1 /\ (m - 1) + 1 = m
      BY <2>2
    <3>2. at[m] <= at[m + 1] /\ at[m] \in Nat
      BY <3>1, <1>4
    <3>3. at[m + 1] \in Nat
      <4>1. m + 1 \in 1..(n + 1)
        BY <3>1, <1>2
      <4> QED BY <4>1, <1>1
    <3>4. at[m + 1] >= 1
      BY <3>1, <3>2, <3>3
    <3> QED BY <3>4
  <2> HIDE DEF S
  <2> QED BY <2>1, <2>2, <1>2, UpTo
<1>7. i \in 1..n /\ i - 1 \in 0..n /\ (i - 1) + 1 = i /\ i + 1 \in 1..(n + 1) /\ n + 1 \in 1..(n + 1)
  <2>1. i \in 1..n
    BY DEF n
  <2> QED BY <2>1, <1>2
<1>8. at[i] >= 1
  BY <1>6, <1>7
<1>9. at[i + 1] <= at[n + 1] /\ at[n + 1] \in Nat
  BY <1>1, <1>5, <1>7
<1>10. at[i] \in Nat /\ lens[i] \in Nat /\ at[i + 1] = at[i] + 2 + lens[i] + gap
  BY <1>1, <1>3, <1>4, <1>7
<1> QED BY <1>1, <1>8, <1>9, <1>10 DEF n

(* What is read at a string of length l: its length, or less.              *)
LEMMA LenThere ==
  ASSUME NEW b, NEW at, NEW lens, NEW gap, NEW q, Lying(b, at, lens, gap, q),
         NEW i \in 1..Len(lens)
  PROVE  /\ LenAt(b, at[i]) \in Nat
         /\ lens[i] < Base => LenAt(b, at[i]) = lens[i]
         /\ lens[i] >= Base => LenAt(b, at[i]) < lens[i]
<1>1. lens[i] \in Nat
  BY LyingIs
<1>2. StringAt(b, at[i], lens[i])
  BY DEF Lying, LaidOut
<1>3. b[at[i]] = lens[i] \div (2 * Base) /\ b[at[i] + 1] = lens[i] % (2 * Base)
  BY <1>2 DEF StringAt
<1> QED BY <1>1, <1>3, LenRead

(* A string both sides read alike is read as it was written.               *)
LEMMA PlainStep ==
  ASSUME NEW b, NEW at, NEW lens, NEW gap, NEW q, Lying(b, at, lens, gap, q),
         NEW i \in 1..Len(lens), lens[i] \in 1..(Base - 1),
         NEW start \in Nat, NEW limit \in Nat, Room(at, lens, start, limit),
         NEW texts
  PROVE  OneMore(b, [status |-> "more", at |-> at[i], texts |-> texts], start, gap, limit)
           = [status |-> "more", at |-> at[i + 1],
              texts |-> Append(texts, TextOf(lens[i], gap, q[i]))]
<1> DEFINE n == lens[i]
           s == at[i]
           e == at[i + 1]
           z == at[Len(lens) + 1]
           next == s + 2 + n
           last == IF next <= Len(b) THEN next - 1 ELSE Len(b)
           acc == [status |-> "more", at |-> s, texts |-> texts]
<1>1. /\ s \in Nat /\ s >= 1 /\ n \in Nat /\ e = s + 2 + n + gap
      /\ e <= z /\ z < Len(b) /\ z \in Nat
  BY LyingIs
<1>2. gap \in 0..1 /\ b \in Seq(Nat) /\ Len(b) \in Nat
  BY DEF Lying
<1>3. LenAt(b, s) = n
  BY LenThere, BaseAssumption
<1>4. /\ b[s] = n \div (2 * Base) /\ b[s + 1] = n % (2 * Base)
      /\ \A m \in 1..n : b[s + 1 + m] = 1
      /\ gap = 1 => b[next] = q[i]
  BY DEF Lying, LaidOut, StringAt
<1>5. limit = 0 \/ z - start <= limit
  BY DEF Room
<1>a. n \in 1..(Base - 1)
  OBVIOUS
<1> HIDE DEF s, e, n, z
<1>6. b[s + 1] # 0
  <2> DEFINE d == 2 * Base
  <2>1. d \in Nat /\ n \in 1..(d - 1)
    BY <1>a, BaseAssumption
  <2> HIDE DEF d
  <2>2. n % d = n
    BY <2>1
  <2> QED BY <2>2, <1>4, <1>a DEF d
<1>7. next \in Nat /\ next <= Len(b) /\ last = next - 1 /\ next + gap = e
  BY <1>1, <1>2
<1>8. ~(limit > 0 /\ next - start > limit)
  BY <1>1, <1>2, <1>5, <1>7
<1>9. Cut(SubSeq(b, s + 2, last)) = Fill(n)
  <2> DEFINE f == SubSeq(b, s + 2, last)
  <2>1. last \in Nat /\ s + 2 \in Nat /\ s + 2 >= 3 /\ last <= Len(b) /\ last - (s + 2) + 1 = n
        /\ s + 2 <= last
    BY <1>1, <1>7, <1>a
  <2>2. f = [m \in 1..n |-> b[(s + 2) + m - 1]]
    <3> DEFINE from == s + 2
    <3>1. from \in Nat /\ from >= 1 /\ last \in Nat /\ last <= Len(b) /\ last - from + 1 = n
          /\ from <= last
      BY <2>1
    <3> HIDE DEF last, from
    <3>2. \A j \in from..last : b[j] \in Nat
      <4>1. \A j \in from..last : j \in 1..Len(b)
        BY <3>1, <1>2
      <4> QED BY <4>1, <1>2
    <3>3. /\ SubSeq(b, from, last) \in Seq(Nat) /\ Len(SubSeq(b, from, last)) = n
          /\ \A j \in 1..n : SubSeq(b, from, last)[j] = b[from + j - 1]
      BY <3>1, <3>2, SubSeqProperties
    <3>4. SubSeq(b, from, last) = [m \in 1..n |-> b[from + m - 1]]
      <4> DEFINE g == SubSeq(b, from, last)
                 v == [j \in 1..n |-> b[from + j - 1]]
      <4>1. g \in Seq(Nat) /\ Len(g) = n /\ \A j \in 1..n : g[j] = b[from + j - 1]
        BY <3>3
      <4> HIDE DEF g
      <4>2. g = [j \in 1..Len(g) |-> g[j]]
        BY <4>1
      <4>3. g = [j \in 1..n |-> g[j]]
        BY <4>1, <4>2
      <4>4. g = v
        BY <4>1, <4>3
      <4> QED BY <4>4 DEF g
    <3> QED BY <3>4 DEF from
  <2>3. \A m \in 1..n : (s + 2) + m - 1 = s + 1 + m
    BY <1>1
  <2>4. f = [m \in 1..n |-> 1]
    BY <2>2, <2>3, <1>4
  <2> HIDE DEF f
  <2>5. f \in Seq(Nat) /\ Len(f) = n /\ \A m \in 1..n : f[m] # 0
    BY <2>4, <1>1
  <2>6. Cut(f) = f
    BY <2>5, CutIs
  <2> QED BY <2>4, <2>6 DEF f, Fill
<1>10. acc.status = "more" /\ acc.at = s /\ acc.texts = texts
  OBVIOUS
<1> HIDE DEF acc
<1>11. OneMore(b, acc, start, gap, limit) =
         [status |-> "more", at |-> next + gap,
          texts |-> Append(texts, <<Cut(SubSeq(b, s + 2, last)),
                                    IF gap > 0 THEN b[next] ELSE 0>>)]
  <2>1. ~(s >= Len(b))
    BY <1>1, <1>2
  <2>2. n # 0
    BY <1>a
  <2>3. ~(next > Len(b))
    BY <1>2, <1>7
  <2> HIDE DEF next, last
  <2>4. OneMore(b, acc, start, gap, limit) =
     LET nx == s + 2 + n
         la == IF nx <= Len(b) THEN nx - 1 ELSE Len(b)
     IN IF s >= Len(b) THEN [acc EXCEPT !.status = "beyond"]
        ELSE IF limit > 0 /\ ((b[s] = 0 /\ b[s + 1] = 0) \/ nx - start > limit)
        THEN [acc EXCEPT !.status = "read"]
        ELSE IF n = 0 THEN [acc EXCEPT !.status = "crash"]
        ELSE IF gap > 0 /\ nx > Len(b) THEN [acc EXCEPT !.status = "beyond"]
        ELSE [status |-> "more", at |-> nx + gap,
              texts |-> Append(texts, <<Cut(SubSeq(b, s + 2, la)),
                                         IF gap > 0 THEN b[nx] ELSE 0>>)]
    BY <1>3, <1>10 DEF OneMore
  <2> QED BY <2>1, <2>2, <2>3, <2>4, <1>6, <1>8 DEF next, last
<1>12. (IF gap > 0 THEN b[next] ELSE 0) = (IF gap > 0 THEN q[i] ELSE 0)
  BY <1>2, <1>4
<1> HIDE DEF next, last
<1> QED BY <1>7, <1>9, <1>11, <1>12 DEF acc, s, e, n, TextOf

(* What the strings are read with: where they start, how many there may    *)
(* be, and how far the last may reach.                                     *)
Calls(b, at, lens, gap, q, start, k, limit) ==
  /\ Lying(b, at, lens, gap, q)
  /\ start = at[1] /\ k \in Nat /\ Len(lens) <= k
  /\ limit \in Nat /\ Room(at, lens, start, limit)

(* So long as the strings are alike to both sides, they are all read.      *)
LEMMA PlainPrefix ==
  ASSUME NEW b, NEW at, NEW lens, NEW gap, NEW q, NEW start, NEW k, NEW limit, NEW r,
         Calls(b, at, lens, gap, q, start, k, limit), Reading(b, start, k, gap, limit, r),
         NEW i \in 0..Len(lens), \A j \in 1..i : lens[j] \in 1..(Base - 1)
  PROVE  r[i] = AllRead(i, at, lens, gap, q)
<1> DEFINE n == Len(lens)
           S == {m \in 0..i : r[m] = AllRead(m, at, lens, gap, q)}
<1>1. /\ Lying(b, at, lens, gap, q) /\ n \in Nat /\ n <= k /\ k \in Nat /\ limit \in Nat
      /\ Room(at, lens, start, limit) /\ start = at[1]
  BY DEF Calls, Lying
<1>2. 0 \in S
  <2>1. r[0] = [status |-> "more", at |-> at[0 + 1], texts |-> <<>>]
    BY <1>1 DEF Reading, First
  <2>2. TextsTo(0, lens, gap, q) = <<>>
    BY DEF TextsTo
  <2> QED BY <2>1, <2>2 DEF AllRead
<1>3. ASSUME NEW m \in 0..i, m > 0, m - 1 \in S PROVE m \in S
  <2> DEFINE texts == TextsTo(m - 1, lens, gap, q)
             t == TextOf(lens[m], gap, q[m])
  <2>1. m \in 1..n /\ m \in 1..k /\ m \in 1..i /\ (m - 1) + 1 = m
    BY <1>1, <1>3
  <2>2. r[m - 1] = [status |-> "more", at |-> at[m], texts |-> texts]
    BY <1>3, <2>1 DEF AllRead
  <2>3. r[m] = OneMore(b, r[m - 1], start, gap, limit)
    BY <2>1 DEF Reading
  <2>4. start \in Nat
    <3>1. 1 \in 1..n
      BY <1>1, <2>1
    <3> QED BY <3>1, <1>1, LyingIs
  <2>5. lens[m] \in 1..(Base - 1)
    BY <2>1
  <2> HIDE DEF texts
  <2>6. r[m] = [status |-> "more", at |-> at[m + 1], texts |-> Append(texts, t)]
    <3>1. m \in 1..Len(lens) /\ Lying(b, at, lens, gap, q) /\ limit \in Nat
          /\ Room(at, lens, start, limit)
      BY <1>1, <2>1
    <3> HIDE DEF t
    <3>2. OneMore(b, [status |-> "more", at |-> at[m], texts |-> texts], start, gap, limit)
            = [status |-> "more", at |-> at[m + 1],
               texts |-> Append(texts, TextOf(lens[m], gap, q[m]))]
      BY <3>1, <2>4, <2>5, PlainStep
    <3> QED BY <3>2, <2>2, <2>3 DEF t
  <2>7. Append(texts, t) = TextsTo(m, lens, gap, q)
    <3> DEFINE f == [j \in 1..m |-> TextOf(lens[j], gap, q[j])]
    <3>1. texts = [j \in 1..(m - 1) |-> TextOf(lens[j], gap, q[j])] /\ m - 1 \in Nat
      BY <2>1 DEF texts, TextsTo
    <3>2. Len(texts) = m - 1
      BY <3>1
    <3>3. Append(texts, t) = [j \in 1..m |-> IF j = m THEN t ELSE texts[j]]
      <4>1. Append(texts, t) = [j \in 1..(Len(texts) + 1) |-> IF j = Len(texts) + 1 THEN t ELSE texts[j]]
        BY <3>1, <3>2
      <4> QED BY <4>1, <3>2, <2>1
    <3>4. ASSUME NEW j \in 1..m
          PROVE  (IF j = m THEN t ELSE texts[j]) = TextOf(lens[j], gap, q[j])
      <4>1. CASE j = m
        BY <4>1
      <4>2. CASE j # m
        <5>1. j \in 1..(m - 1)
          BY <4>2, <2>1
        <5> QED BY <4>2, <5>1, <3>1
      <4> QED BY <4>1, <4>2
    <3> QED BY <3>3, <3>4 DEF TextsTo
  <2> QED BY <2>6, <2>7 DEF AllRead
<1> HIDE DEF S
<1>4. \A m \in 0..i : m \in S
  <2>1. i \in Nat
    BY <1>1
  <2> QED BY <2>1, <1>2, <1>3, UpTo
<1>5. i \in S
  BY <1>4
<1> QED BY <1>5 DEF S

(* When all of them are alike: the reading ends after them, because no     *)
(* more was asked for or because two zero bytes follow.                    *)
LEMMA AllPlain ==
  ASSUME NEW b, NEW at, NEW lens, NEW gap, NEW q, NEW start, NEW k, NEW limit,
         Calls(b, at, lens, gap, q, start, k, limit),
         \A j \in 1..Len(lens) : lens[j] \in 1..(Base - 1),
         Len(lens) > 0,
         k = Len(lens) \/ (limit > 0 /\ b[at[Len(lens) + 1]] = 0 /\ b[at[Len(lens) + 1] + 1] = 0)
  PROVE  Strings(b, start, k, gap, limit) =
           [status |-> "read", at |-> at[Len(lens) + 1],
            texts |-> TextsTo(Len(lens), lens, gap, q)]
<1> DEFINE n == Len(lens)
           all == AllRead(n, at, lens, gap, q)
           done == [status |-> "read", at |-> at[n + 1], texts |-> TextsTo(n, lens, gap, q)]
<1>1. /\ Lying(b, at, lens, gap, q) /\ n \in Nat /\ n <= k /\ k \in Nat /\ limit \in Nat
      /\ gap \in Nat /\ b \in Seq(Nat) /\ start = at[1]
  BY DEF Calls, Lying
<1>2. PICK r : /\ Reading(b, start, k, gap, limit, r)
               /\ Strings(b, start, k, gap, limit) = Ended(r[k])
  BY <1>1, ReadIs
<1>3. r[n] = all
  <2>1. n \in 0..n
    BY <1>1
  <2> QED BY <1>2, <2>1, PlainPrefix
<1>4. all.status = "more" /\ all.at = at[n + 1] /\ [all EXCEPT !.status = "read"] = done
  BY DEF AllRead
<1> HIDE DEF all, done
<1>5. CASE k = n
  BY <1>2, <1>3, <1>4, <1>5 DEF Ended, done
<1>6. CASE k # n
  <2>1. n + 1 \in 1..k /\ (n + 1) - 1 = n
    BY <1>1, <1>6
  <2>2. r[n + 1] = OneMore(b, all, start, gap, limit)
    <3>1. r[n + 1] = OneMore(b, r[(n + 1) - 1], start, gap, limit)
      BY <2>1, <1>2 DEF Reading
    <3> QED BY <3>1, <2>1, <1>3
  <2>3. 1 \in 1..n
    BY <1>1
  <2>4. at[n + 1] < Len(b) /\ at[n + 1] \in Nat /\ Len(b) \in Nat /\ start \in Nat \ {0}
    <3>1. at[n + 1] < Len(b) /\ at[n + 1] \in Nat /\ at[1] \in Nat /\ at[1] >= 1
      BY <2>3, <1>1, LyingIs
    <3> QED BY <3>1, <1>1
  <2>5. limit > 0 /\ b[at[n + 1]] = 0 /\ b[at[n + 1] + 1] = 0
    BY <1>6
  <2>6. OneMore(b, all, start, gap, limit) = done
    <3>1. ~(all.at >= Len(b))
      BY <1>4, <2>4
    <3>2. limit > 0 /\ b[all.at] = 0 /\ b[all.at + 1] = 0
      BY <1>4, <2>5
    <3> QED BY <3>1, <3>2, <1>4 DEF OneMore
  <2>7. r[n + 1] = done /\ done.status = "read"
    BY <2>2, <2>6 DEF done
  <2>8. r[k] = done
    <3> DEFINE j == n + 1
    <3>1. j \in 0..k /\ start \in Nat \ {0} /\ gap \in Nat /\ limit \in Nat
          /\ b \in Seq(Nat) /\ k \in Nat
      <4>1. j \in 0..k
        BY <2>1
      <4> QED BY <4>1, <1>1, <2>4
    <3>2. Reading(b, start, k, gap, limit, r)
      BY <1>2
    <3> HIDE DEF j
    <3>3. r[j].status # "more" => r[k] = r[j]
      BY <3>1, <3>2, Stays
    <3> QED BY <3>3, <2>7 DEF j
  <2>9. Strings(b, start, k, gap, limit) = done
    BY <2>7, <2>8, <1>2 DEF Ended
  <2> QED BY <2>9 DEF done
<1> QED BY <1>5, <1>6

(* When one of them is the first that is not: if it is too long, it is not *)
(* among the texts; if it is empty and no limit stops the reading before,  *)
(* its NULL pointer is followed.                                           *)
LEMMA Spoilt ==
  ASSUME NEW b, NEW at, NEW lens, NEW gap, NEW q, NEW start, NEW k, NEW limit,
         Calls(b, at, lens, gap, q, start, k, limit),
         NEW i \in 1..Len(lens), \A j \in 1..(i - 1) : lens[j] \in 1..(Base - 1)
  PROVE  /\ lens[i] >= Base =>
              Strings(b, start, k, gap, limit).texts # TextsTo(Len(lens), lens, gap, q)
         /\ lens[i] = 0 /\ limit = 0 => Strings(b, start, k, gap, limit).status = "crash"
<1> DEFINE n == Len(lens)
           before == AllRead(i - 1, at, lens, gap, q)
<1>1. /\ Lying(b, at, lens, gap, q) /\ n \in Nat /\ n <= k /\ k \in Nat /\ limit \in Nat
      /\ gap \in Nat /\ b \in Seq(Nat) /\ start = at[1] /\ i \in 1..n
  BY DEF Calls, Lying
<1>2. PICK r : /\ Reading(b, start, k, gap, limit, r)
               /\ Strings(b, start, k, gap, limit) = Ended(r[k])
  BY <1>1, ReadIs
<1>3. r[i - 1] = before
  <2>1. i - 1 \in 0..Len(lens)
    BY <1>1
  <2> QED BY <1>2, <2>1, PlainPrefix
<1>4. before = [status |-> "more", at |-> at[i], texts |-> TextsTo(i - 1, lens, gap, q)]
  <2>1. (i - 1) + 1 = i
    BY <1>1
  <2> QED BY <2>1 DEF AllRead
<1>5. /\ start \in Nat \ {0} /\ at[i] \in Nat /\ lens[i] \in Nat /\ Len(b) \in Nat
      /\ at[i] < Len(b)
  <2>1. 1 \in 1..n
    BY <1>1
  <2>2. at[1] \in Nat /\ at[1] >= 1
    BY <2>1, <1>1, LyingIs
  <2>3. /\ at[i] \in Nat /\ lens[i] \in Nat /\ at[i + 1] = at[i] + 2 + lens[i] + gap
        /\ at[i + 1] <= at[n + 1] /\ at[n + 1] < Len(b) /\ at[n + 1] \in Nat
    BY <1>1, LyingIs
  <2> DEFINE x == at[i]
             y == at[n + 1]
             l == lens[i]
  <2>4. x \in Nat /\ l \in Nat /\ x + 2 + l + gap <= y /\ y < Len(b) /\ y \in Nat
    BY <2>3
  <2>5. Len(b) \in Nat
    BY <1>1
  <2> HIDE DEF x, y, l
  <2>6. x < Len(b)
    BY <2>4, <2>5, <1>1
  <2> QED BY <2>2, <2>3, <2>5, <2>6, <1>1 DEF x
<1>6. i \in 1..k /\ i \in 0..k
  BY <1>1
<1>7. r[i] \in Acc /\ Furthers(b, before, r[i])
  <2>1. /\ b \in Seq(Nat) /\ start \in Nat \ {0} /\ k \in Nat /\ gap \in Nat /\ limit \in Nat
        /\ Reading(b, start, k, gap, limit, r)
    BY <1>1, <1>2, <1>5
  <2>2. /\ \A j \in 0..k : r[j] \in Acc
        /\ \A j \in 1..k : Furthers(b, r[j - 1], r[j])
    BY <2>1, ReadingIs
  <2> HIDE DEF before
  <2> QED BY <2>2, <1>3, <1>6
<1>8. /\ r[i].status # "more" => r[k] = r[i]
      /\ \A j \in 1..Len(r[i].texts) :
           j \in 1..Len(r[k].texts) /\ r[k].texts[j] = r[i].texts[j]
  <2>1. /\ b \in Seq(Nat) /\ start \in Nat \ {0} /\ k \in Nat /\ gap \in Nat /\ limit \in Nat
        /\ Reading(b, start, k, gap, limit, r)
    BY <1>1, <1>2, <1>5
  <2>2. i \in 0..k
    BY <1>6
  <2> HIDE DEF before
  <2> QED BY <2>1, <2>2, Stays
<1>9. TextsTo(i - 1, lens, gap, q) \in Seq({TextOf(lens[j], gap, q[j]) : j \in 1..(i - 1)})
      /\ Len(TextsTo(i - 1, lens, gap, q)) = i - 1
  <2>1. i - 1 \in Nat
    BY <1>1
  <2> QED BY <2>1 DEF TextsTo
<1>10. Ended(r[k]).texts = r[k].texts
  <2>1. k \in 0..k
    BY <1>1
  <2>2. r[k] \in Acc
    BY <2>1, <1>1, <1>2, <1>5, ReadingIs
  <2> QED BY <2>2 DEF Ended, Acc
<1> HIDE DEF before
<1>11. ASSUME lens[i] >= Base PROVE r[k].texts # TextsTo(n, lens, gap, q)
  <2> DEFINE all == TextsTo(n, lens, gap, q)
  <2>1. all = [j \in 1..n |-> TextOf(lens[j], gap, q[j])]
    BY DEF TextsTo
  <2>2. Len(all) = n /\ Len(all[i][1]) = lens[i]
    <3>1. all[i][1] = Fill(lens[i])
      BY <2>1, <1>1 DEF TextOf
    <3>2. Len(Fill(lens[i])) = lens[i]
      BY <1>5, StrIs
    <3>3. Len(all) = n
      BY <2>1, <1>1
    <3> QED BY <3>1, <3>2, <3>3
  <2> HIDE DEF all
  <2>3. CASE r[i].status = "more"
    <3> DEFINE new == r[i]
               old == TextsTo(i - 1, lens, gap, q)
    <3>1. PICK t \in Text : new.texts = Append(old, t) /\ Len(t[1]) <= LenAt(b, at[i])
      BY <2>3, <1>4, <1>7 DEF Furthers
    <3>2. Len(t[1]) < lens[i]
      <4>1. LenAt(b, at[i]) \in Nat /\ LenAt(b, at[i]) < lens[i]
        BY <1>1, <1>11, LenThere
      <4>2. Len(t[1]) \in Nat
        BY DEF Text
      <4> QED BY <3>1, <4>1, <4>2, <1>5
    <3>3. Len(new.texts) = i /\ new.texts[i] = t
      <4>1. Append(old, t) = [j \in 1..(Len(old) + 1) |-> IF j = Len(old) + 1 THEN t ELSE old[j]]
        BY <1>9
      <4>2. Len(old) + 1 = i
        BY <1>1, <1>9
      <4> HIDE DEF old
      <4>3. Append(old, t) = [j \in 1..i |-> IF j = i THEN t ELSE old[j]]
        BY <4>1, <4>2
      <4>4. Len(Append(old, t)) = i /\ Append(old, t)[i] = t
        BY <4>3, <1>1
      <4> QED BY <4>4, <3>1
    <3> HIDE DEF new, old
    <3>4. r[k].texts[i] = t
      <4>1. i \in 1..Len(new.texts)
        BY <3>3, <1>1
      <4> QED BY <4>1, <3>3, <1>8 DEF new
    <3>5. Len(t[1]) # lens[i]
      <4>1. Len(t[1]) \in Nat
        BY DEF Text
      <4> QED BY <4>1, <3>2, <1>5
    <3> QED BY <3>4, <3>5, <2>2 DEF all
  <2>4. CASE r[i].status # "more"
    <3>1. r[k].texts = TextsTo(i - 1, lens, gap, q)
      <4>1. r[i].texts = TextsTo(i - 1, lens, gap, q)
        BY <2>4, <1>4, <1>7 DEF Furthers
      <4> QED BY <4>1, <2>4, <1>8
    <3>2. Len(r[k].texts) # n
      BY <3>1, <1>9, <1>1
    <3> QED BY <3>2, <2>2 DEF all
  <2> QED BY <2>3, <2>4
<1>12. ASSUME lens[i] = 0, limit = 0 PROVE Ended(r[k]).status = "crash"
  <2>1. LenAt(b, at[i]) = 0
    BY <1>1, <1>12, LenThere, BaseAssumption
  <2>2. before.status = "more" /\ before.at = at[i]
    BY <1>4
  <2>3. r[i] = OneMore(b, before, start, gap, limit)
    BY <1>2, <1>3, <1>6 DEF Reading
  <2>4. OneMore(b, before, start, gap, limit) = [before EXCEPT !.status = "crash"]
    <3>1. ~(before.at >= Len(b)) /\ ~(limit > 0)
      BY <1>5, <1>12, <2>2
    <3> QED BY <3>1, <2>1, <2>2 DEF OneMore
  <2>5. r[i].status = "crash"
    BY <1>4, <2>3, <2>4
  <2>6. r[k].status = "crash"
    BY <1>8, <2>5
  <2> QED BY <2>6 DEF Ended
<1> QED BY <1>2, <1>10, <1>11, <1>12
-----------------------------------------------------------------------------
(* The bodies of the packets.                                              *)

(* What mqtt_pack_decode copies.                                           *)
Copied(h, f, b) ==
  h \in Seq(Nat) /\ f \in Seq(Nat) /\ b = (h \o f) \o <<0, 0>>

(* What follows a header is in the buffer, and then the two zero bytes.    *)
LEMMA Behind ==
  ASSUME NEW h, NEW f, NEW b, Copied(h, f, b)
  PROVE  /\ Holds(b, Len(h), f)
         /\ Len(h \o f) = Len(h) + Len(f)
         /\ Len(b) = Len(h) + Len(f) + 2
         /\ b[Len(h) + Len(f) + 1] = 0 /\ b[Len(h) + Len(f) + 2] = 0
         /\ \A i \in 1..Len(h) : b[i] = h[i]
<1> DEFINE g == h \o f
           o == Len(h)
           l == Len(f)
           e == <<0, 0>>
<1>0. h \in Seq(Nat) /\ f \in Seq(Nat) /\ b = g \o e
  BY DEF Copied
<1>1. o \in Nat /\ l \in Nat
  BY <1>0
<1>2. /\ g \in Seq(Nat) /\ Len(g) = o + l
      /\ \A i \in 1..(o + l) : g[i] = IF i <= o THEN h[i] ELSE f[i - o]
  BY <1>0, ConcatProperties
<1>3. e \in Seq(Nat) /\ Len(e) = 2 /\ e[1] = 0 /\ e[2] = 0
  OBVIOUS
<1> HIDE DEF g, e
<1>4. /\ g \o e \in Seq(Nat) /\ Len(g \o e) = Len(g) + Len(e)
      /\ \A i \in 1..(Len(g) + Len(e)) : (g \o e)[i] = IF i <= Len(g) THEN g[i] ELSE e[i - Len(g)]
  <2>1. g \in Seq(Nat) /\ e \in Seq(Nat)
    BY <1>2, <1>3
  <2> QED BY <2>1, ConcatProperties
<1>5. b = g \o e
  BY <1>0
<1>6. /\ b \in Seq(Nat) /\ Len(b) = o + l + 2
      /\ \A i \in 1..(o + l + 2) : b[i] = IF i <= o + l THEN g[i] ELSE e[i - (o + l)]
  <2>1. Len(g) + Len(e) = o + l + 2
    BY <1>2, <1>3
  <2> QED BY <2>1, <1>2, <1>4, <1>5
<1> HIDE DEF o, l
<1>7. ASSUME NEW m \in 1..l PROVE b[o + m] = f[m]
  <2>1. o + m \in 1..(o + l) /\ o + m \in 1..(o + l + 2) /\ o + m <= o + l /\ ~(o + m <= o)
        /\ (o + m) - o = m
    BY <1>1
  <2> QED BY <2>1, <1>2, <1>6
<1>8. \A i \in 1..o : b[i] = h[i]
  <2>1. \A i \in 1..o : i \in 1..(o + l) /\ i \in 1..(o + l + 2) /\ i <= o + l /\ i <= o
    BY <1>1
  <2> QED BY <2>1, <1>2, <1>6
<1>9. b[o + l + 1] = 0 /\ b[o + l + 2] = 0
  <2>1. o + l + 1 \in 1..(o + l + 2) /\ ~(o + l + 1 <= o + l) /\ (o + l + 1) - (o + l) = 1
        /\ o + l + 2 \in 1..(o + l + 2) /\ ~(o + l + 2 <= o + l) /\ (o + l + 2) - (o + l) = 2
    BY <1>1
  <2> QED BY <2>1, <1>3, <1>6
<1>10. Holds(b, o, f)
  <2>1. o + Len(f) + 2 <= Len(b)
    BY <1>1, <1>6 DEF l
  <2>2. \A m \in 1..Len(f) : b[o + m] = f[m]
    BY <1>7 DEF l
  <2> QED BY <2>1, <2>2, <1>0, <1>1, <1>6 DEF Holds
<1> QED BY <1>2, <1>6, <1>8, <1>9, <1>10 DEF o, l, g

(* The strings of a CONNECT or an UNSUBSCRIBE, and those of a SUBSCRIBE.   *)
LEMMA StrsAreParts ==
  ASSUME NEW lens \in Seq(Nat), lens # <<>>, NEW q
  PROVE  Parts([i \in DOMAIN lens |-> Str(lens[i])], lens, 0, q)
<1> DEFINE p == [i \in DOMAIN lens |-> Str(lens[i])]
<1>1. ASSUME NEW i \in DOMAIN lens
      PROVE  p[i] \in Seq(Nat) /\ Len(p[i]) = 2 + lens[i] /\ StringAt(p[i], 1, lens[i])
  <2>1. lens[i] \in Nat
    BY <1>1
  <2> DEFINE n == lens[i]
             s == Str(n)
  <2>2. n \in Nat /\ p[i] = s
    BY <2>1
  <2> HIDE DEF n, p
  <2>3. /\ s \in Seq(Nat) /\ Len(s) = 2 + n
        /\ s[1] = n \div (2 * Base) /\ s[2] = n % (2 * Base)
        /\ \A m \in 1..n : s[2 + m] = 1
    BY <2>2, StrIs
  <2> HIDE DEF s
  <2>4. StringAt(s, 1, n)
    <3>1. s[1 + 1] = n % (2 * Base) /\ \A m \in 1..n : s[1 + 1 + m] = 1
      BY <2>3
    <3> QED BY <3>1, <2>3 DEF StringAt
  <2> QED BY <2>2, <2>3, <2>4 DEF n
<1>2. p \in Seq(Seq(Nat)) /\ Len(p) = Len(lens) /\ DOMAIN lens = 1..Len(lens)
  <2>1. \A i \in 1..Len(lens) : p[i] \in Seq(Nat)
    BY <1>1
  <2>2. DOMAIN lens = 1..Len(lens) /\ Len(lens) \in Nat
    OBVIOUS
  <2>3. p = [i \in 1..Len(lens) |-> p[i]]
    BY <2>2
  <2> HIDE DEF p
  <2> QED BY <2>1, <2>2, <2>3
<1>3. p # <<>>
  <2>1. Len(lens) # 0
    BY EmptySeq
  <2> HIDE DEF p
  <2> QED BY <2>1, <1>2
<1> HIDE DEF p
<1>4. \A i \in 1..Len(p) : /\ Len(p[i]) = 2 + lens[i] + 0
                           /\ StringAt(p[i], 1, lens[i])
  <2> SUFFICES ASSUME NEW i \in 1..Len(p)
               PROVE  Len(p[i]) = 2 + lens[i] + 0 /\ StringAt(p[i], 1, lens[i])
    OBVIOUS
  <2>1. i \in DOMAIN lens /\ i \in 1..Len(lens)
    BY <1>2
  <2>2. Len(p[i]) = 2 + lens[i] /\ StringAt(p[i], 1, lens[i])
    BY <2>1, <1>1
  <2>3. lens[i] \in Nat
    BY <2>1
  <2> QED BY <2>2, <2>3
<1>5. Parts(p, lens, 0, q)
  BY <1>2, <1>3, <1>4 DEF Parts
<1> QED BY <1>5 DEF p

(* The same of the filters of a SUBSCRIBE, each with its quality of        *)
(* service behind it.                                                      *)
LEMMA FiltersAreParts ==
  ASSUME NEW fs \in Seq(Nat \X Nat), fs # <<>>
  PROVE  Parts([i \in DOMAIN fs |-> Str(fs[i][1]) \o <<fs[i][2]>>],
               [i \in DOMAIN fs |-> fs[i][1]], 1, [i \in DOMAIN fs |-> fs[i][2]])
<1> DEFINE p == [i \in DOMAIN fs |-> Str(fs[i][1]) \o <<fs[i][2]>>]
           lens == [i \in DOMAIN fs |-> fs[i][1]]
           q == [i \in DOMAIN fs |-> fs[i][2]]
<1>1. ASSUME NEW i \in DOMAIN fs
      PROVE  /\ p[i] \in Seq(Nat) /\ Len(p[i]) = 2 + lens[i] + 1
             /\ StringAt(p[i], 1, lens[i]) /\ p[i][3 + lens[i]] = q[i]
             /\ lens[i] \in Nat
  <2>1. fs[i] \in Nat \X Nat
    OBVIOUS
  <2> DEFINE n == fs[i][1]
             x == fs[i][2]
             s == Str(n)
             t == <<x>>
  <2>2. n \in Nat /\ x \in Nat /\ p[i] = s \o t /\ lens[i] = n /\ q[i] = x
    BY <2>1
  <2> HIDE DEF n, x, p, lens, q
  <2>3. /\ s \in Seq(Nat) /\ Len(s) = 2 + n
        /\ s[1] = n \div (2 * Base) /\ s[2] = n % (2 * Base)
        /\ \A m \in 1..n : s[2 + m] = 1
    BY <2>2, StrIs
  <2>4. t \in Seq(Nat) /\ Len(t) = 1 /\ t[1] = x
    BY <2>2
  <2> HIDE DEF s, t
  <2> DEFINE u == s \o t
  <2>5. /\ u \in Seq(Nat) /\ Len(u) = Len(s) + Len(t)
        /\ \A j \in 1..(Len(s) + Len(t)) : u[j] = IF j <= Len(s) THEN s[j] ELSE t[j - Len(s)]
    BY <2>3, <2>4, ConcatProperties
  <2> HIDE DEF u
  <2>6. /\ u \in Seq(Nat) /\ Len(u) = 2 + n + 1
        /\ \A j \in 1..(2 + n + 1) : u[j] = IF j <= 2 + n THEN s[j] ELSE t[j - (2 + n)]
    BY <2>3, <2>4, <2>5
  <2>7. \A j \in 1..(2 + n) : u[j] = s[j]
    <3>1. \A j \in 1..(2 + n) : j \in 1..(2 + n + 1) /\ j <= 2 + n
      BY <2>2
    <3> QED BY <3>1, <2>6
  <2>8. u[3 + n] = x
    <3>1. 3 + n \in 1..(2 + n + 1) /\ ~(3 + n <= 2 + n) /\ (3 + n) - (2 + n) = 1
      BY <2>2
    <3> QED BY <3>1, <2>4, <2>6
  <2>9. StringAt(u, 1, n)
    <3>1. 1 \in 1..(2 + n) /\ 2 \in 1..(2 + n) /\ \A m \in 1..n : 2 + m \in 1..(2 + n)
      BY <2>2
    <3>2. u[1] = n \div (2 * Base) /\ u[2] = n % (2 * Base)
      BY <3>1, <2>3, <2>7
    <3>3. \A m \in 1..n : u[2 + m] = 1
      BY <3>1, <2>3, <2>7
    <3>4. u[1 + 1] = n % (2 * Base) /\ \A m \in 1..n : u[1 + 1 + m] = 1
      BY <3>2, <3>3
    <3> QED BY <3>2, <3>4 DEF StringAt
  <2>10. p[i] = u
    BY <2>2 DEF u
  <2> QED BY <2>2, <2>6, <2>8, <2>9, <2>10
<1>2. /\ p \in Seq(Seq(Nat)) /\ Len(p) = Len(fs) /\ DOMAIN fs = 1..Len(fs)
      /\ lens \in Seq(Nat) /\ Len(lens) = Len(fs) /\ Len(fs) \in Nat
  <2>1. DOMAIN fs = 1..Len(fs) /\ Len(fs) \in Nat
    OBVIOUS
  <2>2. \A i \in 1..Len(fs) : p[i] \in Seq(Nat) /\ lens[i] \in Nat
    BY <1>1, <2>1
  <2>3. p = [i \in 1..Len(fs) |-> p[i]] /\ lens = [i \in 1..Len(fs) |-> lens[i]]
    BY <2>1
  <2> HIDE DEF p, lens
  <2> QED BY <2>1, <2>2, <2>3
<1>3. p # <<>>
  <2>1. Len(fs) # 0
    BY EmptySeq
  <2> HIDE DEF p, lens
  <2> QED BY <2>1, <1>2
<1> HIDE DEF p, lens, q
<1>4. \A i \in 1..Len(p) : /\ Len(p[i]) = 2 + lens[i] + 1
                           /\ StringAt(p[i], 1, lens[i])
                           /\ p[i][3 + lens[i]] = q[i]
  BY <1>1, <1>2
<1>5. Parts(p, lens, 1, q)
  BY <1>2, <1>3, <1>4 DEF Parts
<1> QED BY <1>5 DEF p, lens, q

(* Strings that are not empty take at least three bytes each.              *)
LEMMA ThreeEach ==
  ASSUME NEW b, NEW at, NEW lens, NEW gap, NEW q, Lying(b, at, lens, gap, q),
         \A i \in 1..Len(lens) : lens[i] >= 1
  PROVE  at[Len(lens) + 1] >= at[1] + 3 * Len(lens)
<1> DEFINE n == Len(lens)
           S == {m \in 0..n : at[m + 1] >= at[1] + 3 * m}
<1>1. n \in Nat /\ gap \in Nat /\ at \in [1..(n + 1) -> Nat]
  BY DEF Lying, LaidOut
<1>2. 0 \in S
  <2>1. 1 \in 1..(n + 1)
    BY <1>1
  <2>2. at[1] \in Nat
    BY <2>1, <1>1
  <2> QED BY <2>2, <1>1
<1>3. ASSUME NEW m \in 0..n, m > 0, m - 1 \in S PROVE m \in S
  <2>1. m \in 1..n /\ (m - 1) + 1 = m
    BY <1>3
  <2>2. at[m] >= at[1] + 3 * (m - 1)
    BY <1>3, <2>1
  <2>3. at[m] \in Nat /\ lens[m] \in Nat /\ at[m + 1] = at[m] + 2 + lens[m] + gap /\ lens[m] >= 1
    BY <2>1, LyingIs
  <2>4. at[1] \in Nat /\ 1 \in 1..(n + 1)
    BY <1>1
  <2> DEFINE x == at[m]
             l == lens[m]
             f == at[1]
             e == at[m + 1]
  <2>5. x \in Nat /\ l \in Nat /\ f \in Nat /\ e = x + 2 + l + gap /\ l >= 1 /\ x >= f + 3 * (m - 1)
    BY <2>2, <2>3, <2>4
  <2> HIDE DEF x, l, f, e
  <2>6. e >= f + 3 * m
    BY <2>1, <2>5, <1>1
  <2> QED BY <2>6 DEF e, f
<1> HIDE DEF S
<1>4. \A m \in 0..n : m \in S
  BY <1>1, <1>2, <1>3, UpTo
<1>5. n \in S
  BY <1>1, <1>4
<1> QED BY <1>5 DEF S

(* All together.  The reading ends where the strings do.                   *)
Ends(b, at, lens, k, limit) ==
  \/ k = Len(lens)
  \/ limit > 0 /\ b[at[Len(lens) + 1]] = 0 /\ b[at[Len(lens) + 1] + 1] = 0

AllPlainIn(lens) == \A i \in 1..Len(lens) : lens[i] \in 1..(Base - 1)

Alike(lens, gap, q, limit, s) ==
  /\ AllPlainIn(lens) => s.status = "read"
  /\ AllPlainIn(lens) <=> s.status = "read" /\ s.texts = TextsTo(Len(lens), lens, gap, q)
  /\ limit = 0 =>
       \A i \in 1..Len(lens) :
         lens[i] = 0 /\ (\A j \in 1..(i - 1) : lens[j] \in 1..(Base - 1)) => s.status = "crash"

(* Strings that lie in a buffer are read as they were sent exactly when    *)
(* all of them are plain.                                                  *)
LEMMA ReadAlike ==
  ASSUME NEW b, NEW at, NEW lens, NEW gap, NEW q, NEW start, NEW k, NEW limit,
         Calls(b, at, lens, gap, q, start, k, limit), Ends(b, at, lens, k, limit),
         Len(lens) > 0, limit = 0 \/ \A i \in 1..Len(lens) : lens[i] # 0
  PROVE  Alike(lens, gap, q, limit, Strings(b, start, k, gap, limit))
<1> DEFINE s == Strings(b, start, k, gap, limit)
           all == TextsTo(Len(lens), lens, gap, q)
<1>1. ASSUME AllPlainIn(lens) PROVE s.status = "read" /\ s.texts = all
  <2>1. s = [status |-> "read", at |-> at[Len(lens) + 1], texts |-> all]
    BY <1>1, AllPlain DEF AllPlainIn, Ends
  <2> HIDE DEF s, all
  <2> QED BY <2>1
<1>2. ASSUME NEW i \in 1..Len(lens), lens[i] = 0, limit = 0,
             \A j \in 1..(i - 1) : lens[j] \in 1..(Base - 1)
      PROVE  s.status = "crash"
  BY <1>2, Spoilt
<1>3. ASSUME ~AllPlainIn(lens) PROVE ~(s.status = "read" /\ s.texts = all)
  <2> DEFINE I == {i \in 1..Len(lens) : lens[i] \notin 1..(Base - 1)}
  <2>1. I \subseteq Nat /\ I # {}
    BY <1>3 DEF AllPlainIn
  <2>2. PICK i \in I : \A j \in I : i <= j
    <3> HIDE DEF I
    <3> QED BY <2>1, LeastNumber
  <2>3. lens \in Seq(Nat)
    BY DEF Calls, Lying
  <2>4. i \in 1..Len(lens) /\ lens[i] \in Nat /\ lens[i] \notin 1..(Base - 1)
    BY <2>2, <2>3
  <2>5. \A j \in 1..(i - 1) : lens[j] \in 1..(Base - 1)
    <3>1. ASSUME NEW j \in 1..(i - 1), lens[j] \notin 1..(Base - 1) PROVE FALSE
      <4>1. j \in 1..Len(lens) /\ ~(i <= j)
        BY <2>4, <2>3
      <4>2. j \in I
        BY <4>1, <3>1
      <4> QED BY <4>1, <4>2, <2>2
    <3> QED BY <3>1
  <2> HIDE DEF I
  <2>6. CASE lens[i] = 0
    <3>1. limit = 0
      BY <2>4, <2>6
    <3>2. s.status = "crash"
      BY <3>1, <2>4, <2>5, <2>6, <1>2
    <3> QED BY <3>2
  <2>7. CASE lens[i] # 0
    <3>1. lens[i] >= Base
      BY <2>4, <2>7, BaseAssumption
    <3>2. s.texts # all
      BY <3>1, <2>4, <2>5, Spoilt
    <3> QED BY <3>2
  <2> QED BY <2>6, <2>7
<1> HIDE DEF s, all
<1>4. Alike(lens, gap, q, limit, s)
  BY <1>1, <1>2, <1>3 DEF Alike, all
<1> QED BY <1>4 DEF s

(* The packets the peers send hold numbers only, and no list is empty.     *)
LEMMA LegalPackets ==
  /\ \A fields \in ConnectFields : fields \in Seq(Nat) /\ fields # <<>> /\ Len(fields) > 0
  /\ \A filters \in Filters :
       /\ filters \in Seq(Nat \X Nat) /\ filters # <<>> /\ Len(filters) > 0
       /\ \A i \in 1..Len(filters) : filters[i] \in FilterLens \X QoS /\ filters[i][1] >= 1
  /\ \A topic \in Topics : topic \in Nat \ {0}
  /\ \A payload \in Payloads : payload \in Seq(Nat)
<1>1. PeerLen \subseteq Nat
  BY BaseAssumption DEF PeerLen
<1>2. ASSUME NEW fields \in ConnectFields
      PROVE  fields \in Seq(Nat) /\ fields # <<>> /\ Len(fields) > 0
  <2>1. fields \in Seq(PeerLen) /\ fields # <<>>
    BY WireAssumption
  <2>2. fields \in Seq(Nat)
    <3>1. fields \in [1..Len(fields) -> PeerLen] /\ Len(fields) \in Nat
      BY <2>1
    <3>2. \A i \in 1..Len(fields) : fields[i] \in Nat
      BY <3>1, <1>1
    <3>3. fields = [i \in 1..Len(fields) |-> fields[i]]
      BY <3>1
    <3> QED BY <3>1, <3>2, <3>3
  <2>3. Len(fields) # 0 /\ Len(fields) \in Nat
    BY <2>1, EmptySeq
  <2> QED BY <2>1, <2>2, <2>3
<1>3. \A n \in FilterLens \cup Topics : n \in Nat \ {0}
  BY <1>1, WireAssumption
<1>4. ASSUME NEW filters \in Filters
      PROVE  /\ filters \in Seq(Nat \X Nat) /\ filters # <<>> /\ Len(filters) > 0
             /\ \A i \in 1..Len(filters) : filters[i] \in FilterLens \X QoS /\ filters[i][1] >= 1
  <2>1. PICK n \in 1..MaxFilters : filters \in [1..n -> FilterLens \X QoS]
    BY DEF Filters
  <2>2. n \in Nat \ {0}
    BY WireAssumption
  <2>3. \A i \in 1..n : filters[i] \in FilterLens \X QoS
    BY <2>1
  <2>4. \A i \in 1..n : filters[i] \in Nat \X Nat /\ filters[i][1] >= 1
    <3>1. ASSUME NEW x \in FilterLens \X QoS PROVE x \in Nat \X Nat /\ x[1] >= 1
      <4>1. x[1] \in FilterLens /\ x[2] \in QoS /\ x = <<x[1], x[2]>>
        OBVIOUS
      <4>2. x[1] \in Nat \ {0}
        BY <4>1, <1>3
      <4>3. x[2] \in Nat
        BY <4>1 DEF QoS
      <4> QED BY <4>1, <4>2, <4>3
    <3> QED BY <3>1, <2>3
  <2>5. filters = [i \in 1..n |-> filters[i]]
    BY <2>1
  <2>6. filters \in Seq(Nat \X Nat) /\ Len(filters) = n
    BY <2>2, <2>4, <2>5
  <2>7. filters # <<>>
    BY <2>2, <2>6
  <2> QED BY <2>2, <2>3, <2>4, <2>6, <2>7
<1>5. ASSUME NEW payload \in Payloads PROVE payload \in Seq(Nat)
  <2> DEFINE bytes == 0..(2 * Base - 1)
  <2>1. payload \in Seq(bytes)
    BY WireAssumption
  <2>a. bytes \subseteq Nat
    BY BaseAssumption
  <2> HIDE DEF bytes
  <2>2. payload \in [1..Len(payload) -> bytes] /\ Len(payload) \in Nat
    BY <2>1
  <2>3. \A i \in 1..Len(payload) : payload[i] \in Nat
    BY <2>2, <2>a
  <2>4. payload = [i \in 1..Len(payload) |-> payload[i]]
    BY <2>2
  <2> QED BY <2>2, <2>3, <2>4
<1> QED BY <1>2, <1>3, <1>4, <1>5

(* Where the strings of each packet lie in what is decoded.                *)
LEMMA ConnectLies ==
  ASSUME NEW p, p.kind = "connect", p.fields \in ConnectFields
  PROVE  \E at : /\ Calls(Buffer(p), at, p.fields, 0, <<>>, 1, Len(p.fields), 0)
                 /\ at[1] = 1
<1> DEFINE lens == p.fields
           b == Buffer(p)
           f == Strs(lens)
           parts == [i \in DOMAIN lens |-> Str(lens[i])]
<1>1. lens \in Seq(Nat) /\ lens # <<>> /\ Len(lens) \in Nat
  BY LegalPackets
<1>2. b = f \o <<0, 0>>
  BY DEF Buffer, Body
<1>3. f = FlattenSeq(parts)
  BY DEF Strs
<1>4. Parts(parts, lens, 0, <<>>)
  BY <1>1, StrsAreParts
<1>5. f \in Seq(Nat)
  BY <1>3, <1>4, Flattened DEF Parts
<1> HIDE DEF lens, b, f, parts
<1>6. Holds(b, 0, f)
  <2>1. <<>> \in Seq(Nat) /\ Len(<<>>) = 0 /\ <<>> \o f = f
    BY <1>5
  <2>2. b = (<<>> \o f) \o <<0, 0>>
    BY <1>2, <2>1
  <2>3. Copied(<<>>, f, b)
    BY <1>5, <2>1, <2>2 DEF Copied
  <2>4. Holds(b, Len(<<>>), f)
    BY <2>3, Behind
  <2> QED BY <2>1, <2>4
<1>7. PICK at : LaidOut(b, at, lens, 0, <<>>) /\ at[1] = 0 + 1
  BY <1>3, <1>4, <1>6, PartsLaidOut
<1>8. b \in Seq(Nat)
  BY <1>6 DEF Holds
<1>9. Calls(b, at, lens, 0, <<>>, 1, Len(lens), 0) /\ at[1] = 1
  BY <1>1, <1>7, <1>8 DEF Calls, Lying, Room
<1> QED BY <1>9 DEF b, lens

(* Behind a packet identifier.                                             *)
Listed(parts, lens, gap, q, body, b) ==
  /\ Parts(parts, lens, gap, q)
  /\ \A i \in 1..Len(lens) : lens[i] >= 1
  /\ body = Identifier \o FlattenSeq(parts)
  /\ b = body \o <<0, 0>>

(* The filters of a SUBSCRIBE or UNSUBSCRIBE lie in the buffer from its    *)
(* third byte to the two zero bytes.                                       *)
LEMMA ListLies ==
  ASSUME NEW parts, NEW lens, NEW gap, NEW q, NEW body, NEW b,
         Listed(parts, lens, gap, q, body, b)
  PROVE  /\ Len(lens) > 0
         /\ Len(body) \in Nat /\ Len(body) >= 3 * Len(lens) + 2
         /\ b \in Seq(Nat)
         /\ SubSeq(b, 1, 2) = Identifier
         /\ \E at : /\ Lying(b, at, lens, gap, q)
                    /\ at[1] = 3
                    /\ at[Len(lens) + 1] = Len(body) + 1
                    /\ b[Len(body) + 1] = 0 /\ b[Len(body) + 2] = 0
<1> DEFINE f == FlattenSeq(parts)
           n == Len(lens)
<1>0. Parts(parts, lens, gap, q) /\ body = Identifier \o f /\ b = body \o <<0, 0>>
  BY DEF Listed
<1>1. lens \in Seq(Nat) /\ n \in Nat /\ n > 0 /\ gap \in 0..1
  <2>1. lens \in Seq(Nat) /\ Len(lens) = Len(parts) /\ parts # <<>> /\ parts \in Seq(Seq(Nat))
        /\ gap \in 0..1
    BY <1>0 DEF Parts
  <2>2. Len(parts) # 0
    BY <2>1, EmptySeq
  <2> QED BY <2>1, <2>2
<1>2. f \in Seq(Nat) /\ Len(f) \in Nat
  <2>1. parts \in Seq(Seq(Nat)) /\ parts # <<>>
    BY <1>0 DEF Parts
  <2> QED BY <2>1, Flattened
<1>3. Identifier \in Seq(Nat) /\ Len(Identifier) = 2 /\ Identifier[1] = 2 /\ Identifier[2] = 3
  BY DEF Identifier
<1> HIDE DEF f, n
<1>4. b = (Identifier \o f) \o <<0, 0>> /\ body = Identifier \o f
  BY <1>0
<1>5. /\ Holds(b, 2, f) /\ Len(body) = 2 + Len(f) /\ Len(b) = 2 + Len(f) + 2
      /\ b[2 + Len(f) + 1] = 0 /\ b[2 + Len(f) + 2] = 0
      /\ \A i \in 1..2 : b[i] = Identifier[i]
  <2> DEFINE h == Identifier
  <2>0. Copied(h, f, b)
    BY <1>2, <1>3, <1>4 DEF Copied
  <2>1. Len(h) = 2 /\ body = h \o f
    BY <1>2, <1>3, <1>4
  <2> HIDE DEF h
  <2>2. /\ Holds(b, Len(h), f) /\ Len(h \o f) = Len(h) + Len(f) /\ Len(b) = Len(h) + Len(f) + 2
        /\ b[Len(h) + Len(f) + 1] = 0 /\ b[Len(h) + Len(f) + 2] = 0
        /\ \A i \in 1..Len(h) : b[i] = h[i]
    BY <2>0, Behind
  <2> QED BY <2>1, <2>2 DEF h
<1>6. b \in Seq(Nat)
  BY <1>5 DEF Holds
<1>7. PICK at : /\ LaidOut(b, at, lens, gap, q)
                /\ at[1] = 2 + 1
                /\ at[n + 1] = 2 + Len(f) + 1
  <2>1. Holds(b, 2, FlattenSeq(parts))
    BY <1>5 DEF f
  <2>2. \E at : /\ LaidOut(b, at, lens, gap, q)
                /\ at[1] = 2 + 1
                /\ at[Len(lens) + 1] = 2 + Len(FlattenSeq(parts)) + 1
    BY <2>1, <1>0, PartsLaidOut
  <2> QED BY <2>2 DEF f, n
<1>8. Lying(b, at, lens, gap, q)
  BY <1>1, <1>6, <1>7 DEF Lying
<1>9. at[n + 1] >= at[1] + 3 * n
  <2>1. \A i \in 1..Len(lens) : lens[i] >= 1
    BY DEF Listed
  <2> QED BY <2>1, <1>8, ThreeEach DEF n
<1>10. Len(body) \in Nat /\ Len(body) >= 3 * n + 2 /\ at[1] = 3 /\ at[n + 1] = Len(body) + 1
  BY <1>1, <1>2, <1>5, <1>7, <1>9
<1>11. SubSeq(b, 1, 2) = Identifier
  <2>0. Len(b) \in Nat /\ Len(b) >= 2
    BY <1>2, <1>5
  <2>1. b[1] \in Nat /\ b[2] \in Nat
    BY <2>0, <1>6
  <2>2. /\ SubSeq(b, 1, 2) \in Seq(Nat) /\ Len(SubSeq(b, 1, 2)) = 2
        /\ \A i \in 1..2 : SubSeq(b, 1, 2)[i] = b[1 + i - 1]
    <3>1. \A i \in 1..2 : b[i] \in Nat
      BY <2>1
    <3>2. /\ SubSeq(b, 1, 2) \in Seq(Nat)
          /\ Len(SubSeq(b, 1, 2)) = IF 1 <= 2 THEN 2 - 1 + 1 ELSE 0
          /\ \A i \in 1..(2 - 1 + 1) : SubSeq(b, 1, 2)[i] = b[1 + i - 1]
      BY <3>1, SubSeqProperties
    <3> QED BY <3>2
  <2>3. \A i \in 1..2 : SubSeq(b, 1, 2)[i] = Identifier[i]
    <3>1. \A i \in 1..2 : 1 + i - 1 = i
      OBVIOUS
    <3> QED BY <3>1, <2>2, <1>5
  <2> QED BY <2>2, <2>3, <1>3, SeqEqual
<1>12. b[Len(body) + 1] = 0 /\ b[Len(body) + 2] = 0
  BY <1>5
<1> QED BY <1>1, <1>6, <1>8, <1>10, <1>11, <1>12 DEF n

(* What is asked for reaches to the end.                                   *)
LEMMA AsksEnough ==
  ASSUME NEW len \in Nat, NEW n \in Nat, n > 0, len >= 3 * n + 2
  PROVE  /\ len \div 3 \in Nat /\ n <= len \div 3
         /\ len \div 2 \in Nat /\ n <= len \div 2
         /\ len - 2 \in Nat /\ len - 2 > 0
         /\ 2 * len + 2 * Base \in Nat /\ 2 * len + 2 * Base > 0
         /\ (len + 1) - 3 <= len - 2
         /\ (len + 1) - 3 <= 2 * len + 2 * Base
<1>1. len \div 3 \in Nat /\ n <= len \div 3 /\ len \div 2 \in Nat /\ n <= len \div 2
  OBVIOUS
<1>2. len - 2 \in Nat /\ len - 2 > 0 /\ (len + 1) - 3 <= len - 2
  OBVIOUS
<1>3. 2 * len + 2 * Base \in Nat /\ 2 * len + 2 * Base > 0 /\ (len + 1) - 3 <= 2 * len + 2 * Base
  BY BaseAssumption
<1> QED BY <1>1, <1>2, <1>3

(* Both calls of hex_to_string, with the count and the limit each passes,  *)
(* read such a list alike.                                                 *)
LEMMA ListCalls ==
  ASSUME NEW parts, NEW lens, NEW gap, NEW q, NEW body, NEW b,
         Listed(parts, lens, gap, q, body, b),
         NEW k, NEW limit,
         \/ k = Len(body) \div 3 /\ limit = 2 * Len(body) + 2 * Base
         \/ k = Len(body) \div 2 /\ limit = Len(body) - 2
  PROVE  /\ Alike(lens, gap, q, limit, Strings(b, 3, k, gap, limit))
         /\ limit > 0
<1> DEFINE n == Len(lens)
           len == Len(body)
<1>1. PICK at : /\ Lying(b, at, lens, gap, q)
                /\ at[1] = 3
                /\ at[n + 1] = len + 1
                /\ b[len + 1] = 0 /\ b[len + 2] = 0
  <2>1. \E at : /\ Lying(b, at, lens, gap, q)
                /\ at[1] = 3
                /\ at[Len(lens) + 1] = Len(body) + 1
                /\ b[Len(body) + 1] = 0 /\ b[Len(body) + 2] = 0
    BY ListLies
  <2> QED BY <2>1
<1>2. n > 0 /\ len \in Nat /\ len >= 3 * n + 2 /\ b \in Seq(Nat)
  BY ListLies
<1>3. n \in Nat
  BY DEF Listed, Parts
<1> HIDE DEF n, len
<1>4. k \in Nat /\ n <= k /\ limit \in Nat /\ limit > 0 /\ at[n + 1] - 3 <= limit
  <2>1. /\ len \div 3 \in Nat /\ n <= len \div 3
        /\ len \div 2 \in Nat /\ n <= len \div 2
        /\ len - 2 \in Nat /\ len - 2 > 0
        /\ 2 * len + 2 * Base \in Nat /\ 2 * len + 2 * Base > 0
        /\ (len + 1) - 3 <= len - 2
        /\ (len + 1) - 3 <= 2 * len + 2 * Base
    BY <1>2, <1>3, AsksEnough
  <2>2. \/ k = len \div 3 /\ limit = 2 * len + 2 * Base
        \/ k = len \div 2 /\ limit = len - 2
    BY DEF len
  <2>3. at[n + 1] - 3 = (len + 1) - 3
    BY <1>1
  <2> QED BY <2>1, <2>2, <2>3
<1>5. Calls(b, at, lens, gap, q, 3, k, limit)
  BY <1>1, <1>4 DEF Calls, Room, n
<1>6. Ends(b, at, lens, k, limit)
  <2>1. at[n + 1] + 1 = len + 2
    BY <1>1, <1>2
  <2> QED BY <2>1, <1>1, <1>4 DEF Ends, n
<1>7. \A i \in 1..n : lens[i] # 0
  <2>1. \A i \in 1..n : lens[i] >= 1
    BY DEF n, Listed
  <2> QED BY <2>1
<1>8. Alike(lens, gap, q, limit, Strings(b, 3, k, gap, limit))
  BY <1>2, <1>5, <1>6, <1>7, ReadAlike DEF n
<1> QED BY <1>4, <1>8

(* What the broker makes of the strings of each packet.                    *)
LEMMA ConnectAlike ==
  ASSUME NEW p, p.kind = "connect", p.fields \in ConnectFields
  PROVE  /\ Alike(p.fields, 0, <<>>, 0, Strings(Buffer(p), 1, Len(p.fields), 0, 0))
         /\ LenAt(Buffer(p), 1) \in Nat
         /\ p.fields[1] < Base => LenAt(Buffer(p), 1) = p.fields[1]
<1> DEFINE lens == p.fields
           b == Buffer(p)
<1>1. PICK at : Calls(b, at, lens, 0, <<>>, 1, Len(lens), 0) /\ at[1] = 1
  BY ConnectLies
<1>2. Len(lens) > 0
  BY LegalPackets
<1> HIDE DEF lens, b
<1>3. Alike(lens, 0, <<>>, 0, Strings(b, 1, Len(lens), 0, 0))
  BY <1>1, <1>2, ReadAlike DEF Ends
<1>4. Lying(b, at, lens, 0, <<>>) /\ Len(lens) \in Nat
  BY <1>1 DEF Calls, Lying
<1>5. 1 \in 1..Len(lens)
  BY <1>2, <1>4
<1>6. LenAt(b, at[1]) \in Nat /\ (lens[1] < Base => LenAt(b, at[1]) = lens[1])
  BY <1>4, <1>5, LenThere
<1> QED BY <1>1, <1>3, <1>6 DEF lens, b

(* What is made of the filters of a SUBSCRIBE.                             *)
LEMMA SubscribeAlike ==
  ASSUME NEW p, p.kind = "subscribe", p.filters \in Filters
  PROVE  /\ \E limit : /\ limit > 0
                       /\ Alike(Lens(p), 1, [i \in DOMAIN p.filters |-> p.filters[i][2]], limit,
                                SubscribePacketCreate(p))
         /\ Len(Lens(p)) = Len(p.filters) /\ DOMAIN Lens(p) = 1..Len(p.filters)
         /\ DOMAIN p.filters = 1..Len(p.filters) /\ Len(p.filters) \in Nat \ {0}
         /\ SubscribePacketCreate(p) \in Acc
<1> DEFINE fs == p.filters
           lens == [i \in DOMAIN fs |-> fs[i][1]]
           q == [i \in DOMAIN fs |-> fs[i][2]]
           parts == [i \in DOMAIN fs |-> Str(fs[i][1]) \o <<fs[i][2]>>]
           body == Body(p)
           b == Buffer(p)
           limit == 2 * Len(body) + 2 * Base
<1>1. fs \in Seq(Nat \X Nat) /\ fs # <<>> /\ Len(fs) > 0 /\ \A i \in 1..Len(fs) : fs[i][1] >= 1
  BY LegalPackets
<1>2. Lens(p) = lens
  BY DEF Lens
<1>3. body = Identifier \o FlattenSeq(parts) /\ b = body \o <<0, 0>>
  BY DEF Body, Buffer
<1>4. SubscribePacketCreate(p) = Strings(b, 3, Len(body) \div 3, 1, limit)
  BY DEF SubscribePacketCreate
<1>a. Len(lens) = Len(fs) /\ DOMAIN lens = 1..Len(fs) /\ DOMAIN fs = 1..Len(fs)
      /\ Len(fs) \in Nat \ {0}
  <2>1. DOMAIN fs = 1..Len(fs) /\ Len(fs) \in Nat
    BY <1>1
  <2> HIDE DEF fs
  <2> QED BY <2>1, <1>1
<1>5. Listed(parts, lens, 1, q, body, b)
  <2>1. Parts(parts, lens, 1, q)
    <3> HIDE DEF fs
    <3> QED BY <1>1, FiltersAreParts
  <2>2. \A i \in 1..Len(lens) : lens[i] >= 1
    <3> HIDE DEF fs
    <3> QED BY <1>1, <1>a
  <2> HIDE DEF fs, lens, q, parts, body, b
  <2> QED BY <2>1, <2>2, <1>3 DEF Listed
<1> HIDE DEF lens, q, parts, body, b, limit, fs
<1>6. Alike(lens, 1, q, limit, Strings(b, 3, Len(body) \div 3, 1, limit)) /\ limit > 0
  <2> DEFINE k == Len(body) \div 3
  <2>1. k = Len(body) \div 3 /\ limit = 2 * Len(body) + 2 * Base
    BY DEF limit
  <2> HIDE DEF k
  <2>2. Alike(lens, 1, q, limit, Strings(b, 3, k, 1, limit)) /\ limit > 0
    BY <2>1, <1>5, ListCalls
  <2> QED BY <2>2 DEF k
<1>7. \E l : l > 0 /\ Alike(Lens(p), 1, q, l, SubscribePacketCreate(p))
  BY <1>2, <1>4, <1>6
<1>8. SubscribePacketCreate(p) \in Acc
  <2>1. b \in Seq(Nat) /\ Len(body) \in Nat
    BY <1>5, ListLies
  <2>2. Len(body) \div 3 \in Nat /\ limit \in Nat
    BY <2>1, BaseAssumption DEF limit
  <2> DEFINE k == Len(body) \div 3
  <2>3. k \in Nat
    BY <2>2
  <2> HIDE DEF k
  <2>4. Strings(b, 3, k, 1, limit) \in Acc
    BY <2>1, <2>2, <2>3, StringsTyped
  <2> QED BY <2>4, <1>4 DEF k
<1> QED BY <1>2, <1>7, <1>8, <1>a DEF fs, q

(* What is made of the filters of an UNSUBSCRIBE.                          *)
LEMMA UnsubscribeAlike ==
  ASSUME NEW p, p.kind = "unsubscribe", p.filters \in Filters
  PROVE  /\ \E limit : /\ limit > 0
                       /\ Alike(Lens(p), 0, <<>>, limit, UnsubscribePacketCreate(p))
         /\ Len(Lens(p)) = Len(p.filters) /\ DOMAIN Lens(p) = 1..Len(p.filters)
<1> DEFINE fs == p.filters
           lens == [i \in DOMAIN fs |-> fs[i][1]]
           parts == [i \in DOMAIN lens |-> Str(lens[i])]
           body == Body(p)
           b == Buffer(p)
           limit == Len(body) - 2
<1>1. fs \in Seq(Nat \X Nat) /\ fs # <<>> /\ Len(fs) > 0 /\ \A i \in 1..Len(fs) : fs[i][1] >= 1
  BY LegalPackets
<1>2. Lens(p) = lens
  BY DEF Lens
<1>3. body = Identifier \o FlattenSeq(parts) /\ b = body \o <<0, 0>>
  BY DEF Body, Buffer, Strs
<1>4. UnsubscribePacketCreate(p) = Strings(b, 3, Len(body) \div 2, 0, limit)
  BY DEF UnsubscribePacketCreate
<1>a. Len(lens) = Len(fs) /\ DOMAIN lens = 1..Len(fs) /\ DOMAIN fs = 1..Len(fs)
      /\ lens \in Seq(Nat)
  <2>1. DOMAIN fs = 1..Len(fs) /\ Len(fs) \in Nat /\ \A i \in 1..Len(fs) : fs[i][1] \in Nat
    <3>1. \A i \in 1..Len(fs) : fs[i] \in Nat \X Nat
      BY <1>1
    <3> QED BY <3>1, <1>1
  <2> HIDE DEF fs
  <2> QED BY <2>1, <1>1
<1>5. Listed(parts, lens, 0, <<>>, body, b)
  <2>1. \A i \in 1..Len(lens) : lens[i] >= 1
    <3> HIDE DEF fs
    <3> QED BY <1>1, <1>a
  <2> HIDE DEF fs, lens
  <2>2. lens # <<>>
    <3>1. Len(lens) > 0
      BY <1>1, <1>a
    <3> QED BY <3>1
  <2>3. Parts(parts, lens, 0, <<>>)
    BY <1>a, <2>2, StrsAreParts
  <2> HIDE DEF parts, body, b
  <2> QED BY <2>1, <2>3, <1>3 DEF Listed
<1> HIDE DEF lens, parts, body, b, limit, fs
<1>6. Alike(lens, 0, <<>>, limit, Strings(b, 3, Len(body) \div 2, 0, limit)) /\ limit > 0
  <2> DEFINE k == Len(body) \div 2
  <2>1. k = Len(body) \div 2 /\ limit = Len(body) - 2
    BY DEF limit
  <2> HIDE DEF k
  <2>2. Alike(lens, 0, <<>>, limit, Strings(b, 3, k, 0, limit)) /\ limit > 0
    BY <2>1, <1>5, ListCalls
  <2> QED BY <2>2 DEF k
<1> QED BY <1>2, <1>4, <1>6, <1>a DEF fs

(* Plain in terms of indices.                                              *)
LEMMA PlainMeans ==
  ASSUME NEW p, DOMAIN Lens(p) = 1..Len(Lens(p))
  PROVE  Plain(p) <=> AllPlainIn(Lens(p))
  BY DEF Plain, AllPlainIn

(* What is returned for a CONNECT.                                         *)
LEMMA ConnectGot ==
  ASSUME NEW p, p.kind = "connect", p.fields \in ConnectFields,
         NEW g, g = ConnectPacketCreate(p)
  PROVE  /\ g.status # "version" =>
              (g.status = "read" /\ g.texts = SentTexts(p)
               <=> Plain(p) /\ p.fields[1] < ClientIdLimit)
         /\ g.status \in {"crash", "beyond"} => ~Plain(p)
         /\ \A i \in DOMAIN Lens(p) :
              /\ Lens(p)[i] = 0
              /\ \A j \in 1..(i - 1) : Lens(p)[j] \in 1..(Base - 1)
              /\ Lens(p)[1] < ClientIdLimit
              => g.status \in {"crash", "version"}
<1> DEFINE lens == p.fields
           b == Buffer(p)
           s == Strings(b, 1, Len(lens), 0, 0)
           l == LenAt(b, 1)
           n == Len(lens)
           all == [i \in DOMAIN lens |-> <<Fill(lens[i]), 0>>]
<1>1. /\ Alike(lens, 0, <<>>, 0, s) /\ l \in Nat
      /\ lens[1] < Base => l = lens[1]
  BY ConnectAlike
<1>2. /\ lens \in Seq(Nat) /\ Len(lens) > 0 /\ Lens(p) = lens
      /\ g = (IF p.level # 4 THEN [status |-> "version"]
              ELSE IF l >= ClientIdLimit THEN [status |-> "null"]
              ELSE s)
      /\ SentTexts(p) = all
  <2>1. lens \in Seq(Nat) /\ Len(lens) > 0
    BY LegalPackets
  <2>2. Lens(p) = lens
    BY DEF Lens
  <2>3. g = IF p.level # 4 THEN [status |-> "version"]
             ELSE IF l >= ClientIdLimit THEN [status |-> "null"]
             ELSE s
    BY DEF ConnectPacketCreate
  <2>4. SentTexts(p) = all
    BY <2>2 DEF SentTexts
  <2> QED BY <2>1, <2>2, <2>3, <2>4
<1> HIDE DEF lens, s, l, b
<1>3. DOMAIN lens = 1..n /\ n \in Nat /\ 1 \in 1..n /\ \A i \in 1..n : lens[i] \in Nat
  BY <1>2
<1>4. all = TextsTo(n, lens, 0, <<>>)
  BY <1>3 DEF TextsTo, TextOf
<1>5. Plain(p) <=> AllPlainIn(lens)
  BY <1>2, <1>3, PlainMeans
<1>6. AllPlainIn(lens) => l = lens[1]
  BY <1>1, <1>3, BaseAssumption DEF AllPlainIn
<1> HIDE DEF all, n
<1>7. ClientIdLimit \in Nat
  BY WireAssumption
<1>8. g.status # "version" =>
        (g.status = "read" /\ g.texts = all <=> AllPlainIn(lens) /\ lens[1] < ClientIdLimit)
  <2>1. s.status = "read" /\ s.texts = all <=> AllPlainIn(lens)
    BY <1>1, <1>4 DEF Alike, n
  <2>2. CASE p.level # 4
    BY <2>2, <1>2
  <2>3. CASE p.level = 4 /\ l >= ClientIdLimit
    <3>1. g.status = "null"
      BY <2>3, <1>2
    <3>2. ~(AllPlainIn(lens) /\ lens[1] < ClientIdLimit)
      BY <2>3, <1>1, <1>6, <1>7
    <3> QED BY <3>1, <3>2
  <2>4. CASE p.level = 4 /\ ~(l >= ClientIdLimit)
    <3>1. g = s
      BY <2>4, <1>2
    <3>2. AllPlainIn(lens) => lens[1] < ClientIdLimit
      BY <2>4, <1>1, <1>6, <1>7
    <3> QED BY <2>1, <3>1, <3>2
  <2> QED BY <2>2, <2>3, <2>4
<1>9. g.status \in {"crash", "beyond"} => ~AllPlainIn(lens)
  <2>1. AllPlainIn(lens) => s.status = "read"
    BY <1>1 DEF Alike
  <2> QED BY <2>1, <1>2
<1>10. ASSUME NEW i \in 1..n, lens[i] = 0, \A j \in 1..(i - 1) : lens[j] \in 1..(Base - 1),
              lens[1] < ClientIdLimit
       PROVE  g.status \in {"crash", "version"}
  <2>1. s.status = "crash"
    BY <1>1, <1>10 DEF Alike, n
  <2>2. lens[1] < Base
    <3>1. CASE i = 1
      BY <3>1, <1>10, BaseAssumption
    <3>2. CASE i # 1
      <4>1. 1 \in 1..(i - 1)
        BY <3>2, <1>3
      <4> QED BY <4>1, <1>10, BaseAssumption
    <3> QED BY <3>1, <3>2
  <2>3. ~(l >= ClientIdLimit)
    BY <2>2, <1>1, <1>7, <1>10
  <2> QED BY <2>1, <2>3, <1>2
<1>11. \A i \in DOMAIN lens :
         /\ lens[i] = 0
         /\ \A j \in 1..(i - 1) : lens[j] \in 1..(Base - 1)
         /\ lens[1] < ClientIdLimit
         => g.status \in {"crash", "version"}
  BY <1>3, <1>10
<1> QED BY <1>2, <1>5, <1>8, <1>9, <1>11 DEF lens, all

(* What is read of a SUBSCRIBE and of an UNSUBSCRIBE.                      *)
LEMMA ListGot ==
  ASSUME NEW p, p.kind \in {"subscribe", "unsubscribe"}, p.filters \in Filters,
         NEW g, g = IF p.kind = "subscribe" THEN SubscribePacketCreate(p)
                    ELSE UnsubscribePacketCreate(p)
  PROVE  /\ g.status = "read" /\ g.texts = SentTexts(p) <=> Plain(p)
         /\ g.status \in {"crash", "beyond"} => ~Plain(p)
         /\ \A i \in DOMAIN Lens(p) : Lens(p)[i] # 0
<1> DEFINE lens == Lens(p)
           n == Len(lens)
           all == [i \in DOMAIN Lens(p) |->
                     <<Fill(Lens(p)[i]),
                       IF p.kind = "subscribe" THEN p.filters[i][2] ELSE 0>>]
<1>1. DOMAIN lens = 1..Len(p.filters) /\ Len(lens) = Len(p.filters)
  <2>1. CASE p.kind = "subscribe"
    BY <2>1, SubscribeAlike
  <2>2. CASE p.kind = "unsubscribe"
    BY <2>2, UnsubscribeAlike
  <2> QED BY <2>1, <2>2
<1>2. PICK gap, q, limit : /\ Alike(lens, gap, q, limit, g)
                           /\ TextsTo(n, lens, gap, q) = all
  <2>1. CASE p.kind = "subscribe"
    <3> DEFINE q == [i \in DOMAIN p.filters |-> p.filters[i][2]]
    <3>1. DOMAIN p.filters = 1..Len(p.filters)
      BY <2>1, SubscribeAlike
    <3>2. PICK limit : Alike(lens, 1, q, limit, g)
      BY <2>1, SubscribeAlike
    <3>3. TextsTo(n, lens, 1, q) = all
      <4>1. \A i \in 1..n : q[i] = p.filters[i][2]
        BY <1>1, <3>1
      <4>2. TextsTo(n, lens, 1, q) = [i \in 1..n |-> <<Fill(lens[i]), q[i]>>]
        BY DEF TextsTo, TextOf
      <4>3. all = [i \in 1..n |-> <<Fill(lens[i]), p.filters[i][2]>>]
        BY <2>1, <1>1
      <4> HIDE DEF q, all, lens, n
      <4> QED BY <4>1, <4>2, <4>3
    <3> HIDE DEF q, all, lens, n
    <3> QED BY <3>2, <3>3
  <2>2. CASE p.kind = "unsubscribe"
    <3>1. PICK limit : Alike(lens, 0, <<>>, limit, g)
      BY <2>2, UnsubscribeAlike
    <3>2. TextsTo(n, lens, 0, <<>>) = all
      <4>1. TextsTo(n, lens, 0, <<>>) = [i \in 1..n |-> <<Fill(lens[i]), 0>>]
        BY DEF TextsTo, TextOf
      <4>2. all = [i \in 1..n |-> <<Fill(lens[i]), 0>>]
        BY <2>2, <1>1
      <4> QED BY <4>1, <4>2
    <3> HIDE DEF all, lens, n
    <3> QED BY <3>1, <3>2
  <2> QED BY <2>1, <2>2
<1>3. Plain(p) <=> AllPlainIn(lens)
  BY <1>1, PlainMeans
<1>4. ASSUME NEW i \in DOMAIN Lens(p) PROVE Lens(p)[i] # 0
  <2>1. i \in 1..Len(p.filters)
    BY <1>1
  <2>2. p.filters[i][1] >= 1
    BY <2>1, LegalPackets
  <2>3. Lens(p)[i] = p.filters[i][1]
    <3>1. p.filters \in Seq(Nat \X Nat)
      BY LegalPackets
    <3>2. DOMAIN p.filters = 1..Len(p.filters)
      BY <3>1
    <3>3. Lens(p) = [j \in DOMAIN p.filters |-> p.filters[j][1]]
      BY DEF Lens
    <3> QED BY <3>2, <3>3, <2>1
  <2> QED BY <2>2, <2>3
<1> HIDE DEF lens, n, all
<1>5. g.status = "read" /\ g.texts = all <=> AllPlainIn(lens)
  BY <1>2 DEF Alike, n
<1>6. AllPlainIn(lens) => g.status = "read"
  BY <1>2 DEF Alike
<1>7. g.status \in {"crash", "beyond"} => ~AllPlainIn(lens)
  BY <1>6
<1> QED BY <1>3, <1>4, <1>5, <1>7 DEF all, SentTexts
-----------------------------------------------------------------------------
(* A PUBLISH.                                                              *)

(* A part of a sequence, element by element.                               *)
LEMMA Slice ==
  ASSUME NEW S, NEW b \in Seq(S), NEW s \in Nat \ {0}, NEW e \in Nat, e <= Len(b), s <= e + 1
  PROVE  /\ SubSeq(b, s, e) \in Seq(S)
         /\ Len(SubSeq(b, s, e)) = e + 1 - s
         /\ \A i \in 1..(e + 1 - s) : SubSeq(b, s, e)[i] = b[s + i - 1]
<1>1. Len(b) \in Nat
  OBVIOUS
<1>2. \A j \in s..e : b[j] \in S
  <2>1. \A j \in s..e : j \in 1..Len(b)
    BY <1>1
  <2> QED BY <2>1
<1>3. /\ SubSeq(b, s, e) \in Seq(S)
      /\ Len(SubSeq(b, s, e)) = IF s <= e THEN e - s + 1 ELSE 0
      /\ \A i \in 1..(e - s + 1) : SubSeq(b, s, e)[i] = b[s + i - 1]
  BY <1>2, SubSeqProperties
<1>4. e - s + 1 = e + 1 - s /\ (~(s <= e) => e + 1 - s = 0)
  OBVIOUS
<1> QED BY <1>3, <1>4

(* The same for numbers, from a single hypothesis.                         *)
Within(b, s, e) ==
  b \in Seq(Nat) /\ s \in Nat \ {0} /\ e \in Nat /\ e <= Len(b) /\ s <= e + 1

LEMMA SliceWithin ==
  ASSUME NEW b, NEW s, NEW e, Within(b, s, e)
  PROVE  /\ SubSeq(b, s, e) \in Seq(Nat)
         /\ Len(SubSeq(b, s, e)) = e + 1 - s
         /\ \A i \in 1..(e + 1 - s) : SubSeq(b, s, e)[i] = b[s + i - 1]
<1>1. b \in Seq(Nat) /\ s \in Nat \ {0} /\ e \in Nat /\ e <= Len(b) /\ s <= e + 1
  BY DEF Within
<1> QED BY <1>1, Slice

(* Two sequences one behind the other, element by element.                 *)
LEMMA Concatenated ==
  ASSUME NEW S, NEW s \in Seq(S), NEW t \in Seq(S)
  PROVE  /\ s \o t \in Seq(S) /\ Len(s \o t) = Len(s) + Len(t)
         /\ \A i \in 1..Len(s) : (s \o t)[i] = s[i]
         /\ \A i \in 1..Len(t) : (s \o t)[Len(s) + i] = t[i]
<1> DEFINE u == s \o t
<1>1. /\ u \in Seq(S) /\ Len(u) = Len(s) + Len(t)
      /\ \A i \in 1..(Len(s) + Len(t)) : u[i] = IF i <= Len(s) THEN s[i] ELSE t[i - Len(s)]
  BY ConcatProperties
<1>2. Len(s) \in Nat /\ Len(t) \in Nat
  OBVIOUS
<1> HIDE DEF u
<1>3. ASSUME NEW i \in 1..Len(s) PROVE u[i] = s[i]
  <2>1. i \in 1..(Len(s) + Len(t)) /\ i <= Len(s)
    BY <1>2
  <2> QED BY <2>1, <1>1
<1>4. ASSUME NEW i \in 1..Len(t) PROVE u[Len(s) + i] = t[i]
  <2>1. Len(s) + i \in 1..(Len(s) + Len(t)) /\ ~(Len(s) + i <= Len(s)) /\ (Len(s) + i) - Len(s) = i
    BY <1>2
  <2> QED BY <2>1, <1>1
<1> QED BY <1>1, <1>3, <1>4 DEF u

(* A sequence of ones is the string of its length, and has no zero byte to *)
(* be cut at.                                                              *)
LEMMA FillIs ==
  ASSUME NEW s \in Seq(Nat), NEW n \in Nat, Len(s) = n, \A i \in 1..n : s[i] = 1
  PROVE  s = Fill(n) /\ (n > 0 => Cut(s) = s)
<1>1. Fill(n) \in Seq(Nat) /\ Len(Fill(n)) = n /\ \A i \in 1..n : Fill(n)[i] = 1
  BY DEF Fill
<1>2. s = Fill(n)
  BY <1>1, SeqEqual
<1>3. \A i \in 1..Len(s) : s[i] # 0
  OBVIOUS
<1> QED BY <1>2, <1>3, CutIs

Between(p) == IF p.qos > 0 THEN Identifier ELSE <<>>
Published(p) ==
  p.kind = "publish" /\ p.topic \in Topics /\ p.payload \in Payloads /\ p.qos \in QoS

(* Where the topic, the identifier and the payload of a PUBLISH lie in the *)
(* buffer.                                                                 *)
LEMMA PublishLies ==
  ASSUME NEW p, Published(p)
  PROVE  /\ p.topic \in Nat \ {0} /\ p.payload \in Seq(Nat)
         /\ Between(p) \in Seq(Nat) /\ Len(Between(p)) = IF p.qos > 0 THEN 2 ELSE 0
         /\ Buffer(p) \in Seq(Nat)
         /\ Len(Body(p)) = 2 + p.topic + Len(Between(p)) + Len(p.payload)
         /\ Len(Buffer(p)) = 2 + p.topic + Len(Between(p)) + Len(p.payload) + 2
         /\ StringAt(Buffer(p), 1, p.topic)
         /\ \A i \in 1..Len(Between(p)) : Buffer(p)[2 + p.topic + i] = Between(p)[i]
         /\ \A i \in 1..Len(p.payload) :
              Buffer(p)[2 + p.topic + Len(Between(p)) + i] = p.payload[i]
         /\ Buffer(p)[2 + p.topic + Len(Between(p)) + Len(p.payload) + 1] = 0
         /\ Buffer(p)[2 + p.topic + Len(Between(p)) + Len(p.payload) + 2] = 0
<1> DEFINE n == p.topic
           c == p.payload
           x == Between(p)
           b == Buffer(p)
           body == Body(p)
           s == Str(n)
           h == s \o x
<1>1. n \in Nat \ {0} /\ c \in Seq(Nat) /\ Len(c) \in Nat
  BY LegalPackets DEF Published
<1>2. x \in Seq(Nat) /\ Len(x) = (IF p.qos > 0 THEN 2 ELSE 0)
  BY DEF Between, Identifier
<1>3. body = h \o c /\ b = body \o <<0, 0>>
  BY DEF Body, Buffer, Published, Between
<1>4. /\ s \in Seq(Nat) /\ Len(s) = 2 + n /\ s[1] = n \div (2 * Base) /\ s[2] = n % (2 * Base)
      /\ \A m \in 1..n : s[2 + m] = 1
  BY <1>1, StrIs
<1> HIDE DEF n, c, x, b, body, s
<1>5. /\ h \in Seq(Nat) /\ Len(h) = Len(s) + Len(x)
      /\ \A i \in 1..Len(s) : h[i] = s[i]
      /\ \A i \in 1..Len(x) : h[Len(s) + i] = x[i]
  <2>1. s \in Seq(Nat) /\ x \in Seq(Nat)
    BY <1>2, <1>4
  <2> QED BY <2>1, Concatenated
<1> HIDE DEF h
<1>6. Copied(h, c, b)
  BY <1>1, <1>3, <1>5 DEF Copied
<1>7. /\ Holds(b, Len(h), c) /\ Len(h \o c) = Len(h) + Len(c) /\ Len(b) = Len(h) + Len(c) + 2
      /\ b[Len(h) + Len(c) + 1] = 0 /\ b[Len(h) + Len(c) + 2] = 0
      /\ \A i \in 1..Len(h) : b[i] = h[i]
  BY <1>6, Behind
<1>8. b \in Seq(Nat) /\ \A i \in 1..Len(c) : b[Len(h) + i] = c[i]
  BY <1>7 DEF Holds
<1>9. Len(h) = 2 + n + Len(x) /\ Len(x) \in Nat
  BY <1>2, <1>4, <1>5
<1>10. \A i \in 1..(2 + n) : b[i] = s[i]
  <2>1. \A i \in 1..(2 + n) : i \in 1..Len(h) /\ i \in 1..Len(s)
    BY <1>1, <1>4, <1>9
  <2> QED BY <2>1, <1>5, <1>7
<1>11. StringAt(b, 1, n)
  <2>1. 1 \in 1..(2 + n) /\ 1 + 1 = 2 /\ 2 \in 1..(2 + n)
        /\ \A m \in 1..n : 1 + 1 + m = 2 + m /\ 2 + m \in 1..(2 + n)
    BY <1>1
  <2>2. b[1] = n \div (2 * Base) /\ b[1 + 1] = n % (2 * Base)
    BY <2>1, <1>4, <1>10
  <2>3. \A m \in 1..n : b[1 + 1 + m] = 1
    BY <2>1, <1>4, <1>10
  <2> QED BY <2>2, <2>3 DEF StringAt
<1>12. \A i \in 1..Len(x) : b[2 + n + i] = x[i]
  <2> SUFFICES ASSUME NEW i \in 1..Len(x) PROVE b[2 + n + i] = x[i]
    OBVIOUS
  <2>1. 2 + n + i \in 1..Len(h) /\ 2 + n + i = Len(s) + i
    BY <1>1, <1>4, <1>9
  <2> QED BY <2>1, <1>5, <1>7
<1>13. \A i \in 1..Len(c) : b[2 + n + Len(x) + i] = c[i]
  BY <1>8, <1>9
<1>14. Len(b) = 2 + n + Len(x) + Len(c) + 2
  BY <1>7, <1>9
<1>15. Len(body) = 2 + n + Len(x) + Len(c)
  BY <1>3, <1>7, <1>9
<1>16. b[2 + n + Len(x) + Len(c) + 1] = 0 /\ b[2 + n + Len(x) + Len(c) + 2] = 0
  BY <1>7, <1>9
<1> QED BY <1>1, <1>2, <1>8, <1>11, <1>12, <1>13, <1>14, <1>15, <1>16 DEF n, c, x, b, body

(* The topic that is read, and where it is taken to end.                   *)
TopicLen(p) == LenAt(Buffer(p), 1)

(* The length the topic is taken to have is the one it has exactly when    *)
(* the topic is plain, and less otherwise.                                 *)
LEMMA TopicRead ==
  ASSUME NEW p, Published(p)
  PROVE  /\ TopicLen(p) \in Nat /\ TopicLen(p) <= p.topic /\ TopicLen(p) < Base * Base
         /\ p.topic < Base <=> TopicLen(p) = p.topic
         /\ LET s == Strings(Buffer(p), 1, 1, 0, 0)
            IN /\ TopicLen(p) = 0 => s.status = "crash"
               /\ TopicLen(p) # 0 =>
                    s = [status |-> "read", at |-> 3 + TopicLen(p),
                         texts |-> << <<Fill(TopicLen(p)), 0>> >>]
<1> DEFINE n == p.topic
           b == Buffer(p)
           m == TopicLen(p)
           s == Strings(b, 1, 1, 0, 0)
<1>1. /\ n \in Nat \ {0} /\ b \in Seq(Nat) /\ Len(b) \in Nat /\ Len(b) >= 4 + n
      /\ StringAt(b, 1, n)
  <2> DEFINE i == Len(Between(p))
             j == Len(p.payload)
  <2>1. /\ n \in Nat \ {0} /\ b \in Seq(Nat) /\ Len(b) = 2 + n + i + j + 2
        /\ StringAt(b, 1, n) /\ i \in Nat /\ j \in Nat /\ Len(b) \in Nat
    <3>1. n \in Nat \ {0} /\ b \in Seq(Nat) /\ Len(b) = 2 + n + i + j + 2 /\ StringAt(b, 1, n)
      BY PublishLies
    <3>2. i = (IF p.qos > 0 THEN 2 ELSE 0) /\ p.payload \in Seq(Nat)
      BY PublishLies
    <3>3. i \in Nat /\ j \in Nat
      BY <3>2
    <3> HIDE DEF i, j, n
    <3>4. Len(b) \in Nat
      BY <3>1
    <3> QED BY <3>1, <3>3, <3>4
  <2> HIDE DEF i, j, n, b
  <2> QED BY <2>1
<1>2. b[1] = n \div (2 * Base) /\ b[1 + 1] = n % (2 * Base) /\ \A i \in 1..n : b[1 + 1 + i] = 1
  BY <1>1 DEF StringAt
<1>3. m = LenAt(b, 1)
  BY DEF TopicLen
<1> HIDE DEF n, b, m
<1>4. /\ m \in Nat /\ (n < Base => m = n) /\ (n >= Base => m < n) /\ m < Base * Base
  BY <1>1, <1>2, <1>3, LenRead
<1>5. m <= n /\ (n < Base <=> m = n)
  BY <1>1, <1>4, BaseAssumption
<1>6. PICK r : Reading(b, 1, 1, 0, 0, r) /\ s = Ended(r[1])
  BY ReadIs
<1>7. r[0] = First(1) /\ r[1] = OneMore(b, r[0], 1, 0, 0)
  <2>1. 1 \in 1..1 /\ 1 - 1 = 0
    OBVIOUS
  <2> QED BY <1>6, <2>1 DEF Reading
<1>8. First(1).status = "more" /\ First(1).at = 1 /\ First(1).texts = <<>> /\ ~(1 >= Len(b))
  BY <1>1 DEF First
<1> HIDE DEF s
<1>9. ASSUME m = 0 PROVE s.status = "crash"
  <2>1. r[1] = [First(1) EXCEPT !.status = "crash"]
    BY <1>3, <1>7, <1>8, <1>9 DEF OneMore
  <2>2. r[1].status = "crash"
    BY <2>1 DEF First
  <2> QED BY <2>2, <1>6 DEF Ended
<1>10. ASSUME m # 0
       PROVE  s = [status |-> "read", at |-> 3 + m, texts |-> << <<Fill(m), 0>> >>]
  <2> DEFINE next == 1 + 2 + m
             last == IF next <= Len(b) THEN next - 1 ELSE Len(b)
             t == <<Cut(SubSeq(b, 1 + 2, last)), IF 0 > 0 THEN b[next] ELSE 0>>
  <2>1. r[1] = [status |-> "more", at |-> next + 0, texts |-> Append(<<>>, t)]
    BY <1>3, <1>7, <1>8, <1>10 DEF OneMore
  <2>2. last = 2 + m /\ next + 0 = 3 + m
    BY <1>1, <1>4, <1>5
  <2> DEFINE u == SubSeq(b, 3, 2 + m)
  <2>3. /\ u \in Seq(Nat) /\ Len(u) = (2 + m) + 1 - 3
        /\ \A i \in 1..((2 + m) + 1 - 3) : u[i] = b[3 + i - 1]
    <3> DEFINE e == 2 + m
    <3>1. 3 \in Nat \ {0} /\ e \in Nat /\ e <= Len(b) /\ 3 <= e + 1
      BY <1>1, <1>4, <1>5, <1>10
    <3> HIDE DEF e
    <3>2. /\ SubSeq(b, 3, e) \in Seq(Nat) /\ Len(SubSeq(b, 3, e)) = e + 1 - 3
          /\ \A i \in 1..(e + 1 - 3) : SubSeq(b, 3, e)[i] = b[3 + i - 1]
      <4>1. Within(b, 3, e)
        BY <1>1, <3>1 DEF Within
      <4> QED BY <4>1, SliceWithin
    <3> QED BY <3>2 DEF e
  <2>4. (2 + m) + 1 - 3 = m /\ \A i \in 1..m : 3 + i - 1 = 1 + 1 + i /\ i \in 1..n
    BY <1>1, <1>4, <1>5
  <2> HIDE DEF u
  <2>5. Len(u) = m /\ \A i \in 1..m : u[i] = 1
    BY <2>3, <2>4, <1>2
  <2>6. Cut(u) = Fill(m)
    BY <2>3, <2>5, <1>4, <1>10, FillIs
  <2>7. t = <<Fill(m), 0>>
    <3>1. 1 + 2 = 3 /\ ~(0 > 0)
      OBVIOUS
    <3> HIDE DEF last, next
    <3> QED BY <3>1, <2>2, <2>6 DEF u
  <2> HIDE DEF t, next
  <2>8. r[1] = [status |-> "more", at |-> 3 + m, texts |-> <<t>>]
    BY <2>1, <2>2
  <2>9. s = [status |-> "read", at |-> 3 + m, texts |-> <<t>>]
    BY <2>8, <1>6 DEF Ended
  <2> QED BY <2>7, <2>9
<1> QED BY <1>4, <1>5, <1>9, <1>10 DEF n, b, m, s

(* strncpy up to a zero.                                                   *)
LEMMA CutAt ==
  ASSUME NEW s \in Seq(Nat), NEW i \in 1..Len(s), s[i] = 0
  PROVE  /\ Len(Cut(s)) < i
         /\ (\A j \in 1..(i - 1) : s[j] # 0) => Cut(s) = SubSeq(s, 1, i - 1)
<1> DEFINE I == {j \in 1..Len(s) : s[j] = 0}
           zero == IF I # {} THEN Min(I) ELSE 0
<1>1. Cut(s) = IF zero = 0 THEN s ELSE SubSeq(s, 1, zero - 1)
  BY DEF Cut, SelectInSeq
<1>2. i \in I
  OBVIOUS
<1>3. \E n \in I : \A m \in I : n <= m
  <2>1. I \subseteq Nat
    OBVIOUS
  <2> HIDE DEF I
  <2> QED BY <2>1, <1>2, LeastNumber
<1>4. zero \in I /\ \A m \in I : zero <= m
  BY <1>2, <1>3 DEF Min
<1>5. zero \in 1..Len(s) /\ s[zero] = 0 /\ zero <= i
  BY <1>2, <1>4
<1> HIDE DEF I, zero
<1>6. Cut(s) = SubSeq(s, 1, zero - 1)
  BY <1>1, <1>5
<1>7. Len(SubSeq(s, 1, zero - 1)) = zero - 1
  <2> DEFINE e == zero - 1
  <2>1. e \in Nat /\ e <= Len(s) /\ 1 <= e + 1 /\ 1 \in Nat \ {0} /\ e + 1 - 1 = e
    BY <1>5
  <2> HIDE DEF e
  <2>2. Len(SubSeq(s, 1, e)) = e + 1 - 1
    <3>1. Within(s, 1, e)
      BY <2>1 DEF Within
    <3> QED BY <3>1, SliceWithin
  <2> QED BY <2>1, <2>2 DEF e
<1>8. (\A j \in 1..(i - 1) : s[j] # 0) => zero = i
  BY <1>5
<1>9. Len(Cut(s)) < i
  <2>1. Len(Cut(s)) = zero - 1
    BY <1>6, <1>7
  <2> QED BY <2>1, <1>5
<1> QED BY <1>6, <1>8, <1>9

(* The one string of a PUBLISH is its topic.                               *)
LEMMA PublishPlain ==
  ASSUME NEW p, Published(p)
  PROVE  Plain(p) <=> p.topic < Base
<1>1. p.topic \in Nat \ {0}
  BY PublishLies
<1>2. Lens(p) = <<p.topic>>
  BY DEF Lens, Published
<1>3. Plain(p) <=> p.topic \in 1..(Base - 1)
  BY <1>2 DEF Plain
<1> QED BY <1>1, <1>3, BaseAssumption

(* What is returned for a PUBLISH whose topic is not read as empty.        *)
TakenId(p) == SubSeq(Buffer(p), 3 + TopicLen(p), 4 + TopicLen(p))
Taken(p) ==
  SubSeq(Buffer(p), 3 + TopicLen(p) + Len(Between(p)), Len(Body(p)) + Len(Between(p)))

(* What mqtt_publish_packet_create returns.                                *)
LEMMA PublishGot ==
  ASSUME NEW p, Published(p), NEW g, g = PublishPacketCreate(p)
  PROVE  /\ TopicLen(p) = 0 => g.status = "crash" /\ ~Plain(p)
         /\ TopicLen(p) # 0 =>
              g = [status |-> "read", topic |-> Fill(TopicLen(p)),
                   id |-> TakenId(p),
                   payload |-> Cut(Taken(p)),
                   ended |-> 0 \in Range(Taken(p))
                             \/ Len(Body(p)) - TopicLen(p) - 2 < Zeroed]
<1> DEFINE m == TopicLen(p)
           b == Buffer(p)
           s == Strings(b, 1, 1, 0, 0)
           x == Len(Between(p))
           l == Len(Body(p))
<1>1. /\ m \in Nat
      /\ p.topic < Base => m = p.topic
      /\ m = 0 => s.status = "crash"
      /\ m # 0 => s = [status |-> "read", at |-> 3 + m, texts |-> << <<Fill(m), 0>> >>]
  BY TopicRead
<1>2. p.topic \in Nat \ {0} /\ x = IF p.qos > 0 THEN 2 ELSE 0
  BY PublishLies
<1>3. l \in Nat
  <2>1. l = 2 + p.topic + x + Len(p.payload) /\ p.payload \in Seq(Nat)
    BY PublishLies
  <2>2. Len(p.payload) \in Nat /\ x \in Nat
    BY <2>1, <1>2
  <2> HIDE DEF l, x
  <2> QED BY <2>1, <2>2, <1>2
<1> DEFINE from == s.at + IF p.qos > 0 THEN 2 ELSE 0
           len == l - LenAt(b, 1) - 2
           payload == SubSeq(b, from, from + len - 1)
<1>4. g = IF s.status # "read" THEN s
          ELSE [status |-> "read", topic |-> s.texts[1][1],
                id |-> SubSeq(b, s.at, s.at + 1),
                payload |-> Cut(payload),
                ended |-> 0 \in Range(payload) \/ len < Zeroed]
  BY DEF PublishPacketCreate
<1>5. m = LenAt(b, 1)
  BY DEF TopicLen
<1> HIDE DEF s, m, b, x, l
<1>6. ASSUME m = 0 PROVE g.status = "crash" /\ ~Plain(p)
  <2>1. ~Plain(p)
    BY <1>1, <1>2, <1>6, PublishPlain
  <2> QED BY <2>1, <1>1, <1>4, <1>6
<1>7. ASSUME m # 0
      PROVE  g = [status |-> "read", topic |-> Fill(m), id |-> SubSeq(b, 3 + m, 4 + m),
                  payload |-> Cut(SubSeq(b, 3 + m + x, l + x)),
                  ended |-> 0 \in Range(SubSeq(b, 3 + m + x, l + x)) \/ l - m - 2 < Zeroed]
  <2>1. s.status = "read" /\ s.at = 3 + m /\ s.texts[1][1] = Fill(m)
    BY <1>1, <1>7
  <2>2. s.at + 1 = 4 + m /\ from = 3 + m + x /\ from + len - 1 = l + x /\ len = l - m - 2
    BY <2>1, <1>1, <1>2, <1>3, <1>5
  <2> HIDE DEF from, len
  <2> QED BY <2>1, <2>2, <1>4
<1> QED BY <1>6, <1>7 DEF m, b, x, l, Taken, TakenId

(* The identifier that is found behind what is taken for the topic.        *)
LEMMA IdTaken ==
  ASSUME NEW p, Published(p)
  PROVE  /\ TakenId(p) \in Seq(Nat) /\ Len(TakenId(p)) = 2
         /\ p.qos > 0 => (TakenId(p) = Identifier <=> Plain(p))
<1> DEFINE id1 == TakenId(p)
           m == TopicLen(p)
           n == p.topic
           b == Buffer(p)
           x == Len(Between(p))
           c == Len(p.payload)
<1>1. m \in Nat /\ m <= n /\ (n < Base <=> m = n)
  BY TopicRead
<1>2. /\ n \in Nat \ {0} /\ b \in Seq(Nat) /\ p.payload \in Seq(Nat)
      /\ x = IF p.qos > 0 THEN 2 ELSE 0
      /\ Len(b) = 2 + n + x + c + 2
      /\ StringAt(b, 1, n)
      /\ \A i \in 1..x : b[2 + n + i] = Between(p)[i]
  BY PublishLies
<1>3. c \in Nat
  BY <1>2
<1>4. id1 = SubSeq(b, 3 + m, 4 + m)
  BY DEF TakenId
<1>5. Plain(p) <=> n < Base
  BY PublishPlain
<1> HIDE DEF m, n, b, x, c, id1
<1>6. /\ id1 \in Seq(Nat) /\ Len(id1) = 2 /\ id1[1] = b[3 + m] /\ id1[2] = b[4 + m]
  <2> DEFINE f == 3 + m
             e == 4 + m
  <2>1. /\ f \in Nat \ {0} /\ e \in Nat /\ e <= Len(b) /\ f <= e + 1
        /\ e + 1 - f = 2 /\ f + 1 - 1 = 3 + m /\ f + 2 - 1 = 4 + m
    BY <1>1, <1>2, <1>3
  <2> HIDE DEF f, e
  <2>2. /\ SubSeq(b, f, e) \in Seq(Nat) /\ Len(SubSeq(b, f, e)) = e + 1 - f
        /\ \A i \in 1..(e + 1 - f) : SubSeq(b, f, e)[i] = b[f + i - 1]
    <3>1. Within(b, f, e)
      BY <1>2, <2>1 DEF Within
    <3> QED BY <3>1, SliceWithin
  <2>3. 1 \in 1..2 /\ 2 \in 1..2
    OBVIOUS
  <2>4. SubSeq(b, f, e)[1] = b[f + 1 - 1] /\ SubSeq(b, f, e)[2] = b[f + 2 - 1]
    BY <2>1, <2>2, <2>3
  <2>5. id1 = SubSeq(b, f, e)
    BY <1>4 DEF f, e
  <2> QED BY <2>1, <2>2, <2>4, <2>5
<1>7. ASSUME p.qos > 0 PROVE id1 = Identifier <=> m = n
  <2>1. Identifier \in Seq(Nat) /\ Len(Identifier) = 2 /\ Identifier[1] = 2 /\ Identifier[2] = 3
    BY DEF Identifier
  <2>2. CASE m = n
    <3>1. 1 \in 1..x /\ 2 \in 1..x /\ 2 + n + 1 = 3 + m /\ 2 + n + 2 = 4 + m
      BY <2>2, <1>1, <1>2, <1>7
    <3>2. b[3 + m] = Between(p)[1] /\ b[4 + m] = Between(p)[2]
      BY <3>1, <1>2
    <3>3. Between(p) = Identifier
      BY <1>7 DEF Between
    <3>4. id1[1] = Identifier[1] /\ id1[2] = Identifier[2]
      BY <3>2, <3>3, <1>6, Zenon
    <3>5. \A i \in 1..2 : i = 1 \/ i = 2
      OBVIOUS
    <3>6. \A i \in 1..2 : id1[i] = Identifier[i]
      BY <3>4, <3>5
    <3>7. Len(id1) = 2 /\ id1 \in Seq(Nat)
      BY <1>6
    <3>8. id1 = Identifier
      BY <3>6, <3>7, <2>1, SeqEqual
    <3> QED BY <2>2, <3>8
  <2>3. CASE m # n
    <3>1. m + 1 \in 1..n /\ 1 + 1 + (m + 1) = 3 + m
      BY <2>3, <1>1, <1>2
    <3>2. b[3 + m] = 1
      BY <3>1, <1>2 DEF StringAt
    <3>3. id1[1] # Identifier[1]
      <4>1. id1[1] = 1
        BY <3>2, <1>6, Zenon
      <4>2. Identifier[1] = 2
        BY <2>1
      <4> QED BY <4>1, <4>2
    <3> QED BY <2>3, <3>3
  <2> QED BY <2>2, <2>3
<1> QED BY <1>1, <1>5, <1>6, <1>7 DEF id1

(* The payload that is taken: with an identifier two bytes more than were  *)
(* sent, which are zero.                                                   *)
LEMMA PayloadTaken ==
  ASSUME NEW p, Published(p), TopicLen(p) # 0
  PROVE  /\ Cut(Taken(p)) \in Seq(Nat)
         /\ Plain(p) =>
              /\ Len(Body(p)) - TopicLen(p) - 2 = Len(p.payload) + Len(Between(p))
              /\ Len(Taken(p)) = Len(p.payload) + Len(Between(p))
              /\ Taken(p) \in Seq(Nat)
              /\ \A i \in 1..Len(p.payload) : Taken(p)[i] = p.payload[i]
              /\ p.qos > 0 => Taken(p)[Len(p.payload) + 1] = 0
<1> DEFINE m == TopicLen(p)
           n == p.topic
           b == Buffer(p)
           x == Len(Between(p))
           c == Len(p.payload)
           f == 3 + m + x
           e == Len(Body(p)) + x
           t == Taken(p)
<1>1. m \in Nat /\ m <= n /\ (n < Base <=> m = n)
  BY TopicRead
<1>2. /\ n \in Nat \ {0} /\ b \in Seq(Nat) /\ p.payload \in Seq(Nat)
      /\ x = IF p.qos > 0 THEN 2 ELSE 0
      /\ Len(Body(p)) = 2 + n + x + c
      /\ Len(b) = 2 + n + x + c + 2
  BY PublishLies
<1>3. /\ \A i \in 1..c : b[2 + n + x + i] = p.payload[i]
      /\ b[2 + n + x + c + 1] = 0
  BY PublishLies
<1>4. c \in Nat /\ x \in Nat
  <2>1. c \in Nat
    BY <1>2
  <2> HIDE DEF x
  <2> QED BY <2>1, <1>2
<1>5. t = SubSeq(b, f, e)
  BY DEF Taken
<1>6. Plain(p) <=> m = n
  BY <1>1, PublishPlain
<1> DEFINE y == Len(Body(p))
<1>7. y = 2 + n + x + c /\ e = y + x
  BY <1>2
<1> HIDE DEF m, n, b, x, c, t, y
<1>8. f \in Nat \ {0} /\ e \in Nat /\ e <= Len(b) /\ f <= e + 1
  BY <1>1, <1>2, <1>4, <1>7
<1>9. m = n => e + 1 - f = c + x /\ f = 2 + n + x + 1 /\ y - m - 2 = c + x
  BY <1>1, <1>2, <1>4, <1>7
<1> HIDE DEF f, e
<1>10. /\ SubSeq(b, f, e) \in Seq(Nat) /\ Len(SubSeq(b, f, e)) = e + 1 - f
       /\ \A i \in 1..(e + 1 - f) : SubSeq(b, f, e)[i] = b[f + i - 1]
  <2>1. Within(b, f, e)
    BY <1>2, <1>8 DEF Within
  <2> QED BY <2>1, SliceWithin
<1>11. t \in Seq(Nat) /\ Cut(t) \in Seq(Nat)
  BY <1>5, <1>10, CutIs
<1>12. ASSUME m = n
       PROVE  /\ y - m - 2 = c + x /\ Len(t) = c + x
              /\ \A i \in 1..c : t[i] = p.payload[i]
              /\ p.qos > 0 => t[c + 1] = 0
  <2>1. y - m - 2 = c + x /\ Len(t) = c + x /\ \A i \in 1..(c + x) : t[i] = b[f + i - 1]
    BY <1>5, <1>9, <1>10, <1>12
  <2>2. ASSUME NEW i \in 1..c PROVE t[i] = p.payload[i]
    <3>1. i \in 1..(c + x) /\ f + i - 1 = 2 + n + x + i
      BY <1>2, <1>4, <1>9, <1>12
    <3> QED BY <3>1, <2>1, <1>3
  <2>3. ASSUME p.qos > 0 PROVE t[c + 1] = 0
    <3>1. c + 1 \in 1..(c + x) /\ f + (c + 1) - 1 = 2 + n + x + c + 1
      BY <1>2, <1>4, <1>9, <1>12, <2>3
    <3> QED BY <3>1, <2>1, <1>3
  <2> QED BY <2>1, <2>2, <2>3
<1> QED BY <1>6, <1>11, <1>12 DEF m, x, c, t, y

(* The payload is taken as it was sent unless it holds a zero byte, and    *)
(* with an identifier it always has an end.                                *)
LEMMA PayloadIs ==
  ASSUME NEW p, Published(p), TopicLen(p) # 0, Plain(p)
  PROVE  /\ 0 \notin Range(p.payload) => Cut(Taken(p)) = p.payload
         /\ 0 \in Range(p.payload) =>
              0 \in Range(Taken(p)) /\ Len(Cut(Taken(p))) < Len(p.payload)
         /\ p.qos > 0 => 0 \in Range(Taken(p))
<1> DEFINE c == p.payload
           n == Len(c)
           t == Taken(p)
           x == Len(Between(p))
<1>1. /\ t \in Seq(Nat) /\ Len(t) = n + x
      /\ \A i \in 1..n : t[i] = c[i]
      /\ p.qos > 0 => t[n + 1] = 0
  BY PayloadTaken
<1>2. c \in Seq(Nat) /\ x = IF p.qos > 0 THEN 2 ELSE 0
  BY PublishLies
<1>3. n \in Nat
  BY <1>2
<1>4. p.qos > 0 \/ ~(p.qos > 0)
  OBVIOUS
<1> HIDE DEF c, t, x, n
<1>5. x \in Nat /\ DOMAIN t = 1..(n + x) /\ DOMAIN c = 1..n
  <2>1. x \in Nat
    BY <1>2
  <2> QED BY <2>1, <1>1, <1>2 DEF n
<1>6. ASSUME p.qos > 0 PROVE n + 1 \in 1..(n + x) /\ 0 \in Range(t)
  <2>1. n + 1 \in 1..(n + x)
    BY <1>2, <1>3, <1>6
  <2> QED BY <2>1, <1>1, <1>5, <1>6 DEF Range
<1>7. ASSUME 0 \notin Range(c) PROVE Cut(t) = c
  <2>1. \A i \in 1..n : c[i] # 0
    BY <1>5, <1>7 DEF Range
  <2>2. \A i \in 1..n : t[i] # 0
    BY <2>1, <1>1
  <2>3. CASE p.qos > 0
    <3> DEFINE k == n + 1
    <3>1. k \in 1..Len(t) /\ t[k] = 0 /\ k - 1 = n
      BY <2>3, <1>1, <1>3, <1>6
    <3> HIDE DEF k
    <3>2. \A j \in 1..(k - 1) : t[j] # 0
      BY <3>1, <2>2
    <3>3. Cut(t) = SubSeq(t, 1, n)
      BY <3>1, <3>2, <1>1, CutAt
    <3>4. /\ SubSeq(t, 1, n) \in Seq(Nat) /\ Len(SubSeq(t, 1, n)) = n + 1 - 1
          /\ \A i \in 1..(n + 1 - 1) : SubSeq(t, 1, n)[i] = t[1 + i - 1]
      <4>1. Within(t, 1, n)
        BY <1>1, <1>3, <1>5 DEF Within
      <4> QED BY <4>1, SliceWithin
    <3>5. n + 1 - 1 = n /\ \A i \in 1..n : 1 + i - 1 = i
      BY <1>3
    <3>6. Len(SubSeq(t, 1, n)) = Len(c) /\ \A i \in 1..Len(c) : SubSeq(t, 1, n)[i] = c[i]
      BY <3>4, <3>5, <1>1 DEF n
    <3>7. SubSeq(t, 1, n) = c
      <4>1. c \in Seq(Nat) /\ SubSeq(t, 1, n) \in Seq(Nat)
        BY <3>4, <1>2
      <4> QED BY <4>1, <3>6, SeqEqual
    <3> QED BY <3>3, <3>7
  <2>4. CASE ~(p.qos > 0)
    <3>1. Len(t) = n
      BY <2>4, <1>1, <1>2, <1>3
    <3>2. t = c
      <4>1. t \in Seq(Nat) /\ c \in Seq(Nat) /\ Len(t) = Len(c) /\ \A i \in 1..Len(t) : t[i] = c[i]
        BY <3>1, <1>1, <1>2 DEF n
      <4> QED BY <4>1, SeqEqual
    <3>3. Cut(t) = t
      BY <3>1, <2>2, <1>1, CutIs
    <3> QED BY <3>2, <3>3
  <2> QED BY <2>3, <2>4
<1>8. ASSUME 0 \in Range(c) PROVE 0 \in Range(t) /\ Len(Cut(t)) < n
  <2>1. PICK i \in 1..n : c[i] = 0
    BY <1>5, <1>8 DEF Range
  <2>2. i \in 1..(n + x) /\ i \in 1..Len(t) /\ t[i] = 0
    BY <2>1, <1>1, <1>3, <1>5
  <2>3. 0 \in Range(t)
    BY <2>2, <1>5 DEF Range
  <2>4. Len(Cut(t)) < i
    BY <2>2, <1>1, CutAt
  <2>5. Len(Cut(t)) \in Nat
    <3>1. Cut(t) \in Seq(Nat)
      BY <1>1, CutIs
    <3> QED BY <3>1
  <2>6. Len(Cut(t)) < n
    BY <2>4, <2>5, <1>3
  <2> QED BY <2>3, <2>6
<1> QED BY <1>6, <1>7, <1>8 DEF c, t, n
-----------------------------------------------------------------------------
(* The steps.                                                              *)

(* What each step sends, and what it gets.                                 *)
LEMMA Steps ==
  ASSUME [Next]_vars
  PROVE  \/ /\ sent'.kind = "connect" /\ sent'.fields \in ConnectFields
            /\ got' = ConnectPacketCreate(sent') /\ Connect
         \/ Published(sent') /\ Publish
         \/ /\ sent'.kind = "subscribe" /\ sent'.filters \in Filters /\ Subscribe
         \/ /\ sent'.kind = "unsubscribe" /\ sent'.filters \in Filters
            /\ got' = UnsubscribePacketCreate(sent') /\ Unsubscribe
         \/ /\ sent'.kind \in {"puback", "pubrec", "pubrel", "pubcomp", "pingreq", "disconnect"}
            /\ got' = ConstPacketCreate(sent') /\ Control
         \/ Done
         \/ UNCHANGED wireVars /\ (id' = id \/ sent = NoPacket)
<1>1. CASE Connect
  <2>1. PICK fields \in ConnectFields, level \in {4, 5}, clean \in BOOLEAN :
          /\ sent' = [kind |-> "connect", fields |-> fields, level |-> level, clean |-> clean]
          /\ got' = ConnectPacketCreate(sent')
    BY <1>1 DEF Connect, Sends
  <2>2. sent'.kind = "connect" /\ sent'.fields = fields
    BY <2>1
  <2> QED BY <1>1, <2>1, <2>2
<1>2. CASE Publish
  <2>1. PICK topic \in Topics, payload \in Payloads, q \in QoS :
          sent' = [kind |-> "publish", topic |-> topic, payload |-> payload, qos |-> q]
    BY <1>2 DEF Publish, Sends
  <2>2. Published(sent')
    BY <2>1 DEF Published
  <2> QED BY <1>2, <2>2
<1>3. CASE Subscribe
  <2>1. PICK filters \in Filters : sent' = [kind |-> "subscribe", filters |-> filters]
    BY <1>3 DEF Subscribe, Sends
  <2>2. sent'.kind = "subscribe" /\ sent'.filters = filters
    BY <2>1
  <2> QED BY <1>3, <2>2
<1>4. CASE Unsubscribe
  <2>1. PICK filters \in Filters :
          /\ sent' = [kind |-> "unsubscribe", filters |-> filters]
          /\ got' = UnsubscribePacketCreate(sent')
    BY <1>4 DEF Unsubscribe, Sends
  <2>2. sent'.kind = "unsubscribe" /\ sent'.filters = filters
    BY <2>1
  <2> QED BY <1>4, <2>1, <2>2
<1>5. CASE Control
  <2>1. PICK kind \in {"puback", "pubrec", "pubrel", "pubcomp", "pingreq", "disconnect"} :
          sent' = [kind |-> kind] /\ got' = ConstPacketCreate(sent')
    BY <1>5 DEF Control, Sends
  <2>2. sent'.kind = kind
    BY <2>1
  <2> QED BY <1>5, <2>1, <2>2
<1>6. CASE Others
  BY <1>6 DEF Others
<1>7. CASE UNCHANGED vars
  BY <1>7 DEF vars, wireVars
<1> QED BY <1>1, <1>2, <1>3, <1>4, <1>5, <1>6, <1>7 DEF Next

(* A SUBSCRIBE gets what is read, and what of it is stored.                *)
LEMMA SubscribeGets ==
  ASSUME Subscribe, NEW read, read = SubscribePacketCreate(sent')
  PROVE  /\ got'.status = read.status
         /\ read.status = "read" => got'.texts = read.texts
<1>1. CASE read.status = "read"
  <2>1. PICK stored : got' = [status |-> "read", texts |-> read.texts, stored |-> stored]
    BY <1>1 DEF Subscribe
  <2> QED BY <1>1, <2>1
<1>2. CASE read.status # "read"
  <2>1. got' = read
    BY <1>2 DEF Subscribe
  <2> QED BY <1>2, <2>1
<1> QED BY <1>1, <1>2

(* What is left when the client is done with a packet.                     *)
LEMMA DoneDoes ==
  ASSUME Done
  PROVE  sent'.kind = "none" /\ sent' = NoPacket /\ got'.status = "none" /\ replies' = <<>>
         /\ relayed' = <<>>
<1>1. sent' = NoPacket /\ got' = [status |-> "none"] /\ replies' = <<>> /\ relayed' = <<>>
  BY DEF Done
<1> QED BY <1>1 DEF NoPacket

(* What the broker stores of a CONNECT, SUBSCRIBE or UNSUBSCRIBE is what   *)
(* the client sent if and only if every string in it is one both sides     *)
(* read alike, and the client id is not too long: whatever the packets,    *)
(* and whatever the sizes (mqtt_decode.c:10).                              *)
THEOREM ReadsWhatIsSent == WireSpec => []ReadsAsSent
<1>1. WireInit => ReadsAsSent
  BY DEF WireInit, ReadsAsSent, NoPacket
<1>2. ReadsAsSent /\ [Next]_vars => ReadsAsSent'
  <2> SUFFICES ASSUME ReadsAsSent, [Next]_vars PROVE ReadsAsSent'
    OBVIOUS
  <2>1. CASE /\ sent'.kind = "connect" /\ sent'.fields \in ConnectFields
             /\ got' = ConnectPacketCreate(sent')
    <3>1. got'.status # "version" =>
              (got'.status = "read" /\ got'.texts = SentTexts(sent')
               <=> Plain(sent') /\ sent'.fields[1] < ClientIdLimit)
      BY <2>1, ConnectGot
    <3> QED BY <2>1, <3>1 DEF ReadsAsSent
  <2>2. CASE sent'.kind = "subscribe" /\ sent'.filters \in Filters /\ Subscribe
    <3> DEFINE read == SubscribePacketCreate(sent')
    <3>1. read.status = "read" /\ read.texts = SentTexts(sent') <=> Plain(sent')
      BY <2>2, ListGot
    <3>2. got'.status = read.status /\ (read.status = "read" => got'.texts = read.texts)
      BY <2>2, SubscribeGets
    <3>3. read.status = "read" => (got'.texts = SentTexts(sent') <=> read.texts = SentTexts(sent'))
      BY <3>2
    <3> HIDE DEF read
    <3>4. got'.status = "read" /\ got'.texts = SentTexts(sent') <=> Plain(sent')
      BY <3>1, <3>2, <3>3
    <3> QED BY <2>2, <3>4 DEF ReadsAsSent
  <2>3. CASE /\ sent'.kind = "unsubscribe" /\ sent'.filters \in Filters
             /\ got' = UnsubscribePacketCreate(sent')
    <3>1. got'.status = "read" /\ got'.texts = SentTexts(sent') <=> Plain(sent')
      BY <2>3, ListGot
    <3> QED BY <2>3, <3>1 DEF ReadsAsSent
  <2>4. CASE sent'.kind \notin {"connect", "subscribe", "unsubscribe"}
    BY <2>4 DEF ReadsAsSent
  <2>5. CASE UNCHANGED wireVars
    BY <2>5 DEF ReadsAsSent, wireVars, Plain, Lens, SentTexts
  <2>6. CASE Done
    BY <2>4, <2>6, DoneDoes
  <2>7. CASE Published(sent')
    BY <2>4, <2>7 DEF Published
  <2>8. CASE sent'.kind \in {"puback", "pubrec", "pubrel", "pubcomp", "pingreq", "disconnect"}
    BY <2>4, <2>8
  <2> QED BY <2>1, <2>2, <2>3, <2>5, <2>6, <2>7, <2>8, Steps
<1>3. QED
  BY <1>1, <1>2, PTL DEF WireSpec

(* A PUBLISH is relayed as it was read, and whatever lies behind it.       *)
Relays(p, g, qos, behind) ==
  /\ qos \in 0..p.qos /\ behind \in {<<>>, Fill(1)}
  /\ 0 \in Range(Taken(p)) \/ Len(Body(p)) - TopicLen(p) - 2 < Zeroed => behind = <<>>
  /\ g = [status |-> "read", topic |-> Fill(TopicLen(p)), id |-> TakenId(p),
          payload |-> Cut(Taken(p)) \o behind, ended |-> behind = <<>>]

(* What the broker makes of a PUBLISH, relays and answers.                 *)
LEMMA PublishGets ==
  ASSUME Publish
  PROVE  /\ Published(sent')
         /\ TopicLen(sent') = 0 =>
              got'.status = "crash" /\ ~Plain(sent') /\ replies' = <<>> /\ relayed' = <<>>
         /\ TopicLen(sent') # 0 =>
              \E qos, behind :
                /\ Relays(sent', got', qos, behind)
                /\ relayed' = PublishEncode(got'.topic, qos, id', got'.payload)
                /\ replies' = Acknowledged(sent'.qos, got'.id)
<1>1. PICK topic \in Topics, payload \in Payloads, q \in QoS :
        /\ sent' = [kind |-> "publish", topic |-> topic, payload |-> payload, qos |-> q]
        /\ LET read == PublishPacketCreate(sent')
           IN IF read.status # "read"
              THEN got' = read /\ replies' = <<>> /\ relayed' = <<>> /\ UNCHANGED id
              ELSE \E qos \in 0..q, behind \in {<<>>, Fill(1)} :
                     /\ read.ended => behind = <<>>
                     /\ got' = [read EXCEPT !.payload = @ \o behind, !.ended = behind = <<>>]
                     /\ IF qos > 0 THEN SessionPublishAdd ELSE UNCHANGED id
                     /\ relayed' = PublishEncode(got'.topic, qos, id', got'.payload)
                     /\ replies' = Acknowledged(q, got'.id)
  BY DEF Publish, Sends
<1> DEFINE p == sent'
           read == PublishPacketCreate(p)
<1>2. Published(p) /\ p.qos = q
  BY <1>1 DEF Published
<1>3. /\ TopicLen(p) = 0 => read.status = "crash" /\ ~Plain(p)
      /\ TopicLen(p) # 0 =>
           read = [status |-> "read", topic |-> Fill(TopicLen(p)),
                   id |-> TakenId(p),
                   payload |-> Cut(Taken(p)),
                   ended |-> 0 \in Range(Taken(p))
                             \/ Len(Body(p)) - TopicLen(p) - 2 < Zeroed]
  BY <1>2, PublishGot
<1>4. IF read.status # "read"
      THEN got' = read /\ replies' = <<>> /\ relayed' = <<>> /\ UNCHANGED id
      ELSE \E qos \in 0..q, behind \in {<<>>, Fill(1)} :
             /\ read.ended => behind = <<>>
             /\ got' = [read EXCEPT !.payload = @ \o behind, !.ended = behind = <<>>]
             /\ IF qos > 0 THEN SessionPublishAdd ELSE UNCHANGED id
             /\ relayed' = PublishEncode(got'.topic, qos, id', got'.payload)
             /\ replies' = Acknowledged(q, got'.id)
  BY <1>1
<1> HIDE DEF p, read
<1>5. ASSUME TopicLen(p) = 0
      PROVE  got'.status = "crash" /\ ~Plain(p) /\ replies' = <<>> /\ relayed' = <<>>
  BY <1>3, <1>4, <1>5
<1>6. ASSUME TopicLen(p) # 0
      PROVE  \E qos, behind :
                /\ Relays(p, got', qos, behind)
                /\ relayed' = PublishEncode(got'.topic, qos, id', got'.payload)
                /\ replies' = Acknowledged(p.qos, got'.id)
  <2> DEFINE ended == 0 \in Range(Taken(p)) \/ Len(Body(p)) - TopicLen(p) - 2 < Zeroed
             t == Cut(Taken(p))
  <2>1. read = [status |-> "read", topic |-> Fill(TopicLen(p)), id |-> TakenId(p),
                payload |-> t, ended |-> ended]
    BY <1>3, <1>6
  <2> HIDE DEF ended, t
  <2>2. read.status = "read" /\ read.ended = ended /\ read.payload = t
    BY <2>1
  <2>3. PICK qos \in 0..q, behind \in {<<>>, Fill(1)} :
             /\ read.ended => behind = <<>>
             /\ got' = [read EXCEPT !.payload = @ \o behind, !.ended = behind = <<>>]
             /\ relayed' = PublishEncode(got'.topic, qos, id', got'.payload)
             /\ replies' = Acknowledged(q, got'.id)
    BY <1>4, <2>2
  <2>4. got' = [status |-> "read", topic |-> Fill(TopicLen(p)), id |-> TakenId(p),
                payload |-> t \o behind, ended |-> behind = <<>>]
    BY <2>1, <2>3
  <2>5. Relays(p, got', qos, behind)
    BY <1>2, <2>2, <2>3, <2>4 DEF Relays, ended, t
  <2> QED BY <1>2, <2>3, <2>5
<1> QED BY <1>2, <1>5, <1>6 DEF p

(* A legal packet ends the process, or has it read past the packet, only   *)
(* if it holds a string the two sides do not read alike; an empty one with *)
(* nothing odd before it always does: hex_to_string returns NULL and no    *)
(* caller looks (mqtt_decode.c:46).                                        *)
THEOREM DiesOfLengthsOnly == WireSpec => []DiesOnly
<1>1. WireInit => DiesOnly
  BY DEF WireInit, DiesOnly
<1>2. DiesOnly /\ [Next]_vars => DiesOnly'
  <2> SUFFICES ASSUME DiesOnly, [Next]_vars PROVE DiesOnly'
    OBVIOUS
  <2>1. CASE /\ sent'.kind = "connect" /\ sent'.fields \in ConnectFields
             /\ got' = ConnectPacketCreate(sent')
    <3>1. /\ got'.status \in {"crash", "beyond"} => ~Plain(sent')
          /\ \A i \in DOMAIN Lens(sent') :
               /\ Lens(sent')[i] = 0
               /\ \A j \in 1..(i - 1) : Lens(sent')[j] \in 1..(Base - 1)
               /\ Lens(sent')[1] < ClientIdLimit
               => got'.status \in {"crash", "version"}
      BY <2>1, ConnectGot
    <3> QED BY <3>1, Zenon DEF DiesOnly
  <2>2. ASSUME got'.status \in {"crash", "beyond"} => ~Plain(sent'),
               \A i \in DOMAIN Lens(sent') : Lens(sent')[i] # 0
        PROVE  DiesOnly'
    BY <2>2, Zenon DEF DiesOnly
  <2>3. CASE sent'.kind = "subscribe" /\ sent'.filters \in Filters /\ Subscribe
    <3>1. /\ SubscribePacketCreate(sent').status \in {"crash", "beyond"} => ~Plain(sent')
          /\ \A i \in DOMAIN Lens(sent') : Lens(sent')[i] # 0
      BY <2>3, ListGot
    <3>2. got'.status = SubscribePacketCreate(sent').status
      BY <2>3, SubscribeGets
    <3> QED BY <2>2, <3>1, <3>2
  <2>4. CASE /\ sent'.kind = "unsubscribe" /\ sent'.filters \in Filters
             /\ got' = UnsubscribePacketCreate(sent')
    <3>1. /\ got'.status \in {"crash", "beyond"} => ~Plain(sent')
          /\ \A i \in DOMAIN Lens(sent') : Lens(sent')[i] # 0
      BY <2>4, ListGot
    <3> QED BY <2>2, <3>1
  <2>5. CASE Publish
    <3>1. Published(sent')
      BY <2>5, PublishGets
    <3>2. (got'.status = "crash" /\ ~Plain(sent')) \/ got'.status = "read"
      <4>1. CASE TopicLen(sent') = 0
        BY <2>5, <4>1, PublishGets
      <4>2. CASE TopicLen(sent') # 0
        <5>1. PICK qos, behind : Relays(sent', got', qos, behind)
          BY <2>5, <4>2, PublishGets
        <5>2. got'.status = "read"
          BY <5>1 DEF Relays
        <5> QED BY <5>2
      <4> QED BY <4>1, <4>2
    <3>3. \A i \in DOMAIN Lens(sent') : Lens(sent')[i] # 0
      <4>1. Lens(sent') = <<sent'.topic>> /\ sent'.topic \in Nat \ {0}
        BY <3>1, PublishLies DEF Lens, Published
      <4> QED BY <4>1
    <3> QED BY <2>2, <3>2, <3>3
  <2>6. CASE /\ sent'.kind \in {"puback", "pubrec", "pubrel", "pubcomp", "pingreq", "disconnect"}
             /\ got' = ConstPacketCreate(sent')
    <3>1. got'.status = "read"
      BY <2>6 DEF ConstPacketCreate
    <3>2. Lens(sent') = <<>>
      BY <2>6 DEF Lens
    <3> QED BY <2>2, <3>1, <3>2
  <2>7. CASE Done
    BY <2>7, DoneDoes DEF DiesOnly
  <2>8. CASE UNCHANGED wireVars
    <3>1. sent' = sent /\ got' = got
      BY <2>8 DEF wireVars
    <3>2. Plain(sent') = Plain(sent) /\ Lens(sent') = Lens(sent)
      BY <3>1
    <3> QED BY <3>1, <3>2, Zenon DEF DiesOnly
  <2> QED BY <2>1, <2>3, <2>4, <2>5, <2>6, <2>7, <2>8, Steps
<1>3. QED
  BY <1>1, <1>2, PTL DEF WireSpec

(* What the third and fourth byte of an answer are.                        *)
LEMMA ThirdAndFourth ==
  ASSUME NEW a, NEW l, NEW bytes \in Seq(Nat), Len(bytes) >= 2
  PROVE  SubSeq(<<a, l>> \o bytes, 3, 4) = SubSeq(bytes, 1, 2)
  OBVIOUS

(* What a SUBSCRIBE is answered.                                           *)
Answer(texts, codes) ==
  /\ codes \in Seq(Nat) /\ Len(codes) = Len(texts)
  /\ \/ \A i \in 1..Len(texts) : codes[i] = texts[1][2]
     \/ \A i \in 1..Len(texts) : codes[i] \in {Refused, texts[i][2]}

(* A SUBACK has a code for every text that was read, and stores those that *)
(* are not refused.                                                        *)
LEMMA SubscribeAnswers ==
  ASSUME Subscribe, sent'.kind = "subscribe", sent'.filters \in Filters
  PROVE  LET read == SubscribePacketCreate(sent')
         IN /\ read.status # "read" => replies' = <<>>
            /\ read.status = "read" =>
                 \E codes :
                   /\ Answer(read.texts, codes)
                   /\ got'.stored = {i \in DOMAIN codes : codes[i] # Refused}
                   /\ replies' = <<SubackEncode(codes)>>
<1> SUFFICES ASSUME NEW read, read = SubscribePacketCreate(sent')
             PROVE  /\ read.status # "read" => replies' = <<>>
                    /\ read.status = "read" =>
                         \E codes :
                           /\ Answer(read.texts, codes)
                           /\ got'.stored = {i \in DOMAIN codes : codes[i] # Refused}
                           /\ replies' = <<SubackEncode(codes)>>
  OBVIOUS
<1>1. CASE read.status # "read"
  BY <1>1 DEF Subscribe
<1>2. CASE read.status = "read"
  <2> DEFINE Answered(refused) == [i \in DOMAIN read.texts |->
                 IF read.texts[i] \in refused THEN Refused ELSE read.texts[i][2]]
  <2>1. PICK codes \in {Codes(read.texts)} \cup {Answered(x) : x \in SUBSET Range(read.texts)} :
          /\ got' = [status |-> "read", texts |-> read.texts,
                     stored |-> {i \in DOMAIN codes : Stores(codes[i])}]
          /\ replies' = <<SubackEncode(codes)>>
    BY <1>2 DEF Subscribe
  <2>2. read.texts \in Seq(Text)
    <3>1. read \in Acc
      BY SubscribeAlike
    <3> QED BY <3>1 DEF Acc
  <2> DEFINE texts == read.texts
             n == Len(texts)
  <2>3. n \in Nat /\ DOMAIN texts = 1..n /\ \A i \in 1..n : texts[i][2] \in Nat
    <3>1. \A i \in 1..n : texts[i] \in Text
      BY <2>2
    <3>2. \A t \in Text : t[2] \in Nat
      BY DEF Text
    <3> QED BY <2>2, <3>1, <3>2
  <2>4. Refused \in Nat
    BY BaseAssumption DEF Refused
  <2>5. Answer(texts, codes)
    <3>1. CASE codes = Codes(texts)
      <4>1. codes = [i \in 1..n |-> texts[1][2]]
        BY <3>1, <2>3 DEF Codes
      <4>2. \A i \in 1..n : texts[1][2] \in Nat
        <5>1. n # 0 => 1 \in 1..n
          BY <2>3
        <5> QED BY <5>1, <2>3
      <4> HIDE DEF texts, n
      <4>3. codes \in Seq(Nat) /\ Len(codes) = n /\ \A i \in 1..n : codes[i] = texts[1][2]
        BY <4>1, <4>2, <2>3
      <4> QED BY <4>3 DEF Answer, n
    <3>2. CASE codes \in {Answered(x) : x \in SUBSET Range(texts)}
      <4>1. PICK x : codes = Answered(x)
        BY <3>2
      <4>2. codes = [i \in 1..n |-> IF texts[i] \in x THEN Refused ELSE texts[i][2]]
        BY <4>1, <2>3
      <4> HIDE DEF texts, n
      <4>3. codes \in Seq(Nat) /\ Len(codes) = n /\ \A i \in 1..n : codes[i] \in {Refused, texts[i][2]}
        BY <4>2, <2>3, <2>4
      <4> QED BY <4>3 DEF Answer, n
    <3> QED BY <3>1, <3>2, <2>1
  <2>6. got'.stored = {i \in DOMAIN codes : codes[i] # Refused}
    BY <2>1 DEF Stores
  <2> HIDE DEF Answered
  <2> QED BY <1>2, <2>1, <2>5, <2>6
<1> QED BY <1>1, <1>2

(* Where the length, the identifier and the codes of a SUBACK are.         *)
LEMMA SubackIs ==
  ASSUME NEW codes \in Seq(Nat), NEW s, s = SubackEncode(codes)
  PROVE  /\ Len(s) = Len(codes) + 4
         /\ s[2] = Len(s) - 2
         /\ SubSeq(s, 3, 4) = Identifier
         /\ SubSeq(s, 5, Len(s)) = codes
<1>1. s = (<<"SUBACK", 2 + Len(codes)>> \o <<2, 3>>) \o codes
  BY DEF SubackEncode, Identifier
<1>2. s = <<"SUBACK", 2 + Len(codes), 2, 3>> \o codes
  BY <1>1
<1>3. Len(s) = Len(codes) + 4 /\ s[2] = 2 + Len(codes) /\ s[3] = 2 /\ s[4] = 3
  BY <1>2
<1>4. s[2] = Len(s) - 2
  BY <1>3
<1>5. SubSeq(s, 3, 4) = <<2, 3>>
  <2> DEFINE S == Nat \cup {"SUBACK"}
             u == SubSeq(s, 3, 4)
  <2>1. s \in Seq(S)
    <3>1. <<"SUBACK", 2 + Len(codes), 2, 3>> \in Seq(S)
      OBVIOUS
    <3>2. codes \in Seq(S)
      OBVIOUS
    <3> HIDE DEF S
    <3> QED BY <1>2, <3>1, <3>2, ConcatProperties
  <2>2. 3 \in Nat \ {0} /\ 4 \in Nat /\ 4 <= Len(s) /\ 3 <= 4 + 1 /\ 4 + 1 - 3 = 2
    BY <1>3
  <2> HIDE DEF S
  <2>3. u \in Seq(S) /\ Len(u) = 2 /\ \A i \in 1..2 : u[i] = s[3 + i - 1]
    BY <2>1, <2>2, Slice
  <2>4. u[1] = 2 /\ u[2] = 3
    <3>1. 1 \in 1..2 /\ 2 \in 1..2 /\ 3 + 1 - 1 = 3 /\ 3 + 2 - 1 = 4
      OBVIOUS
    <3> QED BY <3>1, <2>3, <1>3
  <2>5. \A i \in 1..2 : u[i] = <<2, 3>>[i]
    BY <2>4
  <2>6. <<2, 3>> \in Seq(S) /\ Len(<<2, 3>>) = 2
    BY DEF S
  <2> HIDE DEF u
  <2>7. u = <<2, 3>>
    BY <2>3, <2>5, <2>6, SeqEqual
  <2> QED BY <2>7 DEF u
<1>6. SubSeq(s, 5, Len(s)) = codes
  BY <1>2
<1> QED BY <1>3, <1>4, <1>5, <1>6 DEF Identifier

(* The identifier that is found in a packet of two bytes.                  *)
LEMMA ConstGot ==
  ASSUME NEW p, p.kind \in {"puback", "pubrec", "pubrel", "pubcomp"}
  PROVE  ConstPacketCreate(p).id = Identifier
<1>1. Buffer(p) = <<2, 3>> \o <<0, 0>>
  BY DEF Buffer, Body, Identifier
<1>2. Buffer(p) \in Seq(Nat) /\ Len(Buffer(p)) = 4 /\ Buffer(p)[1] = 2 /\ Buffer(p)[2] = 3
  <2> DEFINE a == <<2, 3>>
             z == <<0, 0>>
  <2>1. a \in Seq(Nat) /\ z \in Seq(Nat) /\ Len(a) = 2 /\ Len(z) = 2 /\ a[1] = 2 /\ a[2] = 3
    OBVIOUS
  <2>2. Buffer(p) = a \o z
    BY <1>1
  <2> HIDE DEF a, z
  <2>3. /\ a \o z \in Seq(Nat) /\ Len(a \o z) = Len(a) + Len(z)
        /\ \A i \in 1..Len(a) : (a \o z)[i] = a[i]
    BY <2>1, Concatenated
  <2>4. (a \o z)[1] = a[1] /\ (a \o z)[2] = a[2]
    BY <2>1, <2>3
  <2> QED BY <2>1, <2>2, <2>3, <2>4
<1>3. SubSeq(Buffer(p), 1, 2) = <<2, 3>>
  <2> DEFINE u == SubSeq(Buffer(p), 1, 2)
  <2>1. Buffer(p) \in Seq(Nat) /\ Len(Buffer(p)) = 4 /\ Buffer(p)[1] = 2 /\ Buffer(p)[2] = 3
    BY <1>2
  <2>2. u \in Seq(Nat) /\ Len(u) = 2 + 1 - 1 /\ \A i \in 1..(2 + 1 - 1) : u[i] = Buffer(p)[1 + i - 1]
    <3> DEFINE b == Buffer(p)
    <3>1. Within(b, 1, 2)
      BY <2>1 DEF Within
    <3> HIDE DEF b
    <3>2. \A s, e : Within(b, s, e) =>
            /\ SubSeq(b, s, e) \in Seq(Nat) /\ Len(SubSeq(b, s, e)) = e + 1 - s
            /\ \A i \in 1..(e + 1 - s) : SubSeq(b, s, e)[i] = b[s + i - 1]
      <4> SUFFICES ASSUME NEW s, NEW e, Within(b, s, e)
                   PROVE  /\ SubSeq(b, s, e) \in Seq(Nat) /\ Len(SubSeq(b, s, e)) = e + 1 - s
                          /\ \A i \in 1..(e + 1 - s) : SubSeq(b, s, e)[i] = b[s + i - 1]
        OBVIOUS
      <4> QED BY SliceWithin
    <3>3. /\ SubSeq(b, 1, 2) \in Seq(Nat) /\ Len(SubSeq(b, 1, 2)) = 2 + 1 - 1
          /\ \A i \in 1..(2 + 1 - 1) : SubSeq(b, 1, 2)[i] = b[1 + i - 1]
      BY <3>1, <3>2
    <3> QED BY <3>3 DEF b
  <2>3. \A i \in 1..2 : u[i] = <<2, 3>>[i]
    <3>1. u[1] = Buffer(p)[1] /\ u[2] = Buffer(p)[2]
      <4>1. 1 \in 1..(2 + 1 - 1) /\ 2 \in 1..(2 + 1 - 1) /\ 1 + 1 - 1 = 1 /\ 1 + 2 - 1 = 2
        OBVIOUS
      <4> QED BY <2>2, <4>1
    <3>2. \A i \in 1..2 : i = 1 \/ i = 2
      OBVIOUS
    <3> QED BY <3>1, <3>2, <2>1
  <2>4. <<2, 3>> \in Seq(Nat) /\ Len(<<2, 3>>) = 2 /\ Len(u) = 2
    BY <2>2
  <2> HIDE DEF u
  <2>5. u = <<2, 3>>
    BY <2>2, <2>3, <2>4, SeqEqual
  <2> QED BY <2>5 DEF u
<1> QED BY <1>3 DEF ConstPacketCreate, Identifier

(* The first two bytes of two bytes.                                       *)
LEMMA FirstTwo ==
  ASSUME NEW bytes \in Seq(Nat), Len(bytes) = 2
  PROVE  SubSeq(bytes, 1, 2) = bytes
<1>1. SubSeq(bytes, 1, Len(bytes)) = bytes
  OBVIOUS
<1> QED BY <1>1

(* An answer of two bytes carries them.                                    *)
LEMMA ConstPacketIs ==
  ASSUME NEW type, NEW bytes \in Seq(Nat), Len(bytes) = 2
  PROVE  SubSeq(ConstPacket(type, bytes), 3, 4) = bytes
<1>1. SubSeq(ConstPacket(type, bytes), 3, 4) = SubSeq(bytes, 1, 2)
  <2>1. Len(bytes) >= 2
    OBVIOUS
  <2>2. ConstPacket(type, bytes) = <<type, 2>> \o bytes
    BY DEF ConstPacket
  <2> QED BY <2>1, <2>2, ThirdAndFourth
<1>2. SubSeq(bytes, 1, 2) = bytes
  BY FirstTwo
<1> QED BY <1>1, <1>2

(* Whatever is answered with an identifier is answered with the one that   *)
(* came, unless it is a PUBLISH whose topic the two sides do not read      *)
(* alike: then never, because what is taken for the identifier is part of  *)
(* the topic (mqtt_decode.c:192).                                          *)
THEOREM AnsweredWithWhatCame == WireSpec => []AcknowledgesTheSame
<1>1. WireInit => AcknowledgesTheSame
  BY DEF WireInit, AcknowledgesTheSame
<1>2. AcknowledgesTheSame /\ [Next]_vars => AcknowledgesTheSame'
  <2> SUFFICES ASSUME AcknowledgesTheSame, [Next]_vars PROVE AcknowledgesTheSame'
    OBVIOUS
  <2>1. ASSUME sent'.kind # "publish", SubSeq(replies'[1], 3, 4) = Identifier
        PROVE  AcknowledgesTheSame'
    BY <2>1, Zenon DEF AcknowledgesTheSame
  <2>2. CASE replies' = <<>> \/ sent'.kind \in {"connect", "pingreq"}
    BY <2>2, Zenon DEF AcknowledgesTheSame
  <2>3. CASE sent'.kind = "subscribe" /\ sent'.filters \in Filters /\ Subscribe
    <3> DEFINE read == SubscribePacketCreate(sent')
    <3>1. CASE read.status # "read"
      BY <2>2, <2>3, <3>1, SubscribeAnswers
    <3>2. CASE read.status = "read"
      <4>1. PICK codes : Answer(read.texts, codes) /\ replies' = <<SubackEncode(codes)>>
        BY <2>3, <3>2, SubscribeAnswers
      <4>2. codes \in Seq(Nat)
        BY <4>1 DEF Answer
      <4>3. SubSeq(SubackEncode(codes), 3, 4) = Identifier
        BY <4>2, SubackIs
      <4>4. replies'[1] = SubackEncode(codes)
        BY <4>1
      <4>5. sent'.kind # "publish"
        BY <2>3
      <4> QED BY <2>1, <4>3, <4>4, <4>5
    <3> QED BY <3>1, <3>2
  <2>4. CASE sent'.kind = "unsubscribe" /\ Unsubscribe
    <3>1. replies' = <<>> \/ replies' = <<ConstPacket("UNSUBACK", Identifier)>>
      BY <2>4 DEF Unsubscribe
    <3>2. SubSeq(ConstPacket("UNSUBACK", Identifier), 3, 4) = Identifier
      <4>1. Identifier \in Seq(Nat) /\ Len(Identifier) = 2
        BY DEF Identifier
      <4> QED BY <4>1, ConstPacketIs
    <3>3. CASE replies' = <<>>
      BY <2>2, <3>3
    <3>4. CASE replies' = <<ConstPacket("UNSUBACK", Identifier)>>
      <4>1. replies'[1] = ConstPacket("UNSUBACK", Identifier) /\ sent'.kind # "publish"
        BY <2>4, <3>4
      <4> QED BY <2>1, <3>2, <4>1
    <3> QED BY <3>1, <3>3, <3>4
  <2>5. CASE Publish
    <3> DEFINE p == sent'
    <3>1. Published(p)
      BY <2>5, PublishGets
    <3>2. CASE TopicLen(p) = 0
      BY <2>2, <2>5, <3>2, PublishGets
    <3>3. CASE TopicLen(p) # 0
      <4>1. PICK qos, behind : Relays(p, got', qos, behind) /\ replies' = Acknowledged(p.qos, got'.id)
        BY <2>5, <3>3, PublishGets
      <4>2. got'.id = TakenId(p)
        BY <4>1 DEF Relays
      <4>3. p.qos \in {0, 1, 2} /\ p.kind = "publish"
        BY <3>1 DEF Published, QoS
      <4>4. CASE p.qos = 0
        BY <2>2, <4>1, <4>4 DEF Acknowledged
      <4>5. CASE p.qos # 0
        <5>1. \E type : replies' = <<ConstPacket(type, TakenId(p))>>
          BY <4>1, <4>2, <4>3, <4>5 DEF Acknowledged
        <5>2. PICK type : replies'[1] = ConstPacket(type, TakenId(p))
          BY <5>1
        <5>3. SubSeq(replies'[1], 3, 4) = TakenId(p)
          BY <3>1, <5>2, IdTaken, ConstPacketIs
        <5>4. TakenId(p) = Identifier <=> Plain(p)
          BY <3>1, <4>3, <4>5, IdTaken
        <5> QED BY <4>3, <5>3, <5>4, Zenon DEF AcknowledgesTheSame
      <4> QED BY <4>4, <4>5
    <3> QED BY <3>2, <3>3
  <2>6. CASE /\ sent'.kind \in {"puback", "pubrec", "pubrel", "pubcomp", "pingreq", "disconnect"}
             /\ got' = ConstPacketCreate(sent') /\ Control
    <3>1. replies' = Answers(sent'.kind, got'.id)
      <4>1. PICK kind : sent' = [kind |-> kind] /\ replies' = Answers(kind, got'.id)
        BY <2>6 DEF Control, Sends
      <4> QED BY <4>1
    <3>2. CASE sent'.kind \in {"pubrec", "pubrel"}
      <4>1. got'.id = Identifier
        BY <2>6, <3>2, ConstGot
      <4>2. PICK type : replies' = <<ConstPacket(type, Identifier)>>
        BY <3>1, <3>2, <4>1 DEF Answers
      <4>3. Identifier \in Seq(Nat) /\ Len(Identifier) = 2
        BY DEF Identifier
      <4>4. SubSeq(ConstPacket(type, Identifier), 3, 4) = Identifier
        BY <4>3, ConstPacketIs
      <4>5. replies'[1] = ConstPacket(type, Identifier) /\ sent'.kind # "publish"
        BY <3>2, <4>2
      <4> QED BY <2>1, <4>4, <4>5
    <3>3. CASE sent'.kind \in {"puback", "pubcomp", "disconnect"}
      <4>1. replies' = <<>>
        BY <3>1, <3>3 DEF Answers
      <4> QED BY <2>2, <4>1
    <3>4. CASE sent'.kind = "pingreq"
      BY <2>2, <3>4
    <3> QED BY <2>6, <3>2, <3>3, <3>4
  <2>7. CASE Done
    BY <2>2, <2>7, DoneDoes
  <2>8. CASE UNCHANGED wireVars
    <3>1. sent' = sent /\ got' = got /\ replies' = replies
      BY <2>8 DEF wireVars
    <3>2. Plain(sent') = Plain(sent)
      BY <3>1
    <3> QED BY <3>1, <3>2, Zenon DEF AcknowledgesTheSame
  <2>9. CASE sent'.kind = "connect"
    BY <2>2, <2>9
  <2> QED BY <2>3, <2>4, <2>5, <2>6, <2>7, <2>8, <2>9, Steps
<1>3. QED
  BY <1>1, <1>2, PTL DEF WireSpec

(* The codes of a SUBSCRIBE that is read as it was sent.                   *)
LEMMA RightCodes ==
  ASSUME NEW p, p.kind = "subscribe", p.filters \in Filters,
         NEW codes, Answer(SentTexts(p), codes)
  PROVE  /\ DOMAIN codes = DOMAIN p.filters
         /\ \A i \in DOMAIN codes :
              codes[i] \notin {Refused, p.filters[i][2]} =>
                codes = [j \in DOMAIN codes |-> p.filters[1][2]]
<1> DEFINE texts == SentTexts(p)
           n == Len(p.filters)
<1>1. /\ DOMAIN Lens(p) = 1..n /\ DOMAIN p.filters = 1..n
      /\ n \in Nat \ {0}
  BY SubscribeAlike
<1>2. texts = [i \in DOMAIN Lens(p) |-> <<Fill(Lens(p)[i]), p.filters[i][2]>>]
  BY DEF SentTexts
<1>3. Len(texts) = n
  BY <1>1, <1>2
<1>4. \A i \in 1..n : texts[i][2] = p.filters[i][2]
  BY <1>1, <1>2
<1>5. Answer(texts, codes)
  OBVIOUS
<1> HIDE DEF texts, n
<1>6. codes \in Seq(Nat) /\ Len(codes) = n
  BY <1>3, <1>5 DEF Answer
<1>7. DOMAIN codes = 1..n
  BY <1>6
<1>8. CASE \A i \in 1..n : codes[i] = texts[1][2]
  <2>1. 1 \in 1..n
    BY <1>1
  <2>2. \A i \in 1..n : codes[i] = p.filters[1][2]
    BY <1>4, <1>8, <2>1
  <2>3. codes = [j \in 1..n |-> codes[j]]
    BY <1>6, <1>7
  <2>4. [j \in 1..n |-> codes[j]] = [j \in 1..n |-> p.filters[1][2]]
    BY <2>2
  <2>5. codes = [j \in DOMAIN codes |-> p.filters[1][2]]
    BY <2>3, <2>4, <1>7
  <2> QED BY <2>5, <1>1, <1>7
<1>9. CASE \A i \in 1..n : codes[i] \in {Refused, texts[i][2]}
  <2>1. \A i \in 1..n : codes[i] \in {Refused, p.filters[i][2]}
    BY <1>4, <1>9
  <2> QED BY <2>1, <1>1, <1>7
<1> QED BY <1>3, <1>5, <1>8, <1>9 DEF Answer

(* A SUBACK is as long as it says, answers every filter, refuses exactly   *)
(* those that are not subscribed, and where it names another quality of    *)
(* service than the one that is subscribed it is the first filter's:       *)
(* whatever filters of 1 to 127 bytes are sent, however many, and whatever *)
(* the plugin says of each (event.c:251).                                  *)
THEOREM SubackTellsWhatIsStored == WireSpec => []SubackAnswers
<1>1. WireInit => SubackAnswers
  BY DEF WireInit, SubackAnswers, NoPacket
<1>2. SubackAnswers /\ [Next]_vars => SubackAnswers'
  <2> SUFFICES ASSUME SubackAnswers, [Next]_vars PROVE SubackAnswers'
    OBVIOUS
  <2>1. CASE sent'.kind # "subscribe"
    BY <2>1, Zenon DEF SubackAnswers
  <2>2. CASE ~Plain(sent')
    BY <2>2, Zenon DEF SubackAnswers
  <2>3. CASE Plain(sent') /\ sent'.kind = "subscribe" /\ sent'.filters \in Filters /\ Subscribe
    <3> DEFINE read == SubscribePacketCreate(sent')
               p == sent'
               s == replies'[1]
    <3>1. read.status = "read" /\ read.texts = SentTexts(p)
      BY <2>3, ListGot
    <3>2. PICK codes : /\ Answer(read.texts, codes)
                       /\ got'.stored = {i \in DOMAIN codes : codes[i] # Refused}
                       /\ replies' = <<SubackEncode(codes)>>
      BY <2>3, <3>1, SubscribeAnswers
    <3>3. s = SubackEncode(codes) /\ codes \in Seq(Nat) /\ Answer(SentTexts(p), codes)
      <4>1. Answer(SentTexts(p), codes)
        BY <3>1, <3>2, Zenon
      <4> QED BY <3>2, <4>1 DEF Answer
    <3>4. s[2] = Len(s) - 2 /\ SubSeq(s, 5, Len(s)) = codes
      BY <3>3, SubackIs
    <3>5. /\ DOMAIN codes = DOMAIN p.filters
          /\ \A i \in DOMAIN codes :
               codes[i] \notin {Refused, p.filters[i][2]} =>
                 codes = [j \in DOMAIN codes |-> p.filters[1][2]]
      <4>1. p.kind = "subscribe" /\ p.filters \in Filters
        BY <2>3
      <4> HIDE DEF p
      <4> QED BY <3>3, <4>1, RightCodes DEF p
    <3>6. \A i \in DOMAIN codes : codes[i] = Refused <=> i \notin got'.stored
      BY <3>2
    <3>7. LET u == SubSeq(s, 5, Len(s))
          IN /\ s[2] = Len(s) - 2
             /\ DOMAIN u = DOMAIN p.filters
             /\ \A i \in DOMAIN u :
                  /\ u[i] = Refused <=> i \notin got'.stored
                  /\ u[i] \notin {Refused, p.filters[i][2]} =>
                       u = [j \in DOMAIN u |-> p.filters[1][2]]
      <4> HIDE DEF s, p
      <4> QED BY <3>4, <3>5, <3>6
    <3> QED BY <3>7, Zenon DEF SubackAnswers
  <2>4. CASE UNCHANGED wireVars
    BY <2>4 DEF SubackAnswers, wireVars, Plain, Lens
  <2>5. CASE Done
    BY <2>1, <2>5, DoneDoes
  <2>6. CASE Published(sent')
    BY <2>1, <2>6 DEF Published
  <2>7. CASE sent'.kind \in {"connect", "unsubscribe"} \cup
                            {"puback", "pubrec", "pubrel", "pubcomp", "pingreq", "disconnect"}
    BY <2>1, <2>7
  <2> QED BY <2>2, <2>3, <2>4, <2>5, <2>6, <2>7, Steps
<1>3. QED
  BY <1>1, <1>2, PTL DEF WireSpec
-----------------------------------------------------------------------------
(* What is written for a subscriber, and what it makes of it.              *)

(* A length as the broker writes it.                                       *)
LEMMA MLIs ==
  ASSUME NEW m \in Nat
  PROVE  /\ ML(m) \in Seq(Nat) /\ Len(ML(m)) = 2
         /\ m < Base => ML(m)[1] = 0 /\ ML(m)[2] = m
         /\ m >= Base /\ m < Base * Base => ML(m)[1] >= Base /\ ML(m)[2] < Base
<1> USE BaseAssumption
<1>1. CASE m < Base
  <2>1. ML(m) = <<0, m>>
    BY <1>1 DEF ML, MLEncode, Byte, Written
  <2> QED BY <1>1, <2>1
<1>2. CASE m >= Base /\ m < Base * Base
  <2>1. ML(m) = <<(m % Base) + Base, m \div Base>>
    <3>1. m \div Base + 0 = m \div Base
      OBVIOUS
    <3> QED BY <1>2, <3>1 DEF ML, MLEncode, Byte, Written
  <2>2. m % Base \in Nat /\ m \div Base \in Nat
    OBVIOUS
  <2>3. m \div Base < Base
    <3> DEFINE d == m \div Base
    <3>1. d \in Nat /\ m >= Base * d
      OBVIOUS
    <3> HIDE DEF d
    <3>2. d >= Base => Base * d >= Base * Base
      BY <3>1
    <3>3. d < Base
      BY <3>1, <3>2, <1>2
    <3> QED BY <3>3 DEF d
  <2> DEFINE x == m % Base
             y == m \div Base
  <2>4. ML(m) = <<x + Base, y>> /\ x \in Nat /\ y \in Nat /\ y < Base
    BY <2>1, <2>2, <2>3
  <2> HIDE DEF x, y
  <2> QED BY <1>2, <2>4
<1>3. CASE m >= Base /\ ~(m < Base * Base)
  <2> DEFINE x == (m \div Base) % Base
             y == m \div (Base * Base)
  <2>1. ML(m) = <<x + Base, y>>
    <3>1. y \in Nat
      <4>1. Base * Base \in Nat \ {0}
        OBVIOUS
      <4> QED BY <4>1
    <3>2. y + 0 = y
      BY <3>1
    <3> QED BY <1>3, <3>2 DEF ML, MLEncode, Byte, Written
  <2>2. x \in Nat /\ y \in Nat
    <3>1. Base * Base \in Nat \ {0}
      OBVIOUS
    <3>2. m \div Base \in Nat
      OBVIOUS
    <3> QED BY <3>1, <3>2
  <2> HIDE DEF x, y
  <2> QED BY <1>3, <2>1, <2>2
<1> QED BY <1>1, <1>2, <1>3

(* Where each byte of a PUBLISH lies.                                      *)
IdRoom(qos) == IF qos > 0 THEN 2 ELSE 0
Rest(m, qos, c) == 2 + m + IdRoom(qos) + Len(c)
WrittenOut(r, qos, m, row, c) ==
  /\ r \in Seq(Nat) /\ Len(r) = Rest(m, qos, c) + 2
  /\ r[2] = Rest(m, qos, c) % (2 * Base)
  /\ r[3] = ML(m)[1] /\ r[4] = ML(m)[2]
  /\ \A i \in 1..m : r[4 + i] = 1
  /\ \A i \in 1..IdRoom(qos) : r[4 + m + i] = ML(row)[i]
  /\ \A i \in 1..Len(c) : r[4 + m + IdRoom(qos) + i] = c[i]

(* A PUBLISH as mqtt_publish_encode_qos_0 and _1_2 write it.               *)
LEMMA EncodedIs ==
  ASSUME NEW m \in Nat, NEW qos \in Nat, NEW row \in Nat, NEW c \in Seq(Nat)
  PROVE  /\ WrittenOut(PublishEncode(Fill(m), qos, row, c), qos, m, row, c)
         /\ PublishEncode(Fill(m), qos, row, c)[1] = qos
<1> DEFINE a == ML(m)
           f == Fill(m)
           x == IF qos > 0 THEN ML(row) ELSE <<>>
           u == a \o f
           v == u \o x
           w == v \o c
           h == <<qos, Len(w) % (2 * Base)>>
           r == h \o w
           k == IdRoom(qos)
<1>1. a \in Seq(Nat) /\ Len(a) = 2
  BY MLIs
<1>2. f \in Seq(Nat) /\ Len(f) = m /\ \A i \in 1..m : f[i] = 1
  BY DEF Fill
<1>3. x \in Seq(Nat) /\ Len(x) = k /\ \A i \in 1..k : x[i] = ML(row)[i]
  <2>1. CASE qos > 0
    <3>1. ML(row) \in Seq(Nat) /\ Len(ML(row)) = 2
      BY MLIs
    <3> QED BY <2>1, <3>1 DEF IdRoom
  <2>2. CASE ~(qos > 0)
    BY <2>2 DEF IdRoom
  <2> QED BY <2>1, <2>2
<1>4. k \in Nat
  BY DEF IdRoom
<1>5. PublishEncode(Fill(m), qos, row, c) = r
  <2>1. Len(Fill(m)) = m
    BY <1>2
  <2> QED BY <2>1, Zenon DEF PublishEncode
<1> HIDE DEF a, f, x, k
<1>6. /\ u \in Seq(Nat) /\ Len(u) = Len(a) + Len(f)
      /\ \A i \in 1..Len(a) : u[i] = a[i]
      /\ \A i \in 1..Len(f) : u[Len(a) + i] = f[i]
  <2>1. a \in Seq(Nat) /\ f \in Seq(Nat)
    BY <1>1, <1>2
  <2> QED BY <2>1, Concatenated
<1> HIDE DEF u
<1>7. /\ v \in Seq(Nat) /\ Len(v) = Len(u) + Len(x)
      /\ \A i \in 1..Len(u) : v[i] = u[i]
      /\ \A i \in 1..Len(x) : v[Len(u) + i] = x[i]
  <2>1. u \in Seq(Nat) /\ x \in Seq(Nat)
    BY <1>3, <1>6
  <2> QED BY <2>1, Concatenated
<1> HIDE DEF v
<1>8. /\ w \in Seq(Nat) /\ Len(w) = Len(v) + Len(c)
      /\ \A i \in 1..Len(v) : w[i] = v[i]
      /\ \A i \in 1..Len(c) : w[Len(v) + i] = c[i]
  <2>1. v \in Seq(Nat) /\ c \in Seq(Nat)
    BY <1>7
  <2> QED BY <2>1, Concatenated
<1> HIDE DEF w
<1>9. h \in Seq(Nat) /\ Len(h) = 2 /\ h[1] = qos /\ h[2] = Len(w) % (2 * Base)
  <2>1. Len(w) % (2 * Base) \in Nat
    <3>1. 2 * Base \in Nat \ {0} /\ Len(w) \in Nat
      BY <1>8, BaseAssumption
    <3> QED BY <3>1
  <2> DEFINE y == Len(w) % (2 * Base)
  <2> HIDE DEF y
  <2>2. <<qos, y>> \in Seq(Nat) /\ Len(<<qos, y>>) = 2 /\ <<qos, y>>[1] = qos /\ <<qos, y>>[2] = y
    BY <2>1 DEF y
  <2> QED BY <2>2 DEF y
<1> HIDE DEF h
<1>10. /\ r \in Seq(Nat) /\ Len(r) = Len(h) + Len(w)
       /\ \A i \in 1..Len(h) : r[i] = h[i]
       /\ \A i \in 1..Len(w) : r[Len(h) + i] = w[i]
  <2>1. h \in Seq(Nat) /\ w \in Seq(Nat)
    BY <1>8, <1>9
  <2> QED BY <2>1, Concatenated
<1> HIDE DEF r
<1> DEFINE n == Len(c)
<1>11. n \in Nat /\ Len(u) = 2 + m /\ Len(v) = 2 + m + k /\ Len(w) = 2 + m + k + n
  BY <1>1, <1>2, <1>3, <1>4, <1>6, <1>7, <1>8
<1> HIDE DEF n
<1>12. \A i \in 1..Len(w) : r[2 + i] = w[i]
  BY <1>9, <1>10
<1>13. Rest(m, qos, c) = Len(w)
  BY <1>11 DEF Rest, k, n
<1>14. Len(r) = Rest(m, qos, c) + 2 /\ r[1] = qos /\ r[2] = Rest(m, qos, c) % (2 * Base)
  <2>1. Len(r) = Rest(m, qos, c) + 2
    BY <1>9, <1>10, <1>11, <1>13
  <2>2. r[1] = h[1] /\ r[2] = h[2]
    BY <1>9, <1>10
  <2>3. r[2] = Rest(m, qos, c) % (2 * Base)
    BY <2>2, <1>9, <1>13
  <2> QED BY <2>1, <2>2, <2>3, <1>9
<1>15. r[3] = a[1] /\ r[4] = a[2]
  <2>1. 1 \in 1..Len(w) /\ 2 \in 1..Len(w) /\ 1 \in 1..Len(v) /\ 2 \in 1..Len(v)
        /\ 1 \in 1..Len(u) /\ 2 \in 1..Len(u) /\ 1 \in 1..Len(a) /\ 2 \in 1..Len(a)
    BY <1>1, <1>4, <1>11
  <2>2. r[2 + 1] = w[1] /\ r[2 + 2] = w[2]
    BY <2>1, <1>12
  <2>3. w[1] = v[1] /\ w[2] = v[2]
    BY <2>1, <1>8
  <2>4. v[1] = u[1] /\ v[2] = u[2]
    BY <2>1, <1>7
  <2>5. u[1] = a[1] /\ u[2] = a[2]
    BY <2>1, <1>6
  <2> QED BY <2>2, <2>3, <2>4, <2>5
<1>16. ASSUME NEW i \in 1..m PROVE r[4 + i] = 1
  <2>1. /\ 2 + i \in 1..Len(w) /\ 2 + i \in 1..Len(v) /\ 2 + i \in 1..Len(u)
        /\ i \in 1..Len(f) /\ 4 + i = 2 + (2 + i) /\ 2 + i = Len(a) + i
    BY <1>1, <1>2, <1>4, <1>11
  <2>2. r[4 + i] = w[2 + i]
    BY <2>1, <1>12
  <2>3. w[2 + i] = v[2 + i]
    BY <2>1, <1>8
  <2>4. v[2 + i] = u[2 + i]
    BY <2>1, <1>7
  <2>5. u[2 + i] = f[i]
    BY <2>1, <1>6
  <2> QED BY <2>2, <2>3, <2>4, <2>5, <1>2
<1>17. ASSUME NEW i \in 1..k PROVE r[4 + m + i] = ML(row)[i]
  <2>1. /\ 2 + m + i \in 1..Len(w) /\ 2 + m + i \in 1..Len(v) /\ i \in 1..Len(x)
        /\ 4 + m + i = 2 + (2 + m + i) /\ 2 + m + i = Len(u) + i
    BY <1>3, <1>4, <1>11
  <2>2. r[4 + m + i] = w[2 + m + i]
    BY <2>1, <1>12
  <2>3. w[2 + m + i] = v[2 + m + i]
    BY <2>1, <1>8
  <2>4. v[2 + m + i] = x[i]
    BY <2>1, <1>7
  <2> QED BY <2>2, <2>3, <2>4, <1>3
<1>18. ASSUME NEW i \in 1..n PROVE r[4 + m + k + i] = c[i]
  <2>1. /\ 2 + m + k + i \in 1..Len(w) /\ i \in 1..Len(c)
        /\ 4 + m + k + i = 2 + (2 + m + k + i) /\ 2 + m + k + i = Len(v) + i
    BY <1>4, <1>11 DEF n
  <2> QED BY <2>1, <1>12, <1>8
<1>19. WrittenOut(r, qos, m, row, c)
  BY <1>10, <1>14, <1>15, <1>16, <1>17, <1>18 DEF WrittenOut, k, n, a
<1> QED BY <1>5, <1>14, <1>19

(* What a subscriber makes of it, once it knows where the length ends.     *)
IsValue(b, last, f) ==
  f = [i \in 2..(last + 1) |-> IF i > last THEN 0 ELSE (b[i] % Base) + Base * f[i + 1]]
Value(b, last) == CHOOSE f : IsValue(b, last, f)
TakenApart(body, size, qos) ==
  LET topic == body[1] * 2 * Base + body[2]
      head == 2 + topic + IF qos > 0 THEN 2 ELSE 0
  IN IF size # Len(body) \/ Len(body) < head
     THEN [whole |-> FALSE]
     ELSE [whole |-> TRUE, topic |-> SubSeq(body, 3, 2 + topic),
           id |-> SubSeq(body, 3 + topic, head),
           payload |-> SubSeq(body, head + 1, Len(body))]
ReceivedFrom(b, qos, last) ==
  LET size == Value(b, last)[2]
      body == SubSeq(b, last + 1, Len(b))
      topic == body[1] * 2 * Base + body[2]
      head == 2 + topic + IF qos > 0 THEN 2 ELSE 0
  IN IF Digits(b) = {} \/ size # Len(body) \/ Len(body) < head
     THEN [whole |-> FALSE]
     ELSE [whole |-> TRUE, topic |-> SubSeq(body, 3, 2 + topic),
           id |-> SubSeq(body, 3 + topic, head),
           payload |-> SubSeq(body, head + 1, Len(body))]

(* A subscriber that finds the last digit of the length takes apart what   *)
(* is behind it.                                                           *)
LEMMA ReceivedIs ==
  ASSUME NEW b \in Seq(Nat), NEW qos, NEW last \in 2..Len(b),
         \A j \in 2..last : b[j] >= Base <=> j < last
  PROVE  Received(b, qos) = TakenApart(SubSeq(b, last + 1, Len(b)), Value(b, last)[2], qos)
<1>1. Len(b) \in Nat
  OBVIOUS
<1>2. \A i \in Digits(b) : i = last
  <2> SUFFICES ASSUME NEW i \in 2..Len(b), \A j \in 2..i : b[j] >= Base <=> j < i PROVE i = last
    BY DEF Digits
  <2>1. CASE i < last
    <3>1. i \in 2..i /\ i \in 2..last
      BY <2>1, <1>1
    <3> QED BY <3>1, <2>1
  <2>2. CASE last < i
    <3>1. last \in 2..i /\ last \in 2..last
      BY <2>2, <1>1
    <3> QED BY <3>1, <2>2
  <2> QED BY <2>1, <2>2, <1>1
<1>3. last \in Digits(b)
  BY DEF Digits
<1>4. Digits(b) = {last}
  BY <1>2, <1>3
<1>5. (CHOOSE i \in Digits(b) : TRUE) = last
  BY <1>4
<1>6. Received(b, qos) = ReceivedFrom(b, qos, CHOOSE i \in Digits(b) : TRUE)
  BY Zenon DEF Received, ReceivedFrom, Value, IsValue
<1>7. Received(b, qos) = ReceivedFrom(b, qos, last)
  BY <1>5, <1>6, Zenon
<1>8. Digits(b) # {}
  BY <1>3
<1>9. ReceivedFrom(b, qos, last) = TakenApart(SubSeq(b, last + 1, Len(b)), Value(b, last)[2], qos)
  <2> DEFINE z == Digits(b)
             v == Value(b, last)[2]
             body == SubSeq(b, last + 1, Len(b))
  <2>1. z # {}
    BY <1>8
  <2>2. ReceivedFrom(b, qos, last) =
        LET topic == body[1] * 2 * Base + body[2]
            head == 2 + topic + IF qos > 0 THEN 2 ELSE 0
        IN IF z = {} \/ v # Len(body) \/ Len(body) < head
           THEN [whole |-> FALSE]
           ELSE [whole |-> TRUE, topic |-> SubSeq(body, 3, 2 + topic),
                 id |-> SubSeq(body, 3 + topic, head),
                 payload |-> SubSeq(body, head + 1, Len(body))]
    BY Zenon DEF ReceivedFrom
  <2> HIDE DEF z, v, body
  <2>3. ReceivedFrom(b, qos, last) = TakenApart(body, v, qos)
    BY <2>1, <2>2 DEF TakenApart
  <2> QED BY <2>3 DEF v, body
<1> QED BY <1>7, <1>9

(* A number of one digit is its own remainder.                             *)
LEMMA SmallRemainder ==
  ASSUME NEW x \in Nat, x < Base
  PROVE  x % Base = x /\ (x % Base) + Base * 0 = x
<1> DEFINE y == x % Base
           d == x \div Base
<1>1. Base \in Nat \ {0}
  BY BaseAssumption
<1>2. d \in Nat /\ y \in 0..(Base - 1) /\ x = Base * d + y
  BY <1>1
<1> HIDE DEF y, d
<1>3. d >= 1 => Base * d >= Base
  BY <1>1, <1>2
<1>4. d = 0
  BY <1>1, <1>2, <1>3
<1>5. y = x /\ y + Base * 0 = x
  BY <1>1, <1>2, <1>4
<1> QED BY <1>5 DEF y

(* The recursive function with which the length is read exists when some   *)
(* function is what it says.                                               *)
LEMMA ValueIs ==
  ASSUME NEW b \in Seq(Nat), NEW last, NEW f, IsValue(b, last, f)
  PROVE  IsValue(b, last, Value(b, last))
  BY DEF Value

(* A length of one byte, and one of two of which the second is zero.       *)
LEMMA ShortLength ==
  ASSUME NEW b \in Seq(Nat), Len(b) >= 4
  PROVE  /\ b[2] < Base => Value(b, 2)[2] = b[2]
         /\ b[2] < 2 * Base /\ b[3] = 0 => Value(b, 3)[2] < Base
         /\ b[2] = Base /\ b[3] = 0 => Value(b, 3)[2] = 0
<1> USE BaseAssumption
<1>1. b[2] \in Nat /\ b[3] \in Nat
  OBVIOUS
<1>2. ASSUME b[2] < Base PROVE Value(b, 2)[2] = b[2]
  <2> DEFINE f == [i \in 2..3 |-> IF i > 2 THEN 0 ELSE b[2]]
             v == Value(b, 2)
  <2>1. f[3] = 0 /\ f[2] = b[2]
    OBVIOUS
  <2>2. (b[2] % Base) + Base * 0 = b[2]
    BY <1>1, <1>2, SmallRemainder
  <2>3. \A i \in 2..3 : f[i] = IF i > 2 THEN 0 ELSE (b[i] % Base) + Base * f[i + 1]
    <3>1. \A i \in 2..3 : i = 2 \/ i = 3
      OBVIOUS
    <3> QED BY <3>1, <2>1, <2>2
  <2>4. f = [i \in 2..3 |-> f[i]]
    OBVIOUS
  <2> HIDE DEF f
  <2>5. [i \in 2..3 |-> f[i]] = [i \in 2..3 |-> IF i > 2 THEN 0 ELSE (b[i] % Base) + Base * f[i + 1]]
    BY <2>3
  <2>6. IsValue(b, 2, f)
    BY <2>4, <2>5 DEF IsValue
  <2>7. IsValue(b, 2, v)
    BY <2>6, ValueIs
  <2> HIDE DEF v
  <2>8. v[3] = 0 /\ v[2] = (b[2] % Base) + Base * v[3]
    BY <2>7 DEF IsValue
  <2> QED BY <2>2, <2>8 DEF v
<1>3. ASSUME b[3] = 0 PROVE Value(b, 3)[2] = b[2] % Base
  <2> DEFINE x == b[2] % Base
             f == [i \in 2..4 |-> IF i > 2 THEN 0 ELSE x]
             v == Value(b, 3)
  <2>1. f[4] = 0 /\ f[3] = 0 /\ f[2] = x
    OBVIOUS
  <2>2. x + Base * 0 = x /\ (b[3] % Base) + Base * 0 = 0
    BY <1>1, <1>3
  <2>3. \A i \in 2..4 : f[i] = IF i > 3 THEN 0 ELSE (b[i] % Base) + Base * f[i + 1]
    <3>1. \A i \in 2..4 : i = 2 \/ i = 3 \/ i = 4
      OBVIOUS
    <3>2. f[2] = IF 2 > 3 THEN 0 ELSE (b[2] % Base) + Base * f[2 + 1]
      BY <2>1, <2>2
    <3>3. f[3] = IF 3 > 3 THEN 0 ELSE (b[3] % Base) + Base * f[3 + 1]
      BY <2>1, <2>2
    <3>4. f[4] = IF 4 > 3 THEN 0 ELSE (b[4] % Base) + Base * f[4 + 1]
      BY <2>1
    <3> HIDE DEF f
    <3> QED BY <3>1, <3>2, <3>3, <3>4
  <2>4. f = [i \in 2..4 |-> f[i]]
    OBVIOUS
  <2> HIDE DEF f
  <2>5. [i \in 2..4 |-> f[i]] = [i \in 2..4 |-> IF i > 3 THEN 0 ELSE (b[i] % Base) + Base * f[i + 1]]
    BY <2>3
  <2>6. IsValue(b, 3, f)
    BY <2>4, <2>5 DEF IsValue
  <2>7. IsValue(b, 3, v)
    BY <2>6, ValueIs
  <2> HIDE DEF v
  <2>8. v[4] = 0 /\ v[3] = (b[3] % Base) + Base * v[4] /\ v[2] = (b[2] % Base) + Base * v[3]
    BY <2>7 DEF IsValue
  <2> QED BY <2>2, <2>8 DEF v
<1>4. b[2] % Base < Base
  BY <1>1
<1>5. Base % Base = 0
  OBVIOUS
<1> QED BY <1>2, <1>3, <1>4, <1>5

(* What a subscriber takes apart.                                          *)
LEMMA ApartIs ==
  ASSUME NEW body, NEW size, NEW qos
  PROVE  LET msg == TakenApart(body, size, qos)
             topic == body[1] * 2 * Base + body[2]
             head == 2 + topic + IF qos > 0 THEN 2 ELSE 0
         IN /\ msg.whole <=> size = Len(body) /\ ~(Len(body) < head)
            /\ msg.whole => /\ msg.topic = SubSeq(body, 3, 2 + topic)
                            /\ msg.id = SubSeq(body, 3 + topic, head)
                            /\ msg.payload = SubSeq(body, head + 1, Len(body))
<1> DEFINE msg == TakenApart(body, size, qos)
           topic == body[1] * 2 * Base + body[2]
           head == 2 + topic + IF qos > 0 THEN 2 ELSE 0
<1>1. msg = IF size # Len(body) \/ Len(body) < head
            THEN [whole |-> FALSE]
            ELSE [whole |-> TRUE, topic |-> SubSeq(body, 3, 2 + topic),
                  id |-> SubSeq(body, 3 + topic, head),
                  payload |-> SubSeq(body, head + 1, Len(body))]
  BY DEF TakenApart
<1> HIDE DEF msg, topic, head
<1>2. CASE size # Len(body) \/ Len(body) < head
  <2>1. msg = [whole |-> FALSE]
    BY <1>1, <1>2
  <2> QED BY <1>2, <2>1 DEF msg, topic, head
<1>3. CASE ~(size # Len(body) \/ Len(body) < head)
  <2>1. msg = [whole |-> TRUE, topic |-> SubSeq(body, 3, 2 + topic),
               id |-> SubSeq(body, 3 + topic, head),
               payload |-> SubSeq(body, head + 1, Len(body))]
    BY <1>1, <1>3
  <2>2. msg.whole /\ msg.topic = SubSeq(body, 3, 2 + topic)
        /\ msg.id = SubSeq(body, 3 + topic, head)
        /\ msg.payload = SubSeq(body, head + 1, Len(body))
    BY <2>1
  <2> QED BY <1>3, <2>2 DEF msg, topic, head
<1> QED BY <1>2, <1>3

(* A remainder is less than the divisor, and a smaller number is its own.  *)
LEMMA Remainder ==
  ASSUME NEW x \in Nat, NEW d \in Nat \ {0}
  PROVE  x % d \in 0..(d - 1) /\ (x < d => x % d = x)
<1> DEFINE y == x % d
           q == x \div d
<1>1. q \in Nat /\ y \in 0..(d - 1) /\ x = d * q + y
  OBVIOUS
<1> HIDE DEF y, q
<1>2. q >= 1 => d * q >= d
  BY <1>1
<1>3. x < d => q = 0
  BY <1>1, <1>2
<1>4. x < d => y = x
  BY <1>1, <1>3
<1> QED BY <1>1, <1>4 DEF y

(* What is behind the last digit of the length.                            *)
LEMMA BodyAt ==
  ASSUME NEW b, b \in Seq(Nat), NEW last \in Nat, last <= Len(b)
  PROVE  /\ SubSeq(b, last + 1, Len(b)) \in Seq(Nat)
         /\ Len(SubSeq(b, last + 1, Len(b))) = Len(b) - last
         /\ \A i \in 1..(Len(b) - last) : SubSeq(b, last + 1, Len(b))[i] = b[last + i]
<1> DEFINE s == last + 1
           e == Len(b)
<1>1. /\ e \in Nat /\ s \in Nat \ {0} /\ e <= Len(b) /\ s <= e + 1 /\ b \in Seq(Nat)
      /\ e + 1 - s = Len(b) - last /\ \A i \in 1..(e + 1 - s) : s + i - 1 = last + i
  OBVIOUS
<1> HIDE DEF s, e
<1>2. /\ SubSeq(b, s, e) \in Seq(Nat) /\ Len(SubSeq(b, s, e)) = e + 1 - s
      /\ \A i \in 1..(e + 1 - s) : SubSeq(b, s, e)[i] = b[s + i - 1]
  <2>1. Within(b, s, e)
    BY <1>1 DEF Within
  <2> QED BY <2>1, SliceWithin
<1>3. /\ SubSeq(b, s, e) \in Seq(Nat) /\ Len(SubSeq(b, s, e)) = Len(b) - last
      /\ \A i \in 1..(Len(b) - last) : SubSeq(b, s, e)[i] = b[last + i]
  BY <1>1, <1>2
<1> QED BY <1>3 DEF s, e

(* A part of a sequence that holds what another sequence holds.            *)
HasPart(b, at, n, c) ==
  /\ b \in Seq(Nat) /\ at \in Nat /\ n \in Nat /\ at + n <= Len(b)
  /\ c \in Seq(Nat) /\ Len(c) = n
  /\ \A i \in 1..n : b[at + i] = c[i]

LEMMA PartIs ==
  ASSUME NEW b, NEW at, NEW n, NEW c, HasPart(b, at, n, c)
  PROVE  SubSeq(b, at + 1, at + n) = c
<1>0. /\ b \in Seq(Nat) /\ at \in Nat /\ n \in Nat /\ at + n <= Len(b)
      /\ c \in Seq(Nat) /\ Len(c) = n
      /\ \A i \in 1..n : b[at + i] = c[i]
  BY DEF HasPart
<1> DEFINE s == at + 1
           e == at + n
           u == SubSeq(b, s, e)
<1>1. /\ e \in Nat /\ s \in Nat \ {0} /\ e <= Len(b) /\ s <= e + 1 /\ b \in Seq(Nat)
      /\ e + 1 - s = n /\ \A i \in 1..(e + 1 - s) : s + i - 1 = at + i
  BY <1>0
<1> HIDE DEF s, e
<1>2. u \in Seq(Nat) /\ Len(u) = e + 1 - s /\ \A i \in 1..(e + 1 - s) : u[i] = b[s + i - 1]
  <2>1. Within(b, s, e)
    BY <1>1 DEF Within
  <2> QED BY <2>1, SliceWithin
<1> HIDE DEF u
<1>3. Len(u) = n /\ \A i \in 1..n : u[i] = c[i]
  BY <1>0, <1>1, <1>2
<1>4. u = c
  BY <1>0, <1>2, <1>3, SeqEqual
<1> QED BY <1>4 DEF u, s, e

(* With a topic both sides read alike the packet comes through if and only *)
(* if one byte says how long it is.                                        *)
LEMMA PlainComesThrough ==
  ASSUME NEW qos \in Nat, NEW m \in 1..(Base - 1), NEW row \in Nat, NEW c \in Seq(Nat),
         NEW r, WrittenOut(r, qos, m, row, c)
  PROVE  /\ Received(r, qos).whole <=> Len(r) - 2 < Base
         /\ Received(r, qos).whole =>
              /\ Received(r, qos).topic = Fill(m)
              /\ Received(r, qos).payload = c
              /\ qos > 0 => Received(r, qos).id = ML(row)
<1> DEFINE msg == Received(r, qos)
           l == Rest(m, qos, c)
           k == IdRoom(qos)
           n == Len(c)
<1>1. k \in Nat /\ n \in Nat /\ k = IF qos > 0 THEN 2 ELSE 0
  BY DEF IdRoom
<1>2. l = 2 + m + k + n
  BY DEF Rest
<1>3. /\ r \in Seq(Nat) /\ Len(r) = l + 2
      /\ r[2] = l % (2 * Base) /\ r[3] = ML(m)[1] /\ r[4] = ML(m)[2]
      /\ \A i \in 1..m : r[4 + i] = 1
      /\ \A i \in 1..k : r[4 + m + i] = ML(row)[i]
      /\ \A i \in 1..n : r[4 + m + k + i] = c[i]
  BY DEF WrittenOut
<1>4. r[3] = 0 /\ r[4] = m
  BY <1>3, MLIs, BaseAssumption
<1> HIDE DEF l, k, n
<1>5. m \in Nat \ {0} /\ m < Base /\ Base \in Nat /\ Base >= 2 /\ 2 * Base \in Nat \ {0} /\ l \in Nat /\ l >= 3
  BY <1>1, <1>2, BaseAssumption
<1>6. r[2] \in Nat /\ r[2] < 2 * Base /\ (l < 2 * Base => r[2] = l)
  <2>1. l % (2 * Base) \in 0..(2 * Base - 1) /\ (l < 2 * Base => l % (2 * Base) = l)
    BY <1>5, Remainder
  <2> QED BY <2>1, <1>3, <1>5
<1>7. 2 \in 2..Len(r) /\ 3 \in 2..Len(r) /\ 2 + 1 = 3 /\ 3 + 1 = 4
  BY <1>3, <1>5
<1>8. ASSUME r[2] < Base
      PROVE  msg = TakenApart(SubSeq(r, 3, Len(r)), r[2], qos)
  <2>1. \A j \in 2..2 : r[j] >= Base <=> j < 2
    BY <1>5, <1>6, <1>8
  <2>2. msg = TakenApart(SubSeq(r, 2 + 1, Len(r)), Value(r, 2)[2], qos)
    BY <1>3, <1>7, <2>1, ReceivedIs
  <2>3. Value(r, 2)[2] = r[2]
    <3>1. r \in Seq(Nat) /\ Len(r) >= 4
      BY <1>3, <1>5
    <3> QED BY <3>1, <1>8, ShortLength
  <2> HIDE DEF msg
  <2> QED BY <2>2, <2>3, <1>7
<1>9. ASSUME ~(r[2] < Base)
      PROVE  msg = TakenApart(SubSeq(r, 4, Len(r)), Value(r, 3)[2], qos)
  <2>1. \A j \in 2..3 : r[j] >= Base <=> j < 3
    <3>1. \A j \in 2..3 : j = 2 \/ j = 3
      OBVIOUS
    <3> QED BY <3>1, <1>4, <1>5, <1>6, <1>9
  <2>2. msg = TakenApart(SubSeq(r, 3 + 1, Len(r)), Value(r, 3)[2], qos)
    BY <1>3, <1>7, <2>1, ReceivedIs
  <2> HIDE DEF msg
  <2> QED BY <2>2, <1>7
<1> DEFINE body == SubSeq(r, 3, Len(r))
<1>10. /\ body \in Seq(Nat) /\ Len(body) = l /\ \A i \in 1..l : body[i] = r[2 + i]
  <2>1. 2 \in Nat /\ 2 <= Len(r) /\ Len(r) - 2 = l
    BY <1>3, <1>5
  <2>2. r \in Seq(Nat)
    BY <1>3
  <2>3. /\ SubSeq(r, 2 + 1, Len(r)) \in Seq(Nat)
        /\ Len(SubSeq(r, 2 + 1, Len(r))) = Len(r) - 2
        /\ \A i \in 1..(Len(r) - 2) : SubSeq(r, 2 + 1, Len(r))[i] = r[2 + i]
    BY <2>1, <2>2, BodyAt
  <2> QED BY <2>1, <2>3
<1>11. CASE l < Base
  <2> HIDE DEF body, msg
  <2>1. r[2] = l /\ r[2] < Base
    BY <1>5, <1>6, <1>11
  <2>2. msg = TakenApart(body, l, qos)
    BY <1>8, <2>1 DEF body
  <2> DEFINE topic == body[1] * 2 * Base + body[2]
             head == 2 + topic + IF qos > 0 THEN 2 ELSE 0
  <2>3. body[1] = 0 /\ body[2] = m
    <3>1. 1 \in 1..l /\ 2 \in 1..l
      BY <1>5
    <3>2. body[1] = r[2 + 1] /\ body[2] = r[2 + 2]
      BY <1>10, <3>1
    <3> QED BY <3>2, <1>4
  <2>4. topic = m
    BY <2>3, <1>5
  <2>5. head = 2 + m + k
    BY <2>4, <1>1
  <2>6. /\ msg.whole <=> l = Len(body) /\ ~(Len(body) < head)
        /\ msg.whole => /\ msg.topic = SubSeq(body, 3, 2 + topic)
                        /\ msg.id = SubSeq(body, 3 + topic, head)
                        /\ msg.payload = SubSeq(body, head + 1, Len(body))
    BY <2>2, ApartIs
  <2> HIDE DEF topic, head
  <2>7. msg.whole /\ msg.topic = SubSeq(body, 2 + 1, 2 + m)
        /\ msg.id = SubSeq(body, (2 + m) + 1, (2 + m) + k)
        /\ msg.payload = SubSeq(body, (2 + m + k) + 1, (2 + m + k) + n)
    <3>1. 3 + m = (2 + m) + 1 /\ 2 + m + k = (2 + m) + k /\ 2 + 1 = 3 /\ l = (2 + m + k) + n
      BY <1>1, <1>2, <1>5
    <3>2. Len(body) = (2 + m + k) + n /\ ~(Len(body) < head) /\ l = Len(body)
      BY <3>1, <2>5, <1>10, <1>1, <1>5
    <3> QED BY <3>1, <3>2, <2>4, <2>5, <2>6
  <2>8. SubSeq(body, 2 + 1, 2 + m) = Fill(m)
    <3>1. Fill(m) \in Seq(Nat) /\ Len(Fill(m)) = m /\ \A i \in 1..m : Fill(m)[i] = 1
      BY <1>5 DEF Fill
    <3>2. \A i \in 1..m : body[2 + i] = Fill(m)[i]
      <4> TAKE i \in 1..m
      <4>1. 2 + i \in 1..l /\ 2 + (2 + i) = 4 + i
        BY <1>1, <1>2, <1>5
      <4>2. body[2 + i] = r[4 + i]
        BY <4>1, <1>10
      <4> QED BY <4>2, <3>1, <1>3
    <3>3. 2 + m <= Len(body) /\ 2 \in Nat /\ m \in Nat /\ body \in Seq(Nat)
      BY <1>1, <1>2, <1>5, <1>10
    <3>4. HasPart(body, 2, m, Fill(m))
      BY <3>1, <3>2, <3>3 DEF HasPart
    <3> QED BY <3>4, PartIs
  <2>9. SubSeq(body, (2 + m + k) + 1, (2 + m + k) + n) = c
    <3>1. \A i \in 1..n : body[(2 + m + k) + i] = c[i]
      <4> TAKE i \in 1..n
      <4>1. (2 + m + k) + i \in 1..l /\ 2 + ((2 + m + k) + i) = 4 + m + k + i
        BY <1>1, <1>2, <1>5
      <4>2. body[(2 + m + k) + i] = r[4 + m + k + i]
        BY <4>1, <1>10
      <4> QED BY <4>2, <1>3
    <3> DEFINE at == 2 + m + k
    <3>2. at + n <= Len(body) /\ at \in Nat /\ n \in Nat /\ body \in Seq(Nat) /\ Len(c) = n
      BY <1>1, <1>2, <1>5, <1>10 DEF n
    <3> HIDE DEF at
    <3>3. \A i \in 1..n : body[at + i] = c[i]
      BY <3>1 DEF at
    <3>4. SubSeq(body, at + 1, at + n) = c
      <4>1. HasPart(body, at, n, c)
        BY <3>2, <3>3 DEF HasPart
      <4> QED BY <4>1, PartIs
    <3> QED BY <3>4 DEF at
  <2>10. ASSUME qos > 0 PROVE SubSeq(body, (2 + m) + 1, (2 + m) + k) = ML(row)
    <3>1. ML(row) \in Seq(Nat) /\ Len(ML(row)) = k
      BY <2>10, <1>1, MLIs
    <3>2. \A i \in 1..k : body[(2 + m) + i] = ML(row)[i]
      <4> TAKE i \in 1..k
      <4>1. (2 + m) + i \in 1..l /\ 2 + ((2 + m) + i) = 4 + m + i
        BY <1>1, <1>2, <1>5
      <4>2. body[(2 + m) + i] = r[4 + m + i]
        BY <4>1, <1>10
      <4> QED BY <4>2, <1>3
    <3> DEFINE at == 2 + m
    <3>3. at + k <= Len(body) /\ at \in Nat /\ k \in Nat /\ body \in Seq(Nat)
      BY <1>1, <1>2, <1>5, <1>10
    <3> DEFINE w == ML(row)
    <3> HIDE DEF at
    <3>4. w \in Seq(Nat) /\ Len(w) = k /\ \A i \in 1..k : body[at + i] = w[i]
      BY <3>1, <3>2 DEF at
    <3> HIDE DEF w
    <3>5. SubSeq(body, at + 1, at + k) = w
      <4>1. HasPart(body, at, k, w)
        BY <3>3, <3>4 DEF HasPart
      <4> QED BY <4>1, PartIs
    <3> QED BY <3>5 DEF at, w
  <2>11. Len(r) - 2 < Base
    BY <1>3, <1>5, <1>11
  <2> QED BY <2>7, <2>8, <2>9, <2>10, <2>11 DEF msg
<1>12. CASE ~(l < Base)
  <2> HIDE DEF msg
  <2>1. ~(Len(r) - 2 < Base)
    BY <1>3, <1>5, <1>12
  <2>2. CASE r[2] < Base
    <3>1. msg.whole => r[2] = Len(body)
      BY <2>2, <1>8, ApartIs
    <3> HIDE DEF body
    <3>2. ~msg.whole
      BY <3>1, <2>2, <1>5, <1>6, <1>10, <1>12
    <3> QED BY <2>1, <3>2 DEF msg
  <2>3. CASE ~(r[2] < Base)
    <3> DEFINE tail == SubSeq(r, 4, Len(r))
               v == Value(r, 3)[2]
    <3>1. Len(tail) = l - 1
      <4>1. 3 \in Nat /\ 3 <= Len(r) /\ Len(r) - 3 = l - 1 /\ r \in Seq(Nat)
        BY <1>3, <1>5
      <4>2. Len(SubSeq(r, 3 + 1, Len(r))) = Len(r) - 3
        BY <4>1, BodyAt
      <4> QED BY <4>1, <4>2
    <3>2. msg.whole => v = Len(tail)
      <4>1. msg = TakenApart(tail, v, qos)
        BY <2>3, <1>9
      <4> HIDE DEF tail, v
      <4> QED BY <4>1, ApartIs
    <3>3. v < Base /\ (r[2] = Base => v = 0)
      <4>1. r \in Seq(Nat) /\ Len(r) >= 4 /\ r[2] < 2 * Base /\ r[3] = 0
        BY <1>3, <1>4, <1>5, <1>6
      <4> QED BY <4>1, ShortLength
    <3> HIDE DEF tail, v
    <3>4. ~msg.whole
      <4> SUFFICES ASSUME msg.whole PROVE FALSE
        OBVIOUS
      <4>1. v = l - 1 /\ l = Base
        BY <3>1, <3>2, <3>3, <1>5, <1>12
      <4>2. r[2] = Base
        BY <4>1, <1>5, <1>6
      <4> QED BY <4>1, <4>2, <3>3, <1>5
    <3> QED BY <2>1, <3>4 DEF msg
  <2> QED BY <2>2, <2>3
<1> QED BY <1>11, <1>12

(* The one length that would be written as two bytes that look like three  *)
(* is read as one.                                                         *)
LEMMA LooksLikeOne ==
  ASSUME NEW p, Published(p), p.topic = 2 * Base + 1
  PROVE  TopicLen(p) = 1
<1> DEFINE b == Buffer(p)
<1>1. b[1 + 1] = p.topic % (2 * Base)
  BY PublishLies DEF StringAt
<1>2. p.topic % (2 * Base) = 1
  <2> DEFINE d == 2 * Base
             x == p.topic
             y == x % d
             q == x \div d
  <2>1. d \in Nat /\ d >= 4 /\ x = d + 1
    BY BaseAssumption
  <2> HIDE DEF d, x
  <2>2. d \in Nat \ {0} /\ x \in Nat
    BY <2>1
  <2>3. q \in Nat /\ y \in 0..(d - 1) /\ x = d * q + y
    BY <2>2
  <2> HIDE DEF y, q
  <2>4. q >= 2 => d * q >= d + d
    BY <2>2, <2>3
  <2>5. q < 2 /\ q # 0
    BY <2>1, <2>3, <2>4
  <2>6. q = 1
    BY <2>3, <2>5
  <2>7. y = 1
    BY <2>1, <2>3, <2>6
  <2> QED BY <2>7 DEF y, x, d
<1>3. 1 % Base = 1 /\ ~(1 >= Base)
  <2>1. 1 \in Nat /\ Base \in Nat \ {0} /\ 1 < Base
    BY BaseAssumption
  <2>2. 1 % Base = 1
    BY <2>1, Remainder
  <2> QED BY <2>1, <2>2
<1> HIDE DEF b
<1>4. LenAt(b, 1) = 1
  BY <1>1, <1>2, <1>3 DEF LenAt, StringLen, AsByte, Byte
<1> QED BY <1>4 DEF TopicLen, b

(* With any other topic it does not.                                       *)
LEMMA LongTopicGetsLost ==
  ASSUME NEW p, Published(p), ~Plain(p), TopicLen(p) # 0,
         NEW qos \in Nat, NEW row \in Nat, NEW c \in Seq(Nat),
         NEW r, WrittenOut(r, qos, TopicLen(p), row, c)
  PROVE  ~(Received(r, qos).whole /\ Received(r, qos).topic = Fill(p.topic))
<1> DEFINE msg == Received(r, qos)
           m == TopicLen(p)
           t == p.topic
           l == Rest(m, qos, c)
           k == IdRoom(qos)
           n == Len(c)
<1>1. k \in Nat /\ n \in Nat
  BY DEF IdRoom
<1>2. l = 2 + m + k + n
  BY DEF Rest
<1>3. m \in Nat \ {0} /\ m < t /\ m < Base * Base /\ t \in Nat /\ (t = 2 * Base + 1 => m = 1)
  <2>1. /\ TopicLen(p) \in Nat /\ TopicLen(p) <= p.topic /\ TopicLen(p) < Base * Base
        /\ p.topic < Base <=> TopicLen(p) = p.topic
    BY TopicRead
  <2>2. ~(p.topic < Base) /\ p.topic \in Nat
    BY PublishPlain, PublishLies
  <2>3. p.topic = 2 * Base + 1 => TopicLen(p) = 1
    BY LooksLikeOne
  <2> QED BY <2>1, <2>2, <2>3
<1>4. /\ r \in Seq(Nat) /\ Len(r) = l + 2
      /\ r[2] = l % (2 * Base) /\ r[3] = ML(m)[1] /\ r[4] = ML(m)[2]
      /\ \A i \in 1..m : r[4 + i] = 1
  BY DEF WrittenOut
<1>5. /\ m < Base => r[3] = 0 /\ r[4] = m
      /\ m >= Base => r[3] >= Base /\ r[4] < Base
  <2>1. m \in Nat /\ m < Base * Base
    BY <1>3
  <2> HIDE DEF m
  <2>2. /\ m < Base => ML(m)[1] = 0 /\ ML(m)[2] = m
        /\ m >= Base => ML(m)[1] >= Base /\ ML(m)[2] < Base
    BY <2>1, MLIs
  <2> QED BY <2>2, <1>4
<1>6. Len(Fill(t)) = t
  BY <1>3 DEF Fill
<1> HIDE DEF msg, m, t, l, k, n
<1>7. Base \in Nat /\ Base >= 2 /\ 2 * Base \in Nat \ {0} /\ l \in Nat /\ l >= 3 /\ m \in Nat
  BY <1>1, <1>2, <1>3, BaseAssumption
<1>8. r[2] \in Nat /\ r[2] < 2 * Base
  <2>1. l % (2 * Base) \in 0..(2 * Base - 1)
    BY <1>7, Remainder
  <2> QED BY <2>1, <1>4, <1>7
<1>9. r \in Seq(Nat) /\ Len(r) >= 5 /\ Len(r) \in Nat
      /\ 2 \in 2..Len(r) /\ 3 \in 2..Len(r) /\ 4 \in 2..Len(r)
  BY <1>4, <1>7
<1>10. r[4 + 1] = 1 /\ (m >= 2 => r[4 + 2] = 1)
  <2>1. 1 \in 1..m /\ (m >= 2 => 2 \in 1..m)
    BY <1>3
  <2> QED BY <2>1, <1>4
<1> SUFFICES ASSUME msg.whole, msg.topic = Fill(t) PROVE FALSE
  BY DEF msg, t

(* What a whole packet says of the topic and of its own length.            *)
<1>11. ASSUME NEW last \in {2, 3, 4}, last <= m + 2, \A j \in 2..last : r[j] >= Base <=> j < last
       PROVE  LET topic == r[last + 1] * 2 * Base + r[last + 2]
              IN /\ t = topic /\ Len(r) - last >= 2 + topic
                 /\ Value(r, last)[2] = Len(r) - last
  <2> DEFINE body == SubSeq(r, last + 1, Len(r))
             v == Value(r, last)[2]
             len == Len(r) - last
             topic == body[1] * 2 * Base + body[2]
             head == 2 + topic + IF qos > 0 THEN 2 ELSE 0
  <2>1. last \in 2..Len(r) /\ last \in Nat /\ last <= Len(r) /\ len \in Nat
    BY <1>9
  <2>2. msg = TakenApart(body, v, qos)
    BY <2>1, <1>9, <1>11, ReceivedIs DEF msg
  <2>3. body \in Seq(Nat) /\ Len(body) = len /\ \A i \in 1..len : body[i] = r[last + i]
    BY <2>1, <1>9, BodyAt
  <2>4. len >= 2 \/ len = 1
    BY <1>9
  <2> HIDE DEF body, v, len
  <2>5. /\ v = Len(body) /\ ~(Len(body) < head)
        /\ msg.topic = SubSeq(body, 3, 2 + topic)
    BY <2>2, ApartIs
  <2>6. len >= 2
    BY <1>1, <1>2, <1>3, <1>4, <1>11 DEF len
  <2>7. body[1] = r[last + 1] /\ body[2] = r[last + 2] /\ body[1] \in Nat /\ body[2] \in Nat
    <3>1. 1 \in 1..len /\ 2 \in 1..len
      BY <2>1, <2>6
    <3> QED BY <3>1, <2>3
  <2>8. topic \in Nat
    <3> DEFINE u == body[1]
               w == body[2]
    <3>1. u \in Nat /\ w \in Nat
      BY <2>7
    <3> HIDE DEF u, w
    <3>2. u * 2 * Base + w \in Nat
      BY <3>1, <1>7
    <3> QED BY <3>2 DEF u, w
  <2> DEFINE x == IF qos > 0 THEN 2 ELSE 0
  <2>9. x \in Nat /\ head = 2 + topic + x
    OBVIOUS
  <2> HIDE DEF topic, x
  <2>10. len >= 2 + topic
    BY <2>1, <2>3, <2>5, <2>8, <2>9
  <2>11. Len(SubSeq(body, 3, 2 + topic)) = topic
    <3> DEFINE e == 2 + topic
    <3>1. /\ 3 \in Nat \ {0} /\ e \in Nat /\ e <= Len(body) /\ 3 <= e + 1 /\ body \in Seq(Nat)
          /\ e + 1 - 3 = topic
      BY <2>1, <2>3, <2>8, <2>10
    <3> HIDE DEF e
    <3>2. Len(SubSeq(body, 3, e)) = e + 1 - 3
      <4>1. Within(body, 3, e)
        BY <3>1 DEF Within
      <4> QED BY <4>1, SliceWithin
    <3> QED BY <3>1, <3>2 DEF e
  <2>12. t = topic
    BY <2>5, <2>11, <1>6
  <2>13. topic = r[last + 1] * 2 * Base + r[last + 2]
    BY <2>7 DEF topic
  <2> QED BY <2>3, <2>5, <2>10, <2>12, <2>13 DEF len, v
<1>12. CASE r[2] < Base
  <2>1. \A j \in 2..2 : r[j] >= Base <=> j < 2
    BY <1>7, <1>8, <1>12
  <2>2. /\ t = r[2 + 1] * 2 * Base + r[2 + 2]
        /\ Value(r, 2)[2] = Len(r) - 2
    BY <2>1, <1>3, <1>11
  <2>3. Value(r, 2)[2] = r[2]
    BY <1>9, <1>12, ShortLength
  <2>4. l < Base
    <3>1. Len(r) - 2 = r[2]
      BY <2>2, <2>3
    <3> QED BY <3>1, <1>4, <1>7, <1>12
  <2>5. m < Base
    BY <2>4, <1>1, <1>2, <1>7
  <2>6. r[2 + 1] = 0 /\ r[2 + 2] = m
    BY <2>5, <1>5
  <2>7. t = m
    BY <2>2, <2>6, <1>7
  <2> QED BY <2>7, <1>3
<1>13. CASE ~(r[2] < Base) /\ m < Base
  <2>1. r[3] = 0 /\ r[4] = m
    BY <1>5, <1>13
  <2>2. \A j \in 2..3 : r[j] >= Base <=> j < 3
    <3>1. \A j \in 2..3 : j = 2 \/ j = 3
      OBVIOUS
    <3> QED BY <3>1, <2>1, <1>7, <1>8, <1>13
  <2>3. /\ t = r[3 + 1] * 2 * Base + r[3 + 2] /\ Len(r) - 3 >= 2 + (r[3 + 1] * 2 * Base + r[3 + 2])
        /\ Value(r, 3)[2] = Len(r) - 3
    BY <2>2, <1>3, <1>11
  <2>4. Value(r, 3)[2] < Base
    <3>1. r \in Seq(Nat) /\ Len(r) >= 4 /\ r[2] < 2 * Base /\ r[3] = 0
      BY <2>1, <1>8, <1>9
    <3> QED BY <3>1, ShortLength
  <2>5. Len(r) - 3 >= 2 + t /\ Len(r) - 3 < Base
    BY <2>3, <2>4
  <2>6. t >= m * 2 * Base
    <3>1. r[3 + 2] = 1 /\ r[3 + 1] = m
      BY <2>1, <1>10
    <3> QED BY <3>1, <2>3, <1>7
  <2>7. m * 2 * Base >= Base
    BY <1>3, <1>7
  <2>8. t >= Base
    <3> DEFINE z == m * 2 * Base
    <3>1. t >= z /\ z >= Base /\ z \in Nat
      BY <2>6, <2>7, <1>7
    <3> HIDE DEF z
    <3> QED BY <3>1, <1>3, <1>7
  <2> QED BY <2>5, <2>8, <1>3, <1>7, <1>9
<1>14. CASE ~(r[2] < Base) /\ ~(m < Base)
  <2>1. r[3] >= Base /\ r[4] < Base
    BY <1>5, <1>7, <1>14
  <2>2. \A j \in 2..4 : r[j] >= Base <=> j < 4
    <3>1. \A j \in 2..4 : j = 2 \/ j = 3 \/ j = 4
      OBVIOUS
    <3>2. r[4] \in Nat
      BY <1>9
    <3> QED BY <3>1, <3>2, <2>1, <1>7, <1>8, <1>14
  <2>3. t = r[4 + 1] * 2 * Base + r[4 + 2]
    BY <2>2, <1>7, <1>11, <1>14
  <2>4. t = 2 * Base + 1
    BY <2>3, <1>7, <1>10, <1>14
  <2> QED BY <2>4, <1>3, <1>7, <1>14
<1> QED BY <1>12, <1>13, <1>14

(* A packet leaves the broker as PublishEncode lays it out, or not at all. *)
LEMMA RelayedAs ==
  ASSUME IdType', Publish, TopicLen(sent') # 0
  PROVE  \E qos, behind :
           /\ Relays(sent', got', qos, behind)
           /\ qos \in Nat /\ got'.payload \in Seq(Nat) /\ id' \in Nat
           /\ WrittenOut(relayed', qos, TopicLen(sent'), id', got'.payload)
           /\ relayed'[1] = qos
<1> DEFINE p == sent'
           m == TopicLen(p)
           t == Cut(Taken(p))
<1>1. Published(p)
  BY PublishGets
<1>2. PICK qos, behind : /\ Relays(p, got', qos, behind)
                         /\ relayed' = PublishEncode(got'.topic, qos, id', got'.payload)
  BY PublishGets
<1>3. m \in Nat
  BY <1>1, TopicRead
<1>4. t \in Seq(Nat)
  BY <1>1, PayloadTaken
<1> HIDE DEF p, m, t
<1>5. qos \in Nat /\ behind \in Seq(Nat)
  <2>1. qos \in 0..p.qos /\ behind \in {<<>>, Fill(1)}
    BY <1>2 DEF Relays
  <2>2. p.qos \in Nat
    BY <1>1 DEF Published, QoS
  <2>3. qos \in Nat
    BY <2>1, <2>2
  <2>4. Fill(1) \in Seq(Nat)
    BY DEF Fill
  <2>5. <<>> \in Seq(Nat)
    OBVIOUS
  <2>6. behind \in Seq(Nat)
    BY <2>1, <2>4, <2>5, Zenon
  <2> QED BY <2>3, <2>6
<1>6. got'.topic = Fill(m) /\ got'.payload = t \o behind
  BY <1>2 DEF Relays, m, t
<1>7. got'.payload \in Seq(Nat)
  BY <1>4, <1>5, <1>6
<1>8. id' \in Nat
  BY MaxIdAssumption DEF IdType
<1> DEFINE row == id'
           c == got'.payload
<1>9. /\ WrittenOut(PublishEncode(Fill(m), qos, row, c), qos, m, row, c)
      /\ PublishEncode(Fill(m), qos, row, c)[1] = qos
  <2>1. row \in Nat /\ c \in Seq(Nat) /\ qos \in Nat /\ m \in Nat
    BY <1>3, <1>5, <1>7, <1>8
  <2> HIDE DEF row, c
  <2> QED BY <2>1, EncodedIs
<1>10. relayed' = PublishEncode(Fill(m), qos, row, c)
  BY <1>2, <1>6
<1> QED BY <1>2, <1>5, <1>7, <1>8, <1>9, <1>10 DEF p, m

(* The payload that is relayed is the one that was sent if and only if     *)
(* that one has no zero byte and what was taken has an end.                *)
LEMMA PayloadRelayed ==
  ASSUME NEW p, Published(p), TopicLen(p) # 0, Plain(p),
         NEW g, NEW qos, NEW behind, Relays(p, g, qos, behind)
  PROVE  /\ g.payload = p.payload <=> g.ended /\ 0 \notin Range(p.payload)
         /\ ~g.ended => p.qos = 0 /\ Len(p.payload) >= Zeroed
<1> DEFINE c == p.payload
           t == Cut(Taken(p))
           n == Len(c)
<1>1. /\ behind \in {<<>>, Fill(1)} /\ g.payload = t \o behind /\ (g.ended <=> behind = <<>>)
      /\ 0 \in Range(Taken(p)) \/ Len(Body(p)) - TopicLen(p) - 2 < Zeroed => behind = <<>>
  BY DEF Relays
<1>2. /\ 0 \notin Range(c) => t = c
      /\ 0 \in Range(c) => 0 \in Range(Taken(p)) /\ Len(t) < n
      /\ p.qos > 0 => 0 \in Range(Taken(p))
  BY PayloadIs
<1>3. t \in Seq(Nat) /\ Len(Body(p)) - TopicLen(p) - 2 = n + Len(Between(p))
  BY PayloadTaken
<1>4. c \in Seq(Nat) /\ Len(Between(p)) = IF p.qos > 0 THEN 2 ELSE 0
  BY PublishLies
<1>5. p.qos \in Nat
  BY DEF Published, QoS
<1>6. Fill(1) \in Seq(Nat) /\ Len(Fill(1)) = 1 /\ Fill(1) # <<>>
  <2>1. Fill(1) \in Seq(Nat) /\ Len(Fill(1)) = 1
    BY DEF Fill
  <2>2. Fill(1) # <<>>
    <3>1. Len(<<>>) = 0 /\ 0 # 1
      OBVIOUS
    <3> QED BY <2>1, <3>1, Zenon
  <2> QED BY <2>1, <2>2
<1> HIDE DEF c, t
<1>7. CASE behind = <<>>
  <2>1. g.payload = t /\ g.ended
    BY <1>1, <1>3, <1>7
  <2>2. 0 \in Range(c) => t # c
    <3>1. 0 \in Range(c) => Len(t) < Len(c)
      BY <1>2
    <3>2. Len(t) \in Nat /\ Len(c) \in Nat
      BY <1>3, <1>4
    <3> QED BY <3>1, <3>2
  <2> QED BY <2>1, <2>2, <1>2 DEF c
<1>8. CASE behind # <<>>
  <2>1. behind = Fill(1) /\ ~g.ended /\ 0 \notin Range(Taken(p))
        /\ ~(Len(Body(p)) - TopicLen(p) - 2 < Zeroed)
    BY <1>1, <1>8
  <2>2. 0 \notin Range(c) /\ t = c /\ ~(p.qos > 0)
    BY <1>2, <2>1
  <2>3. g.payload # c
    <3> DEFINE f == Fill(1)
    <3>1. t \in Seq(Nat) /\ f \in Seq(Nat) /\ Len(f) = 1
      BY <1>3, <1>6
    <3> HIDE DEF f
    <3>2. Len(t \o f) = Len(t) + Len(f)
      BY <3>1, Concatenated
    <3>3. Len(t \o f) # Len(t)
      BY <3>1, <3>2
    <3>4. g.payload = t \o f
      BY <1>1, <2>1 DEF f
    <3> QED BY <3>3, <3>4, <2>2
  <2>4. p.qos = 0
    BY <2>2, <1>5
  <2>5. n >= Zeroed
    <3> DEFINE y == Len(Between(p))
    <3>1. y = 0
      BY <2>2, <1>4
    <3>2. n \in Nat
      BY <1>4
    <3>3. Zeroed \in Nat
      BY WireAssumption
    <3>4. ~(n + y < Zeroed)
      BY <2>1, <1>3
    <3> HIDE DEF y, n
    <3> QED BY <3>1, <3>2, <3>3, <3>4
  <2> QED BY <2>1, <2>3, <2>4, <2>5 DEF c
<1> QED BY <1>7, <1>8

(* What a PUBLISH leaves behind it.                                        *)
LEMMA PublishRelays ==
  ASSUME IdType', Publish
  PROVE  RelayedIntact'
<1> DEFINE p == sent'
           r == relayed'
           g == got'
<1>1. Published(p)
  BY PublishGets
<1>2. CASE TopicLen(p) = 0
  <2>1. relayed' = <<>>
    BY <1>2, PublishGets
  <2> QED BY <2>1, Zenon DEF RelayedIntact
<1>3. CASE TopicLen(p) # 0
  <2>1. PICK qos, behind :
           /\ Relays(p, g, qos, behind)
           /\ qos \in Nat /\ g.payload \in Seq(Nat) /\ id' \in Nat
           /\ WrittenOut(r, qos, TopicLen(p), id', g.payload)
           /\ r[1] = qos
    BY <1>3, RelayedAs
  <2> DEFINE msg == Received(r, qos)
             row == id'
             m == TopicLen(p)
             t == p.topic
             short == Len(r) - 2 < Base
             whole == /\ msg.whole
                      /\ msg.topic = Fill(t)
                      /\ msg.payload = p.payload
                      /\ qos > 0 => msg.id = ML(row)
  <2>2. Intact' <=> whole
    <3>1. Intact' <=> /\ Received(r, r[1]).whole
                      /\ Received(r, r[1]).topic = Fill(t)
                      /\ Received(r, r[1]).payload = p.payload
                      /\ r[1] > 0 => Received(r, r[1]).id = ML(row)
      BY Zenon DEF Intact
    <3>2. r[1] = qos
      BY <2>1
    <3> HIDE DEF r, p, row
    <3> QED BY <3>1, <3>2
  <2>3. /\ whole <=> Plain(p) /\ g.ended /\ 0 \notin Range(p.payload) /\ short
        /\ Plain(p) /\ ~g.ended => p.qos = 0 /\ Len(p.payload) >= Zeroed
    <3> HIDE DEF p, r, g, row
    <3>1. CASE Plain(p)
      <4>1. m = t /\ m \in 1..(Base - 1)
        <5>1. t < Base /\ t \in Nat \ {0}
          BY <1>1, <3>1, PublishPlain, PublishLies
        <5>2. t < Base <=> m = t
          BY <1>1, TopicRead
        <5> QED BY <5>1, <5>2, BaseAssumption
      <4> DEFINE c == g.payload
      <4>2. c \in Seq(Nat) /\ qos \in Nat /\ row \in Nat /\ WrittenOut(r, qos, m, row, c)
        BY <2>1 DEF row, g
      <4>3. g.payload = p.payload <=> g.ended /\ 0 \notin Range(p.payload)
        BY <1>1, <1>3, <2>1, <3>1, PayloadRelayed
      <4>4. ~g.ended => p.qos = 0 /\ Len(p.payload) >= Zeroed
        BY <1>1, <1>3, <2>1, <3>1, PayloadRelayed
      <4> HIDE DEF c, m, t
      <4>5. /\ msg.whole <=> short
            /\ msg.whole => msg.topic = Fill(m) /\ msg.payload = c /\ (qos > 0 => msg.id = ML(row))
        BY <4>1, <4>2, PlainComesThrough
      <4>6. c = p.payload <=> g.ended /\ 0 \notin Range(p.payload)
        BY <4>3 DEF c
      <4> HIDE DEF msg, short
      <4>7. whole <=> short /\ c = p.payload
        BY <4>1, <4>5
      <4> QED BY <3>1, <4>4, <4>6, <4>7
    <3>2. CASE ~Plain(p)
      <4> DEFINE c == g.payload
      <4>1. c \in Seq(Nat) /\ qos \in Nat /\ row \in Nat /\ WrittenOut(r, qos, TopicLen(p), row, c)
        BY <2>1 DEF row, g
      <4>2. ~Plain(p) /\ TopicLen(p) # 0 /\ Published(p)
        BY <1>1, <1>3, <3>2
      <4> HIDE DEF c
      <4>3. ~(Received(r, qos).whole /\ Received(r, qos).topic = Fill(p.topic))
        BY <4>1, <4>2, LongTopicGetsLost
      <4>4. ~whole
        BY <4>3
      <4> QED BY <3>2, <4>4
    <3> QED BY <3>1, <3>2
  <2> HIDE DEF whole, short
  <2>4. /\ Intact' <=> /\ Plain(p)
                       /\ g.ended
                       /\ 0 \notin Range(p.payload)
                       /\ short
        /\ Plain(p) /\ ~g.ended => p.qos = 0 /\ Len(p.payload) >= Zeroed
    BY <2>2, <2>3, Zenon
  <2> QED BY <2>4, Zenon DEF RelayedIntact, short
<1> QED BY <1>2, <1>3

(* Between two packets nothing is relayed: the rows that other messages    *)
(* take in the meantime would put another identifier next to it.           *)
NothingYet == sent = NoPacket => relayed = <<>>

(* A subscriber receives the topic, the identifier and the payload of the  *)
(* message, in a packet it finds the end of, if and only if the topic is   *)
(* one both sides read alike, the payload has no zero byte and an end in   *)
(* memory, and one byte of remaining length can say how long the packet    *)
(* is; and only a payload of 8 bytes or more that was published with       *)
(* quality of service 0 may lack an end: whatever topics and payloads are  *)
(* published and whatever row the message takes (mqtt_decode.c:197-201,    *)
(* mqtt_encode.c:197).                                                     *)
THEOREM ComesThroughIntact == WireSpec => []RelayedIntact
<1> DEFINE Inv == RelayedIntact /\ NothingYet
<1>1. WireInit => Inv
  BY DEF WireInit, RelayedIntact, NothingYet
<1>2. IdType' /\ Inv /\ [Next]_vars => Inv'
  <2> SUFFICES ASSUME IdType', Inv, [Next]_vars PROVE Inv'
    OBVIOUS
  <2>1. CASE relayed' = <<>>
    BY <2>1, Zenon DEF RelayedIntact, NothingYet
  <2>2. CASE Connect \/ Subscribe \/ Unsubscribe \/ Control
    <3>1. sent = NoPacket /\ relayed' = relayed
      BY <2>2 DEF Connect, Subscribe, Unsubscribe, Control, Sends
    <3>2. relayed' = <<>>
      BY <3>1 DEF NothingYet
    <3> QED BY <2>1, <3>2
  <2>3. CASE Publish
    <3>1. RelayedIntact'
      BY <2>3, PublishRelays
    <3>2. sent' # NoPacket
      <4>1. sent'.kind = "publish"
        BY <2>3, PublishGets DEF Published
      <4>2. NoPacket.kind = "none"
        BY DEF NoPacket
      <4> QED BY <4>1, <4>2
    <3> QED BY <3>1, <3>2 DEF NothingYet
  <2>4. CASE Done
    BY <2>1, <2>4, DoneDoes
  <2>5. CASE Others
    <3>1. relayed' = <<>>
      BY <2>5 DEF Others, wireVars, NothingYet
    <3> QED BY <2>1, <3>1
  <2>6. CASE UNCHANGED vars
    BY <2>6, Zenon DEF vars, RelayedIntact, NothingYet, Intact, Plain, Lens
  <2> QED BY <2>2, <2>3, <2>4, <2>5, <2>6 DEF Next
<1>3. WireSpec => []IdType
  BY WireImplementsRows, TypeCorrect, PTL
<1> QED BY <1>1, <1>2, <1>3, PTL DEF WireSpec
=============================================================================

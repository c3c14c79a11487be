------------------------- MODULE ExactlyOnceProofs -------------------------
(***************************************************************************)
(* Proofs about the QoS 2 handshakes, for any number of rows, messages,    *)
(* connections of the subscriber and breaks: a row from Base on is never   *)
(* given back; no message is delivered more often than it was taken unless *)
(* it was given such a row; as long as the table does not fill up and no   *)
(* PUBREC comes late or for such a row, messages are lost to lost PUBRELs  *)
(* alone, and the broker lives.                                            *)
(***************************************************************************)
EXTENDS ExactlyOnce, SequenceTheorems, FiniteSetTheorems, TLAPS

----------------------------------------------------------------------------
(* The inductive invariants.                                               *)

(* The CONNECT on this connection has not been read. *)
Unread(n) == inbox[n] = <<[kind |-> "CONNECT"]>>

OnlyPubRecs(q) == \A j \in DOMAIN q : q[j].kind = "PUBREC"

(* What the packets on the wires can be: nothing is on the way to a        *)
(* subscriber that is not there or whose CONNECT has not been read, a      *)
(* CONNECT is alone in its inbox, a session has its CONNECT behind it, and *)
(* what is in flight from or to the publisher is about a message.          *)
Wires ==
  /\ at = 0 \/ Unread(at) => down = <<>>
  /\ \A n \in Conn : n > opened => inbox[n] = <<>>
  /\ \A n \in Conn : Unread(n) \/ OnlyPubRecs(inbox[n])
  /\ \A n \in sessions : n <= opened /\ ~Unread(n)
  /\ stage # "idle" \/ flight # "" => sent # 0

(* The newest connection whose CONNECT has been read: of all connections   *)
(* the only one whose PUBRECs do not come late.                            *)
Current(n) ==
  /\ n \in 1..opened /\ ~Unread(n)
  /\ \A k \in (n + 1)..opened : Unread(k)

IsPublish(d, i, j) == d[j].kind = "PUBLISH" /\ d[j].id = i
IsPubRel(d, i, j)  == d[j].kind = "PUBREL" /\ d[j].id = i

(* The identifiers that are read as they were written, and their rows.     *)
Low  == {w \in Wire : ~w.msb.high}
Held == [w \in Low |-> rows[StringLen(w)]]

(* A PUBREC of the current connection is about a row in use, of a message  *)
(* that was delivered; there is one for a row, and with it no PUBLISH.     *)
Acks ==
  \A n \in Conn : Current(n) => \A j \in DOMAIN inbox[n] : inbox[n][j].id \in Low =>
    LET i == inbox[n][j].id
    IN  /\ Held[i].msg # NoMsg
        /\ delivered[Held[i].msg] > 0 \/ i \in unheard
        /\ \A k \in DOMAIN inbox[n] : inbox[n][k].id = i => k = j
        /\ n = at => \A k \in DOMAIN down : ~IsPublish(down, i, k)

(* A PUBLISH on its way has its row, and is the only one that has.         *)
Copies ==
  \A j \in DOMAIN down : down[j].kind = "PUBLISH" /\ down[j].id \in Low =>
    /\ Held[down[j].id].msg = down[j].msg
    /\ \A k \in DOMAIN down : IsPublish(down, down[j].id, k) => k = j

(* An identifier the subscriber holds: its PUBREL was lost, or is on the   *)
(* way ahead of any PUBLISH, or its row is still that of a message it got. *)
Holds ==
  \A i \in holding \cap Low :
    \/ i \in unheard
    \/ Held[i].msg # NoMsg /\ delivered[Held[i].msg] > 0
    \/ \E j \in DOMAIN down : IsPubRel(down, i, j)
         /\ \A k \in 1..(j - 1) : ~IsPublish(down, i, k)

NoneLost ==
  \A m \in Msg : \/ accepted[m] = 0 \/ delivered[m] > 0 \/ Kept(m)
                 \/ \E i \in unheard : <<m, i>> \in given

Harmless == up /\ Acks /\ Copies /\ Holds /\ NoneLost
Safe == harm = {} => Harmless

(* A message in a row, and one on its way, was given the identifier there. *)
Entered == \A i \in Id : rows[i].msg # NoMsg => <<rows[i].msg, MLEncode(i)>> \in given
OnItsWay ==
  \A j \in DOMAIN down : down[j].kind = "PUBLISH" => <<down[j].msg, down[j].id>> \in given
Traced == Entered /\ OnItsWay

(* A PUBLISH that will be delivered when it is reached: the subscriber     *)
(* will not be holding its identifier.                                     *)
Fresh(d, h, j) ==
  LET i == d[j].id
  IN  /\ d[j].kind = "PUBLISH"
      /\ \/ i \notin h /\ \A k \in 1..(j - 1) : ~IsPublish(d, i, k)
         \/ \E l \in 1..(j - 1) :
              IsPubRel(d, i, l) /\ \A k \in (l + 1)..(j - 1) : ~IsPublish(d, i, k)

(* Deliveries of m that may be to come: rows of m whose identifier is not  *)
(* held or will be released, and fresh PUBLISHes without such a row.       *)
Open(d, h, r, m) ==
  {i \in Low : r[i].msg = m /\ (i \notin h \/ \E l \in DOMAIN d : IsPubRel(d, i, l))}

Stray(d, h, r, m) ==
  {j \in DOMAIN d : /\ Fresh(d, h, j) /\ d[j].msg = m /\ d[j].id \in Low
                    /\ \/ r[d[j].id].msg # m
                       \/ \E l \in (j + 1)..Len(d) : IsPubRel(d, d[j].id, l)}

Count(d, h, r, m) == Cardinality(Open(d, h, r, m)) + Cardinality(Stray(d, h, r, m))

Bounded ==
  \A m \in Msg : GivenHigh(m) \/ delivered[m] + Count(down, holding, Held, m) <= accepted[m]
----------------------------------------------------------------------------
(* Least and greatest numbers, and sorted sequences.                       *)

LEMMA LeastNumber ==
  ASSUME NEW S, S \subseteq Nat, S # {}
  PROVE  Min(S) \in S /\ \A m \in S : Min(S) <= m
<1> DEFINE R == OpToRel(<, Nat)
<1>1. PICK n \in S : \A m \in S : <<m, n>> \notin R
  <2>1. IsWellFoundedOn(R, Nat)
    BY NatLessThanWellFounded
  <2> QED BY <2>1, WFMin
<1>2. \A m \in S : ~(m < n)
  BY <1>1 DEF OpToRel
<1> HIDE DEF R
<1>3. \A m \in S : n <= m
  BY <1>2
<1> QED BY <1>3 DEF Min

LEMMA GreatestNumber ==
  ASSUME NEW b \in Nat, NEW S, S \subseteq 1..b, S # {}
  PROVE  Max(S) \in S /\ \A m \in S : m <= Max(S)
<1> DEFINE bounds == {n \in Nat : \A m \in S : m <= n}
<1>1. b \in bounds
  OBVIOUS
<1>2. PICK n : n = Min(bounds)
  OBVIOUS
<1>3. n \in bounds /\ \A m \in bounds : n <= m
  BY <1>1, <1>2, LeastNumber
<1>4. n \in S
  <2>1. SUFFICES ASSUME n \notin S PROVE FALSE
    OBVIOUS
  <2>2. n \in Nat /\ n # 0
    <3>1. PICK x \in S : x \in 1..b
      OBVIOUS
    <3>2. x <= n /\ n \in Nat
      BY <1>3, <3>1
    <3> QED BY <3>1, <3>2
  <2>3. \A m \in S : m <= n - 1
    BY <1>3, <2>1
  <2>4. n - 1 \in bounds
    BY <2>2, <2>3
  <2> QED BY <1>3, <2>2, <2>4
<1>5. \A m \in S : n >= m /\ m <= n
  BY <1>3
<1>6. Max(S) \in S /\ \A m \in S : Max(S) >= m
  BY <1>4, <1>5 DEF Max
<1> QED BY <1>6

(* A set of numbers in ascending order: the rank of a number counts those  *)
(* up to it, and no two numbers have one rank.                             *)
LEMMA Ascending ==
  ASSUME NEW S, S \subseteq Nat, IsFiniteSet(S)
  PROVE  \E s \in [1..Cardinality(S) -> S] :
           \A j, k \in DOMAIN s : j < k => s[j] < s[k]
<1> DEFINE below(i) == {j \in S : j <= i}
           N == Cardinality(S)
           rank == [i \in S |-> Cardinality(below(i))]
           s == [n \in 1..N |-> CHOOSE i \in S : rank[i] = n]
<1>1. N \in Nat
  BY FS_CardinalityType
<1>2. ASSUME NEW i \in S
      PROVE  IsFiniteSet(below(i)) /\ rank[i] \in 1..N
  <2>1. below(i) \in SUBSET S /\ i \in below(i)
    OBVIOUS
  <2>2. IsFiniteSet(below(i)) /\ Cardinality(below(i)) <= N
    BY <2>1, FS_Subset
  <2>3. Cardinality(below(i)) \in Nat /\ Cardinality(below(i)) # 0
    BY <2>1, <2>2, FS_CardinalityType, FS_EmptySet
  <2> QED BY <1>1, <2>2, <2>3
<1>3. ASSUME NEW i \in S, NEW k \in S, i < k
      PROVE  rank[i] < rank[k]
  <2>1. below(i) \in SUBSET below(k) /\ k \in below(k) /\ k \notin below(i)
    <3>1. i \in Nat /\ k \in Nat
      OBVIOUS
    <3>2. ASSUME NEW j \in S, j <= i
          PROVE  j <= k
      <4>1. j \in Nat
        OBVIOUS
      <4> QED BY <1>3, <3>1, <3>2, <4>1
    <3>3. k <= k /\ ~(k <= i)
      BY <1>3, <3>1
    <3> QED BY <3>2, <3>3
  <2>2. IsFiniteSet(below(k))
    BY <1>2
  <2>3. Cardinality(below(i)) <= Cardinality(below(k))
        /\ Cardinality(below(k)) # Cardinality(below(i))
    BY <2>1, <2>2, FS_Subset
  <2>4. rank[i] \in Nat /\ rank[k] \in Nat
    BY <1>2
  <2> QED BY <2>3, <2>4
<1>4. rank \in Injection(S, 1..N)
  <2>1. rank \in [S -> 1..N]
    BY <1>2
  <2>2. ASSUME NEW i \in S, NEW k \in S, rank[i] = rank[k]
        PROVE  i = k
    <3>1. rank[i] \in Nat /\ i \in Nat /\ k \in Nat
      BY <1>2
    <3>2. ~(rank[i] < rank[k]) /\ ~(rank[k] < rank[i])
      BY <2>2, <3>1
    <3>3. ~(i < k) /\ ~(k < i)
      BY <1>3, <3>2
    <3> QED BY <3>1, <3>3
  <2> HIDE DEF rank
  <2> QED BY <2>1, <2>2 DEF Injection, IsInjective
<1>5. rank \in Surjection(S, 1..N)
  <2>1. IsFiniteSet(1..N) /\ Cardinality(1..N) = N
    BY <1>1, FS_Interval
  <2> HIDE DEF rank
  <2> QED BY <1>4, <2>1, FS_Injection
<1>6. ASSUME NEW n \in 1..N
      PROVE  s[n] \in S /\ rank[s[n]] = n
  <2>1. \E i \in S : rank[i] = n
    BY <1>5 DEF Surjection
  <2> HIDE DEF rank
  <2> QED BY <2>1
<1>7. s \in [1..N -> S]
  BY <1>6
<1> HIDE DEF s, rank
<1>8. ASSUME NEW j \in 1..N, NEW k \in 1..N, j < k
      PROVE  s[j] < s[k]
  <2>1. PICK x \in S, y \in S : x = s[j] /\ y = s[k] /\ rank[x] = j /\ rank[y] = k
    BY <1>6
  <2>2. x \in Nat /\ y \in Nat /\ j \in Nat /\ k \in Nat
    BY <1>1
  <2>3. x # y
    BY <1>8, <2>1, <2>2
  <2>4. ~(y < x)
    BY <1>3, <1>8, <2>1, <2>2
  <2> QED BY <2>1, <2>2, <2>3, <2>4
<1>9. DOMAIN s = 1..N
  BY <1>7
<1> QED BY <1>7, <1>8, <1>9
----------------------------------------------------------------------------
(* The identifiers on the wire.                                            *)

LEMMA Quotient ==
  ASSUME NEW x \in Nat, NEW b \in Nat, b >= 1, NEW n \in Nat, x < b * n
  PROVE  /\ x \div b \in Nat /\ x \div b <= x /\ x \div b < n
         /\ x >= b => x \div b >= 1
<1>1. PICK q, r : q = x \div b /\ r = x % b
  OBVIOUS
<1>2. q \in Nat /\ r \in Nat /\ x = b * q + r /\ r < b
  BY <1>1
<1>3. q <= x
  <2>1. b * q >= q
    BY <1>2
  <2> QED BY <1>2, <2>1
<1>4. q < n
  <2>1. CASE q >= n
    <3>1. b * q >= b * n
      BY <1>2, <2>1
    <3> QED BY <1>2, <3>1
  <2> QED BY <1>2, <2>1
<1>5. x >= b => q >= 1
  <2>1. q = 0 => b * q = 0
    OBVIOUS
  <2> QED BY <1>2, <2>1
<1> QED BY <1>1, <1>2, <1>3, <1>4, <1>5

(* Up to Base an identifier is read as the row it was written for; from    *)
(* Base on, as another row, one below Base.                                *)
LEMMA WireIs ==
  ASSUME NEW i \in Id
  PROVE  /\ MLEncode(i) \in Wire
         /\ i < Base => MLEncode(i) \in Low /\ StringLen(MLEncode(i)) = i
         /\ i >= Base => MLEncode(i).msb.high = TRUE
         /\ StringLen(MLEncode(i)) \in Id /\ StringLen(MLEncode(i)) < Base
<1>1. /\ i \in Nat /\ i >= 1 /\ i <= MaxId /\ MaxId \in Nat /\ MaxId < Base * Base * Base
      /\ Base \in Nat /\ Base >= 2
  BY ExactlyOnceAssumption, BaseAssumption DEF Id
<1>2. MLEncode(i) \in Wire
  BY DEF Wire
<1>3. CASE i < Base
  <2>1. MLEncode(i).msb.high = FALSE /\ StringLen(MLEncode(i)) = i
    BY <1>3 DEF MLEncode, StringLen, Byte
  <2> QED BY <1>1, <1>2, <1>3, <2>1 DEF Low
<1>4. CASE i >= Base /\ i < Base * Base
  <2>1. MLEncode(i).msb.high = TRUE /\ StringLen(MLEncode(i)) = i \div Base
    BY <1>1, <1>4 DEF MLEncode, StringLen, Byte
  <2>2. i \div Base \in 1..MaxId /\ i \div Base < Base
    BY <1>1, <1>4, Quotient
  <2> QED BY <1>1, <1>2, <1>4, <2>1, <2>2 DEF Id
<1>5. CASE i >= Base * Base
  <2>1. PICK b : b = Base * Base
    OBVIOUS
  <2>2. b \in Nat /\ b >= Base /\ b >= 1 /\ i < b * Base
    BY <1>1, <2>1
  <2>3. MLEncode(i).msb.high = TRUE /\ StringLen(MLEncode(i)) = i \div b
    BY <1>1, <1>5, <2>1, <2>2 DEF MLEncode, StringLen, Byte
  <2>4. i \div b \in 1..MaxId /\ i \div b < Base
    BY <1>1, <1>5, <2>1, <2>2, Quotient
  <2> QED BY <1>1, <1>2, <1>5, <2>1, <2>2, <2>3, <2>4 DEF Id
<1>6. i < Base \/ (i >= Base /\ i < Base * Base) \/ i >= Base * Base
  <2>1. PICK b : b = Base * Base
    OBVIOUS
  <2>2. b \in Nat
    BY <1>1, <2>1
  <2> QED BY <1>1, <2>1, <2>2
<1> QED BY <1>3, <1>4, <1>5, <1>6

LEMMA LowIs ==
  /\ Low \subseteq Wire
  /\ \A w \in Wire : StringLen(w) \in Id /\ StringLen(w) < Base
  /\ \A w \in Wire : w \in Low <=> ~w.msb.high
  /\ \A w \in Low : MLEncode(StringLen(w)) = w
  /\ \A i \in Id : i < Base => MLEncode(i) \in Low /\ StringLen(MLEncode(i)) = i
  /\ \A i \in Id : MLEncode(i) \in Wire /\ (i >= Base => MLEncode(i) \notin Low)
<1>1. \A w \in Wire : StringLen(w) \in Id /\ StringLen(w) < Base
  BY WireIs DEF Wire
<1>2. \A i \in Id : MLEncode(i) \in Wire /\ (i >= Base => MLEncode(i) \notin Low)
  BY WireIs DEF Low
<1>3. ASSUME NEW w \in Low
      PROVE  MLEncode(StringLen(w)) = w
  <2>1. PICK i \in Id : w = MLEncode(i)
    BY DEF Low, Wire
  <2>2. i < Base \/ i >= Base
    BY BaseAssumption DEF Id
  <2>3. i < Base
    BY <1>2, <2>1, <2>2
  <2> QED BY <2>1, <2>3, WireIs
<1> QED BY <1>1, <1>2, <1>3, WireIs DEF Low

(* A step changes the row of one identifier or of none.                    *)
LEMMA HeldIs ==
  ASSUME TypeOK
  PROVE  /\ \A w \in Low : Held[w] = rows[StringLen(w)] /\ StringLen(w) \in Id
         /\ \A i \in Id : i < Base => Held[MLEncode(i)] = rows[i]
<1>1. \A w \in Low : Held[w] = rows[StringLen(w)] /\ StringLen(w) \in Id
  BY LowIs DEF Held
<1>2. ASSUME NEW i \in Id, i < Base
      PROVE  Held[MLEncode(i)] = rows[i]
  <2>1. PICK w : w = MLEncode(i)
    OBVIOUS
  <2>2. w \in Low /\ StringLen(w) = i
    BY <1>2, <2>1, LowIs
  <2> QED BY <1>1, <2>1, <2>2
<1> QED BY <1>1, <1>2

LEMMA HeldSame ==
  ASSUME UNCHANGED rows
  PROVE  Held' = Held
BY DEF Held

LEMMA HeldChanges ==
  ASSUME NEW i \in Id, NEW r, rows' = [rows EXCEPT ![i] = r], rows \in [Id -> Rows]
  PROVE  /\ rows'[i] = r /\ \A k \in Id : k # i => rows'[k] = rows[k]
         /\ i < Base => Held'[MLEncode(i)] = r
         /\ \A w \in Low : w # MLEncode(i) => Held'[w] = Held[w]
         /\ i >= Base => Held' = Held
<1>1. rows'[i] = r /\ \A k \in Id : k # i => rows'[k] = rows[k]
  OBVIOUS
<1>2. /\ Held' = [w \in Low |-> rows'[StringLen(w)]]
      /\ Held = [w \in Low |-> rows[StringLen(w)]]
  BY DEF Held
<1>3. i < Base => Held'[MLEncode(i)] = r
  <2>1. PICK w : w = MLEncode(i)
    OBVIOUS
  <2>2. i < Base => w \in Low /\ StringLen(w) = i
    BY <2>1, LowIs
  <2> QED BY <1>1, <1>2, <2>1, <2>2
<1>4. ASSUME NEW w \in Low, w # MLEncode(i)
      PROVE  Held'[w] = Held[w]
  <2>1. StringLen(w) \in Id /\ StringLen(w) # i
    BY <1>4, LowIs
  <2> QED BY <1>1, <1>2, <2>1
<1>5. ASSUME i >= Base
      PROVE  Held' = Held
  <2>1. \A w \in Low : StringLen(w) \in Id /\ StringLen(w) # i
    <3>1. i \in Nat /\ Base \in Nat
      BY BaseAssumption DEF Id
    <3> QED BY <1>5, <3>1, LowIs DEF Id
  <2>2. \A w \in Low : rows'[StringLen(w)] = rows[StringLen(w)]
    BY <1>1, <2>1
  <2> QED BY <1>2, <2>2
<1> QED BY <1>1, <1>3, <1>4, <1>5
----------------------------------------------------------------------------
(* What the broker's helpers choose.                                       *)
LEMMA NextRowIs ==
  ASSUME TypeOK
  PROVE  /\ NextRow \in Id
         /\ Free # {} => NextRow \in Free
         /\ Free \subseteq Id
<1>1. Free \subseteq Id /\ MaxId \in Id
  BY ExactlyOnceAssumption DEF Free, Id
<1>2. Id \subseteq Nat
  BY DEF Id
<1>3. Free # {} => Min(Free) \in Free
  BY <1>1, <1>2, LeastNumber
<1> QED BY <1>1, <1>3 DEF NextRow

(* What CONNECT sends again: a PUBLISH for every row in use, each once.    *)
ResentPackets == [k \in DOMAIN Resent |-> ToPublish(Resent[k], rows[Resent[k]].msg)]

LEMMA ResentIs ==
  ASSUME TypeOK
  PROVE  /\ ResentPackets \in Seq(ToSubscriber)
         /\ \A k \in DOMAIN ResentPackets :
              /\ ResentPackets[k].kind = "PUBLISH"
              /\ ResentPackets[k].id \in Wire
              /\ ResentPackets[k].msg \in Msg
              /\ \E i \in Id : /\ ResentPackets[k].id = MLEncode(i)
                               /\ ResentPackets[k].msg = rows[i].msg
              /\ ResentPackets[k].id \in Low =>
                   ResentPackets[k].msg = Held[ResentPackets[k].id].msg
         /\ \A j, k \in DOMAIN ResentPackets :
              ResentPackets[j].id \in Low /\ ResentPackets[j].id = ResentPackets[k].id => j = k
<1> DEFINE used == Id \ Free
           N == Cardinality(used)
<1>1. used \subseteq Nat /\ used \subseteq Id /\ IsFiniteSet(used)
  <2>1. IsFiniteSet(Id) /\ Id \subseteq Nat
    BY FS_Interval, ExactlyOnceAssumption DEF Id
  <2>2. used \in SUBSET Id
    OBVIOUS
  <2> HIDE DEF used
  <2>3. IsFiniteSet(used)
    BY <2>1, <2>2, FS_Subset
  <2> QED BY <2>1, <2>2, <2>3
<1>2. N \in Nat
  BY <1>1, FS_CardinalityType
<1>3. /\ Resent \in [1..N -> used]
      /\ \A j, k \in DOMAIN Resent : j < k => Resent[j] < Resent[k]
  <2> HIDE DEF used
  <2>1. \E s \in [1..N -> used] : \A j, k \in DOMAIN s : j < k => s[j] < s[k]
    BY <1>1, Ascending
  <2> QED BY <2>1 DEF Resent, used
<1>4. DOMAIN Resent = 1..N
  BY <1>3
<1>5. ASSUME NEW j \in 1..N, NEW k \in 1..N, Resent[j] = Resent[k]
      PROVE  j = k
  <2>1. PICK x \in Nat : x = Resent[j] /\ x = Resent[k]
    BY <1>1, <1>3, <1>5
  <2>2. ~(x < x)
    BY <2>1
  <2>3. ~(j < k) /\ ~(k < j)
    BY <1>3, <1>4, <2>1, <2>2
  <2> QED BY <1>2, <2>3
<1>6. ASSUME NEW k \in 1..N
      PROVE  /\ Resent[k] \in Id /\ rows[Resent[k]].msg \in Msg
             /\ ResentPackets[k] = [kind |-> "PUBLISH", id |-> MLEncode(Resent[k]),
                                    msg |-> rows[Resent[k]].msg]
  <2>1. Resent[k] \in Id /\ rows[Resent[k]].msg # NoMsg
    BY <1>3 DEF Free
  <2>2. rows[Resent[k]] \in Rows
    BY <2>1 DEF TypeOK
  <2>3. rows[Resent[k]].msg \in Msg
    BY <2>1, <2>2 DEF Rows, FreshRow, FreedRow
  <2> QED BY <1>4, <2>1, <2>3 DEF ResentPackets, ToPublish
<1>7. DOMAIN ResentPackets = 1..N
  BY <1>4 DEF ResentPackets
<1>8. ASSUME NEW k \in 1..N
      PROVE  /\ ResentPackets[k] \in ToSubscriber
             /\ ResentPackets[k].kind = "PUBLISH"
             /\ ResentPackets[k].id = MLEncode(Resent[k])
             /\ ResentPackets[k].msg = rows[Resent[k]].msg
  <2>1. PICK i, m, w : i = Resent[k] /\ m = rows[Resent[k]].msg /\ w = MLEncode(i)
    OBVIOUS
  <2>2. /\ i \in Id /\ m \in Msg /\ w \in Wire
        /\ ResentPackets[k] = [kind |-> "PUBLISH", id |-> w, msg |-> m]
    BY <1>6, <2>1, LowIs
  <2>3. [kind |-> "PUBLISH", id |-> w, msg |-> m] \in ToSubscriber
    BY <2>2 DEF ToSubscriber
  <2> QED BY <2>1, <2>2, <2>3
<1>9. ResentPackets \in [1..N -> ToSubscriber]
  BY <1>4, <1>7, <1>8 DEF ResentPackets
<1>10. ResentPackets \in Seq(ToSubscriber)
  BY <1>2, <1>9, SeqDef
<1>11. ASSUME NEW j \in DOMAIN ResentPackets, NEW k \in DOMAIN ResentPackets,
              ResentPackets[j].id \in Low, ResentPackets[j].id = ResentPackets[k].id
       PROVE  j = k
  <2>1. PICK x, y : x = Resent[j] /\ y = Resent[k]
    OBVIOUS
  <2>2. /\ x \in Id /\ y \in Id /\ MLEncode(x) \in Low /\ MLEncode(x) = MLEncode(y)
    BY <1>6, <1>7, <1>8, <1>11, <2>1
  <2>3. x < Base /\ y < Base
    <3>1. x \in Nat /\ y \in Nat /\ Base \in Nat
      BY <2>2, BaseAssumption DEF Id
    <3> QED BY <2>2, <3>1, LowIs
  <2>4. x = y
    BY <2>2, <2>3, LowIs
  <2> QED BY <1>5, <1>7, <2>1, <2>4
<1>12. ASSUME NEW k \in DOMAIN ResentPackets
       PROVE  /\ ResentPackets[k].kind = "PUBLISH"
              /\ ResentPackets[k].id \in Wire
              /\ ResentPackets[k].msg \in Msg
              /\ \E i \in Id : /\ ResentPackets[k].id = MLEncode(i)
                               /\ ResentPackets[k].msg = rows[i].msg
              /\ ResentPackets[k].id \in Low =>
                   ResentPackets[k].msg = Held[ResentPackets[k].id].msg
  <2>1. k \in 1..N
    BY <1>7
  <2>2. PICK i, m, w : i = Resent[k] /\ m = rows[Resent[k]].msg /\ w = MLEncode(i)
    OBVIOUS
  <2>3. i \in Id /\ m \in Msg /\ w \in Wire
    BY <1>6, <2>1, <2>2, LowIs
  <2>4. /\ ResentPackets[k].kind = "PUBLISH"
        /\ ResentPackets[k].id = w /\ ResentPackets[k].msg = m
    BY <1>8, <2>1, <2>2
  <2>5. rows[i].msg = m
    BY <2>2
  <2>6. w \in Low => Held[w].msg = m
    <3>1. w \in Low => i < Base
      <4>1. i \in Nat /\ Base \in Nat
        BY <2>3, BaseAssumption DEF Id
      <4> QED BY <2>2, <2>3, <4>1, LowIs
    <3> QED BY <2>2, <2>3, <2>5, <3>1, HeldIs
  <2> QED BY <2>2, <2>3, <2>4, <2>5, <2>6
<1> HIDE DEF used
<1> QED BY <1>10, <1>11, <1>12

----------------------------------------------------------------------------
(* The types.                                                              *)

LEMMA InitTypes == Init => TypeOK
<1> SUFFICES ASSUME Init PROVE TypeOK
  OBVIOUS
<1>1. rows \in [Id -> Rows]
  <2>1. FreshRow \in Rows
    BY DEF Rows
  <2> QED BY <2>1 DEF Init
<1>3. inbox \in [Conn -> Seq(FromSubscriber)] /\ down \in Seq(ToSubscriber)
  <2>1. <<>> \in Seq(FromSubscriber) /\ <<>> \in Seq(ToSubscriber)
    BY EmptySeq
  <2> QED BY <2>1 DEF Init
<1>2. accepted \in [Msg -> Nat] /\ delivered \in [Msg -> Nat]
  BY DEF Init
<1>4. /\ opened \in 0..MaxConn /\ at \in {0, opened} /\ ended \subseteq 1..opened \ {at}
      /\ sent \in 0..MaxMsg /\ breaks \in 0..MaxBreaks
  <2>1. MaxConn \in Nat /\ MaxMsg \in Nat /\ MaxBreaks \in Nat
    BY ExactlyOnceAssumption
  <2>2. opened = 0 /\ at = 0 /\ ended = {} /\ sent = 0 /\ breaks = 0
    BY DEF Init
  <2>3. \A b \in Nat : 0 \in 0..b
    OBVIOUS
  <2> QED BY <2>1, <2>2, <2>3
<1>5. /\ up \in BOOLEAN /\ sessions \subseteq Conn /\ holding \subseteq Wire
      /\ stage \in {"idle", "publish", "release"}
      /\ flight \in {"", "PUBLISH", "PUBREC", "PUBREL", "PUBCOMP"}
      /\ given \subseteq Msg \X Wire /\ unheard \subseteq Wire
      /\ harm \subseteq {"full", "late", "astray"}
  BY DEF Init
<1> QED BY <1>1, <1>2, <1>3, <1>4, <1>5 DEF TypeOK

LEMMA ReleasesAreIds ==
  ASSUME NEW packets \in Seq(ToSubscriber)
  PROVE  Releases(packets) = {packets[j].id : j \in {k \in DOMAIN packets : packets[k].kind = "PUBREL"}}
         /\ Releases(packets) \subseteq Wire
<1>1. \A j \in DOMAIN packets : packets[j] \in ToSubscriber
  BY LenProperties, ElementOfSeq
<1>2. Releases(packets) = {packets[j].id : j \in {k \in DOMAIN packets : packets[k].kind = "PUBREL"}}
  BY DEF Releases, ToSet
<1> QED BY <1>1, <1>2 DEF ToSubscriber

LEMMA WriteTypes ==
  ASSUME TypeOK, NEW n, NEW packets \in Seq(ToSubscriber), WriteTo(n, packets)
  PROVE  down' \in Seq(ToSubscriber) /\ unheard' \subseteq Wire
<1>1. Releases(packets) \subseteq Wire
  BY ReleasesAreIds
<1>2. down \o packets \in Seq(ToSubscriber)
  BY ConcatProperties DEF TypeOK
<1> QED BY <1>1, <1>2 DEF WriteTo, TypeOK
----------------------------------------------------------------------------
(* The numbers among the variables.                                        *)

LEMMA Numbers ==
  ASSUME TypeOK
  PROVE  /\ MaxConn \in Nat /\ MaxMsg \in Nat /\ MaxBreaks \in Nat
         /\ opened \in Nat /\ opened <= MaxConn /\ at \in Nat
         /\ at = 0 \/ (at = opened /\ at \in 1..opened /\ at \in Conn)
         /\ ended \subseteq 1..opened /\ at \notin ended
         /\ sent \in Nat /\ sent <= MaxMsg /\ breaks \in Nat /\ breaks <= MaxBreaks
         /\ sent # 0 => sent \in Msg
         /\ \A n \in Conn : n \in Nat /\ n >= 1
         /\ sessions \subseteq Conn
<1>1. MaxConn \in Nat /\ MaxMsg \in Nat /\ MaxBreaks \in Nat
  BY ExactlyOnceAssumption
<1>2. /\ opened \in 0..MaxConn /\ at \in {0, opened} /\ ended \subseteq 1..opened \ {at}
      /\ sent \in 0..MaxMsg /\ breaks \in 0..MaxBreaks /\ sessions \subseteq Conn
  BY DEF TypeOK
<1>3. /\ opened \in Nat /\ opened <= MaxConn
      /\ sent \in Nat /\ sent <= MaxMsg /\ breaks \in Nat /\ breaks <= MaxBreaks
  BY <1>1, <1>2
<1>4. at \in Nat /\ (at = 0 \/ (at = opened /\ at \in 1..opened /\ at \in 1..MaxConn))
  BY <1>1, <1>2, <1>3
<1>5. sent # 0 => sent \in 1..MaxMsg
  BY <1>1, <1>3
<1>6. \A n \in 1..MaxConn : n \in Nat /\ n >= 1
  BY <1>1
<1> QED BY <1>1, <1>2, <1>3, <1>4, <1>5, <1>6 DEF Msg, Conn

(* What is in an inbox.                                                    *)

PubRec(i) == [kind |-> "PUBREC", id |-> i]

LEMMA PubRecsGrow ==
  ASSUME NEW q \in Seq(FromSubscriber), OnlyPubRecs(q), NEW i \in Wire
  PROVE  /\ Append(q, PubRec(i)) \in Seq(FromSubscriber)
         /\ OnlyPubRecs(Append(q, PubRec(i)))
<1> DEFINE p == PubRec(i)
<1>1. p \in FromSubscriber /\ p.kind = "PUBREC"
  BY DEF PubRec, FromSubscriber
<1> HIDE DEF p
<1>2. Append(q, p) \in Seq(FromSubscriber)
  BY <1>1, AppendProperties
<1>3. \A j \in DOMAIN Append(q, p) : Append(q, p)[j].kind = "PUBREC"
  <2>1. DOMAIN q = 1..Len(q) /\ Len(q) \in Nat
    BY LenProperties
  <2>2. DOMAIN Append(q, p) = 1..(Len(q) + 1)
    BY <1>1, <1>2, <2>1, AppendProperties, LenProperties
  <2>3. ASSUME NEW j \in 1..(Len(q) + 1)
        PROVE  Append(q, p)[j].kind = "PUBREC"
    <3>1. CASE j = Len(q) + 1
      BY <1>1, <3>1, AppendProperties
    <3>2. CASE j # Len(q) + 1
      <4>1. j \in 1..Len(q)
        BY <2>1, <3>2
      <4>2. Append(q, p)[j] = q[j]
        BY <1>1, <4>1, AppendProperties
      <4> QED BY <2>1, <4>1, <4>2 DEF OnlyPubRecs
    <3> QED BY <3>1, <3>2
  <2> QED BY <2>2, <2>3
<1> QED BY <1>2, <1>3 DEF p, OnlyPubRecs

LEMMA NotBoth ==
  ASSUME NEW q, q = <<[kind |-> "CONNECT"]>>
  PROVE  ~OnlyPubRecs(q) /\ Tail(q) = <<>> /\ Head(q).kind = "CONNECT" /\ q # <<>>
<1>1. PICK p : p = [kind |-> "CONNECT"]
  OBVIOUS
<1>2. q = <<p>> /\ p.kind = "CONNECT"
  BY <1>1
<1>3. 1 \in DOMAIN q /\ q[1] = p /\ Head(q) = p /\ Tail(q) = <<>> /\ q # <<>>
  BY <1>2
<1> QED BY <1>2, <1>3 DEF OnlyPubRecs

(* The head of an inbox tells what the rest is.                            *)
LEMMA InboxIs ==
  ASSUME TypeOK, Wires, NEW n \in Conn, inbox[n] # <<>>
  PROVE  /\ n \in 1..opened
         /\ inbox[n] \in Seq(FromSubscriber) /\ Tail(inbox[n]) \in Seq(FromSubscriber)
         /\ Head(inbox[n]) = inbox[n][1] /\ Head(inbox[n]) \in FromSubscriber
         /\ Head(inbox[n]).kind = "CONNECT" => Unread(n) /\ Tail(inbox[n]) = <<>>
         /\ Head(inbox[n]).kind = "PUBREC" =>
              ~Unread(n) /\ OnlyPubRecs(inbox[n]) /\ OnlyPubRecs(Tail(inbox[n]))
<1> DEFINE q == inbox[n]
<1>1. n \in 1..opened
  <2>1. opened \in Nat /\ n \in Nat /\ n >= 1
    BY Numbers
  <2>2. ~(n > opened)
    BY DEF Wires
  <2> QED BY <2>1, <2>2
<1>2. q \in Seq(FromSubscriber)
  BY DEF TypeOK
<1>3. Unread(n) \/ OnlyPubRecs(q)
  BY DEF Wires
<1>4. Unread(n) <=> q = <<[kind |-> "CONNECT"]>>
  BY DEF Unread
<1> HIDE DEF q
<1>5. Head(q) = q[1] /\ Head(q) \in FromSubscriber /\ Tail(q) \in Seq(FromSubscriber)
      /\ 1 \in DOMAIN q
  <2>1. Len(q) \in Nat \ {0} /\ DOMAIN q = 1..Len(q)
    BY <1>2, EmptySeq, LenProperties DEF q
  <2> QED BY <1>2, <2>1, HeadTailProperties DEF q
<1>6. Unread(n) => Head(q).kind = "CONNECT" /\ Tail(q) = <<>> /\ ~OnlyPubRecs(q)
  BY <1>4, NotBoth
<1>7. OnlyPubRecs(q) => Head(q).kind = "PUBREC"
  BY <1>5 DEF OnlyPubRecs
<1>8. ASSUME OnlyPubRecs(q)
      PROVE  OnlyPubRecs(Tail(q))
  <2>1. /\ Len(Tail(q)) = Len(q) - 1 /\ Len(q) \in Nat
        /\ \A j \in 1..Len(Tail(q)) : Tail(q)[j] = q[j + 1]
    BY <1>2, HeadTailProperties, LenProperties DEF q
  <2>2. DOMAIN Tail(q) = 1..Len(Tail(q)) /\ DOMAIN q = 1..Len(q)
    BY <1>2, <1>5, LenProperties
  <2>3. ASSUME NEW j \in 1..Len(Tail(q))
        PROVE  Tail(q)[j].kind = "PUBREC"
    <3>1. j + 1 \in DOMAIN q
      BY <2>1, <2>2
    <3> QED BY <1>8, <2>1, <3>1 DEF OnlyPubRecs
  <2> QED BY <2>2, <2>3 DEF OnlyPubRecs
<1>9. "PUBREC" # "CONNECT"
  OBVIOUS
<1> QED BY <1>1, <1>2, <1>3, <1>5, <1>6, <1>7, <1>8, <1>9 DEF q
----------------------------------------------------------------------------
(* Types and wires, action by action.                                      *)

Typed == TypeOK /\ Wires

LEMMA InitTyped == Init => Typed
<1> SUFFICES ASSUME Init PROVE Typed
  OBVIOUS
<1>1. Wires
  <2>1. \A n \in Conn : OnlyPubRecs(inbox[n])
    <3>1. DOMAIN <<>> = {}
      OBVIOUS
    <3> QED BY <3>1 DEF Init, OnlyPubRecs
  <2> QED BY <2>1 DEF Init, Wires
<1> QED BY <1>1, InitTypes DEF Typed

LEMMA PublisherTyped ==
  ASSUME Typed, PublishNext \/ PublisherGets \/ PublisherBreaks \/ GetPubRel
  PROVE  Typed'
<1> USE DEF Typed, broker, subscriber, publisher, wires, history
<1>1. UNCHANGED <<up, rows, sessions, at, opened, holding, delivered,
                  inbox, ended, down, accepted, given, unheard, harm>>
  BY DEF PublishNext, PublisherGets, PublisherBreaks, GetPubRel
<1>2. /\ stage' \in {"idle", "publish", "release"} /\ sent' \in 0..MaxMsg
      /\ flight' \in {"", "PUBLISH", "PUBREC", "PUBREL", "PUBCOMP"}
      /\ breaks' \in 0..MaxBreaks
      /\ stage' # "idle" \/ flight' # "" => sent' # 0
  <2>0. /\ MaxMsg \in Nat /\ MaxBreaks \in Nat /\ sent \in Nat /\ sent <= MaxMsg
        /\ breaks \in Nat /\ breaks <= MaxBreaks
    BY Numbers
  <2>1. /\ stage \in {"idle", "publish", "release"}
        /\ flight \in {"", "PUBLISH", "PUBREC", "PUBREL", "PUBCOMP"}
        /\ (stage # "idle" \/ flight # "") => sent # 0
    <3>1. /\ stage \in {"idle", "publish", "release"}
          /\ flight \in {"", "PUBLISH", "PUBREC", "PUBREL", "PUBCOMP"}
      BY DEF TypeOK
    <3> QED BY <3>1 DEF Wires
  <2>2. CASE PublishNext
    <3>1. stage' = "publish" /\ flight' = "PUBLISH"
      BY <2>2 DEF PublishNext
    <3>4. sent < MaxMsg /\ sent' = sent + 1 /\ breaks' = breaks
      BY <2>2 DEF PublishNext
    <3>2. sent' \in 0..MaxMsg /\ sent' # 0
      BY <2>0, <3>4
    <3>3. breaks' \in 0..MaxBreaks
      BY <2>0, <3>4
    <3> QED BY <3>1, <3>2, <3>3
  <2>3. CASE PublisherGets
    <3>1. /\ stage' \in {"idle", "release"} /\ flight' \in {"", "PUBREL"}
          /\ stage' # "idle" \/ flight' # "" => flight # ""
      BY <2>3 DEF PublisherGets
    <3>4. sent' = sent /\ breaks' = breaks
      BY <2>3 DEF PublisherGets
    <3>2. sent' \in 0..MaxMsg
      BY <2>0, <3>4
    <3>3. breaks' \in 0..MaxBreaks
      BY <2>0, <3>4
    <3> QED BY <2>1, <3>1, <3>2, <3>3, <3>4
  <2>4. CASE PublisherBreaks
    <3>1. /\ stage # "idle" /\ stage' = stage /\ flight' \in {"PUBLISH", "PUBREL"}
      BY <2>4 DEF PublisherBreaks
    <3>4. sent' = sent /\ breaks < MaxBreaks /\ breaks' = breaks + 1
      BY <2>4 DEF PublisherBreaks
    <3>2. sent' \in 0..MaxMsg
      BY <2>0, <3>4
    <3>3. breaks' \in 0..MaxBreaks
      BY <2>0, <3>4
    <3> QED BY <2>1, <3>1, <3>2, <3>3, <3>4
  <2>5. CASE GetPubRel
    <3>1. /\ flight # "" /\ stage' = stage /\ flight' = "PUBCOMP"
      BY <2>5 DEF GetPubRel
    <3>4. sent' = sent /\ breaks' = breaks
      BY <2>5 DEF GetPubRel
    <3>2. sent' \in 0..MaxMsg
      BY <2>0, <3>4
    <3>3. breaks' \in 0..MaxBreaks
      BY <2>0, <3>4
    <3> QED BY <2>1, <3>1, <3>2, <3>3, <3>4
  <2> QED BY <2>2, <2>3, <2>4, <2>5
<1>3. TypeOK'
  BY <1>1, <1>2 DEF TypeOK
<1>4. Wires'
  <2>1. \A n \in Conn : Unread(n)' <=> Unread(n)
    BY <1>1 DEF Unread
  <2>2. (at = 0 \/ Unread(at) => down = <<>>)'
    BY <1>1 DEF Wires, Unread
  <2> QED BY <1>1, <1>2, <2>1, <2>2 DEF Wires, TypeOK
<1> QED BY <1>3, <1>4

LEMMA LeaveTyped ==
  ASSUME Typed, Leave
  PROVE  Typed'
<1> USE DEF Typed, broker, subscriber, publisher, wires, history
<1>1. /\ at # 0 /\ at' = 0 /\ down' = <<>> /\ ended' = ended \cup {at}
      /\ unheard' = unheard \cup Releases(down)
      /\ UNCHANGED <<up, rows, sessions, opened, holding, delivered, stage, sent, flight,
                     breaks, inbox, accepted, given, harm>>
  BY DEF Leave
<1>2. at \in 1..opened /\ ended \cup {at} \subseteq 1..opened /\ opened \in Nat
  BY <1>1, Numbers
<1>3. ended' \subseteq 1..opened' \ {at'} /\ at' \in {0, opened'} /\ opened' \in 0..MaxConn
  BY <1>1, <1>2, Numbers
<1>4. unheard' \subseteq Wire /\ down' \in Seq(ToSubscriber)
  <2>1. Releases(down) \subseteq Wire
    BY ReleasesAreIds DEF TypeOK
  <2> QED BY <1>1, <2>1, EmptySeq DEF TypeOK
<1>5. TypeOK'
  BY <1>1, <1>3, <1>4 DEF TypeOK
<1>6. Wires'
  <2>1. \A n : Unread(n)' <=> Unread(n)
    BY <1>1 DEF Unread
  <2> QED BY <1>1, <2>1 DEF Wires
<1> QED BY <1>5, <1>6

LEMMA ComeTyped ==
  ASSUME Typed, Come
  PROVE  Typed'
<1> USE DEF Typed, broker, subscriber, publisher, wires, history
<1> DEFINE first == <<[kind |-> "CONNECT"]>>
<1>0. PICK n : n = opened + 1
  OBVIOUS
<1>1. /\ at = 0 /\ n \in 1..MaxConn /\ opened \in 0..MaxConn /\ opened' = n /\ at' = n
      /\ MaxConn \in Nat
      /\ inbox' = [inbox EXCEPT ![n] = <<[kind |-> "CONNECT"]>>]
      /\ UNCHANGED <<up, rows, sessions, holding, delivered, stage, sent, flight, breaks,
                     ended, down, accepted, given, unheard, harm>>
  <2>1. /\ at = 0 /\ opened < MaxConn /\ n = opened + 1 /\ opened' = n /\ at' = opened'
        /\ inbox' = [inbox EXCEPT ![at'] = <<[kind |-> "CONNECT"]>>]
        /\ UNCHANGED <<up, rows, sessions, holding, delivered, stage, sent, flight, breaks,
                       ended, down, accepted, given, unheard, harm>>
    BY <1>0 DEF Come
  <2>2. MaxConn \in Nat /\ opened \in Nat
    BY Numbers
  <2>3. n \in 1..MaxConn /\ opened \in 0..MaxConn
    BY <2>1, <2>2
  <2> QED BY <2>1, <2>2, <2>3
<1>2. opened' \in 0..MaxConn /\ at' \in {0, opened'} /\ ended' \subseteq 1..opened' \ {at'}
  <2>1. ended \subseteq 1..opened
    BY Numbers
  <2> QED BY <1>0, <1>1, <2>1
<1>3. /\ inbox' \in [Conn -> Seq(FromSubscriber)]
      /\ n \in Conn
      /\ \A k \in Conn : inbox'[k] = IF k = n THEN first ELSE inbox[k]
  <2>1. first \in Seq(FromSubscriber)
    BY DEF FromSubscriber
  <2>2. inbox \in [Conn -> Seq(FromSubscriber)]
    BY DEF TypeOK
  <2>3. n \in Conn
    BY <1>1 DEF Conn
  <2>4. inbox' = [inbox EXCEPT ![n] = first]
    BY <1>1
  <2> HIDE DEF first
  <2> QED BY <2>1, <2>2, <2>3, <2>4
<1>4. TypeOK'
  BY <1>1, <1>2, <1>3 DEF TypeOK
<1>5. Wires'
  <2>1. \A k \in Conn \ {n} : Unread(k)' <=> Unread(k)
    BY <1>3 DEF Unread
  <2>2. Unread(n)'
    BY <1>3 DEF Unread, first
  <2>3. down' = <<>>
    BY <1>1 DEF Wires
  <2>4. \A k \in Conn : k > opened' => inbox'[k] = <<>>
    <3>1. \A k \in Conn : k \in Nat /\ opened \in Nat
      BY Numbers
    <3>2. \A k \in Conn : k > opened' => k > opened /\ k # n
      BY <1>0, <1>1, <3>1
    <3> QED BY <1>3, <3>2 DEF Wires
  <2>5. \A k \in sessions' : k <= opened' /\ ~Unread(k)'
    <3>1. \A k \in sessions : k \in Nat /\ k \in Conn /\ k <= opened /\ opened \in Nat
      BY Numbers DEF Wires
    <3>2. \A k \in sessions : k <= opened' /\ k # n /\ k \in Conn
      BY <1>0, <1>1, <3>1
    <3> QED BY <1>1, <2>1, <3>1, <3>2 DEF Wires
  <2>6. \A k \in Conn : (Unread(k) \/ OnlyPubRecs(inbox[k]))'
    <3>1. ASSUME NEW k \in Conn \ {n}
          PROVE  Unread(k)' \/ OnlyPubRecs(inbox'[k])
      <4>1. inbox'[k] = inbox[k] /\ (Unread(k)' <=> Unread(k))
        BY <1>3, <2>1
      <4>2. Unread(k) \/ OnlyPubRecs(inbox[k])
        BY DEF Wires
      <4> QED BY <4>1, <4>2
    <3> QED BY <2>2, <3>1
  <2> QED BY <1>1, <2>3, <2>4, <2>5, <2>6 DEF Wires
<1> QED BY <1>4, <1>5
LEMMA DownIs ==
  ASSUME TypeOK, NEW j \in DOMAIN down
  PROVE  /\ j \in 1..Len(down) /\ DOMAIN down = 1..Len(down) /\ Len(down) \in Nat
         /\ down[j] \in ToSubscriber /\ down[j].id \in Wire
         /\ down[j].kind = "PUBLISH" \/ down[j].kind = "PUBREL"
         /\ down[j].kind = "PUBLISH" => down[j].msg \in Msg
<1>1. j \in 1..Len(down) /\ DOMAIN down = 1..Len(down) /\ Len(down) \in Nat
  BY LenProperties DEF TypeOK
<1>2. PICK p : p = down[j]
  OBVIOUS
<1>3. p \in ToSubscriber
  BY <1>1, <1>2, ElementOfSeq DEF TypeOK
<1>4. /\ p.id \in Wire
      /\ p.kind = "PUBLISH" \/ p.kind = "PUBREL"
      /\ p.kind = "PUBLISH" => p.msg \in Msg
  BY <1>3 DEF ToSubscriber
<1> QED BY <1>1, <1>2, <1>3, <1>4

(* What is on the way has a reader, whose connection has been accepted.    *)
LEMMA ReaderIs ==
  ASSUME Typed, down # <<>>
  PROVE  /\ at \in Conn /\ at = opened /\ at \in 1..opened
         /\ ~Unread(at) /\ OnlyPubRecs(inbox[at]) /\ inbox[at] \in Seq(FromSubscriber)
         /\ 1 \in DOMAIN down /\ Head(down) = down[1]
<1> USE DEF Typed
<1>1. at # 0 /\ ~Unread(at)
  BY DEF Wires
<1>2. at \in Conn /\ at = opened /\ at \in 1..opened
  BY <1>1, Numbers
<1>3. OnlyPubRecs(inbox[at])
  BY <1>1, <1>2 DEF Wires
<1>4. 1 \in DOMAIN down /\ Head(down) = down[1]
  <2>1. Len(down) \in Nat \ {0} /\ DOMAIN down = 1..Len(down)
    BY EmptySeq, LenProperties DEF TypeOK
  <2>2. Head(down) = down[1]
    OBVIOUS
  <2> QED BY <2>1, <2>2
<1> QED BY <1>1, <1>2, <1>3, <1>4 DEF TypeOK

LEMMA SubscriberGetsTyped ==
  ASSUME Typed, SubscriberGets
  PROVE  Typed'
<1> USE DEF Typed, broker, subscriber, publisher, wires, history
<1>1. /\ down # <<>> /\ down' = Tail(down)
      /\ UNCHANGED <<up, rows, sessions, at, opened, stage, sent, flight, breaks,
                     ended, accepted, given, unheard, harm>>
  BY DEF SubscriberGets
<1>2. PICK p, n : p = Head(down) /\ n = at
  OBVIOUS
<1>3. /\ p \in ToSubscriber /\ p.id \in Wire
      /\ p.kind = "PUBLISH" => p.msg \in Msg
      /\ p.kind = "PUBLISH" \/ p.kind = "PUBREL"
  BY <1>1, <1>2, ReaderIs, DownIs
<1>4. /\ n \in Conn /\ ~Unread(n) /\ OnlyPubRecs(inbox[n]) /\ inbox[n] \in Seq(FromSubscriber)
      /\ n # 0 /\ n \in 1..opened /\ n = at
  BY <1>1, <1>2, ReaderIs
<1>5. down' \in Seq(ToSubscriber)
  BY <1>1, HeadTailProperties DEF TypeOK
<1>6. /\ inbox' \in [Conn -> Seq(FromSubscriber)]
      /\ \A k \in Conn : k # n => inbox'[k] = inbox[k]
      /\ OnlyPubRecs(inbox'[n])
  <2>1. inbox \in [Conn -> Seq(FromSubscriber)]
    BY DEF TypeOK
  <2>2. CASE p.kind = "PUBLISH"
    <3>1. PICK q : q = Append(inbox[n], PubRec(p.id))
      OBVIOUS
    <3>2. inbox' = [inbox EXCEPT ![n] = q]
      BY <1>2, <2>2, <3>1 DEF SubscriberGets, PubRec
    <3>3. q \in Seq(FromSubscriber) /\ OnlyPubRecs(q)
      BY <1>3, <1>4, <3>1, PubRecsGrow
    <3> QED BY <1>4, <2>1, <3>2, <3>3
  <2>3. CASE p.kind = "PUBREL"
    <3>1. inbox' = inbox
      BY <1>2, <2>3 DEF SubscriberGets
    <3> QED BY <1>4, <2>1, <3>1
  <2> QED BY <1>3, <2>2, <2>3
<1>7. holding' \subseteq Wire /\ delivered' \in [Msg -> Nat]
  <2>1. holding \subseteq Wire /\ delivered \in [Msg -> Nat]
    BY DEF TypeOK
  <2>2. CASE p.kind = "PUBLISH"
    <3>1. PICK i, m : i = p.id /\ m = p.msg
      OBVIOUS
    <3>2. /\ holding' = holding \cup {i}
          /\ delivered' = IF i \in holding THEN delivered
                          ELSE [delivered EXCEPT ![m] = @ + 1]
      BY <1>2, <2>2, <3>1 DEF SubscriberGets
    <3>3. i \in Wire /\ m \in Msg
      BY <1>3, <2>2, <3>1
    <3> QED BY <2>1, <3>2, <3>3
  <2>3. CASE p.kind = "PUBREL"
    <3>1. holding' = holding \ {p.id} /\ delivered' = delivered
      BY <1>2, <2>3 DEF SubscriberGets
    <3> QED BY <2>1, <3>1
  <2> QED BY <1>3, <2>2, <2>3
<1>8. TypeOK'
  BY <1>1, <1>5, <1>6, <1>7 DEF TypeOK
<1>9. \A k \in Conn : k # n => (Unread(k)' <=> Unread(k))
  BY <1>6 DEF Unread
<1>10. ~Unread(n)'
  BY <1>6, NotBoth DEF Unread
<1>11. Wires'
  <2>1. (at = 0 \/ Unread(at) => down = <<>>)'
    <3>1. Unread(at)' <=> Unread(n)'
      BY <1>1, <1>4 DEF Unread
    <3> QED BY <1>1, <1>4, <1>10, <3>1
  <2>2. \A k \in Conn : k > opened' => inbox'[k] = <<>>
    <3>1. ~(n > opened)
      BY <1>4, Numbers
    <3> QED BY <1>1, <1>6, <3>1 DEF Wires
  <2>3. ASSUME NEW k \in Conn
        PROVE  Unread(k)' \/ OnlyPubRecs(inbox'[k])
    <3>1. CASE k = n
      BY <1>6, <3>1
    <3>2. CASE k # n
      BY <1>6, <1>9, <3>2 DEF Wires
    <3> QED BY <3>1, <3>2
  <2>4. \A k \in sessions' : k <= opened' /\ ~Unread(k)'
    BY <1>1, <1>9, <1>10 DEF Wires, TypeOK
  <2> QED BY <1>1, <2>1, <2>2, <2>3, <2>4 DEF Wires
<1> QED BY <1>8, <1>11

LEMMA CloseTyped ==
  ASSUME Typed, NEW n \in Conn, Close(n)
  PROVE  Typed'
<1> USE DEF Typed, broker, subscriber, publisher, wires, history
<1>1. /\ sessions' = sessions \ {n} /\ ended' = ended \ {n}
      /\ UNCHANGED <<up, rows, at, opened, holding, delivered, stage, sent, flight, breaks,
                     inbox, down, accepted, given, unheard, harm>>
  BY DEF Close
<1>2. TypeOK'
  BY <1>1 DEF TypeOK
<1>3. \A k : Unread(k)' <=> Unread(k)
  BY <1>1 DEF Unread
<1>4. Wires'
  BY <1>1, <1>3 DEF Wires, Unread
<1> QED BY <1>2, <1>4
LEMMA NewestIs ==
  ASSUME TypeOK, sessions # {}
  PROVE  Max(sessions) \in sessions /\ \A n \in sessions : n <= Max(sessions)
<1>1. MaxConn \in Nat /\ sessions \subseteq 1..MaxConn
  BY Numbers DEF Conn
<1> QED BY <1>1, GreatestNumber

LEMMA GetPublishTyped ==
  ASSUME Typed, GetPublish
  PROVE  Typed'
<1> USE DEF Typed, subscriber
<1>1. /\ flight = "PUBLISH" /\ flight' = "PUBREC"
      /\ UNCHANGED <<up, sessions, at, opened, holding, delivered, stage, sent, breaks,
                     inbox, ended>>
  BY DEF GetPublish
<1>2. PICK i, m, n, w : i = NextRow /\ m = sent /\ n = Max(sessions) /\ w = MLEncode(i)
  OBVIOUS
<1>3. i \in Id /\ m \in Msg /\ w \in Wire
  <2>1. m # 0
    BY <1>1, <1>2 DEF Wires
  <2> QED BY <1>2, <2>1, NextRowIs, Numbers, LowIs
<1>4. rows' \in [Id -> Rows]
  <2>1. [msg |-> m, payload |-> "live"] \in Rows
    BY <1>3 DEF Rows
  <2>2. rows' = rows \/ rows' = [rows EXCEPT ![i] = [msg |-> m, payload |-> "live"]]
    BY <1>2 DEF GetPublish
  <2> QED BY <1>3, <2>1, <2>2 DEF TypeOK
<1>5. harm' \subseteq {"full", "late", "astray"}
  <2>1. harm' = harm \/ harm' = harm \cup {"full"}
    BY DEF GetPublish
  <2> QED BY <2>1 DEF TypeOK
<1>6. given' \subseteq Msg \X Wire /\ accepted' \in [Msg -> Nat]
  <2>1. given' = given \cup {<<m, w>>}
    BY <1>2 DEF GetPublish
  <2>2. accepted' = [accepted EXCEPT ![m] = @ + 1]
    BY <1>2 DEF GetPublish
  <2>3. given \subseteq Msg \X Wire
    BY DEF TypeOK
  <2>4. accepted \in [Msg -> Nat]
    BY DEF TypeOK
  <2>5. given' \subseteq Msg \X Wire
    <3>1. <<m, w>> \in Msg \X Wire
      BY <1>3
    <3> QED BY <2>1, <2>3, <3>1
  <2>6. accepted' \in [Msg -> Nat]
    BY <1>3, <2>2, <2>4
  <2> QED BY <2>5, <2>6
<1>7. /\ down' \in Seq(ToSubscriber) /\ unheard' \subseteq Wire
      /\ down' # down => n \in sessions /\ n = at
  <2>1. CASE sessions = {}
    <3>1. down' = down /\ unheard' = unheard
      BY <2>1 DEF GetPublish
    <3> QED BY <3>1 DEF TypeOK
  <2>2. CASE sessions # {}
    <3>1. PICK packets : packets = <<ToPublish(i, m)>>
      OBVIOUS
    <3>2. packets \in Seq(ToSubscriber)
      BY <1>2, <1>3, <3>1 DEF ToPublish, ToSubscriber
    <3>3. WriteTo(n, packets)
      BY <1>2, <2>2, <3>1 DEF GetPublish
    <3>4. down' # down => n = at
      BY <3>3 DEF WriteTo
    <3>5. n \in sessions
      BY <1>2, <2>2, NewestIs
    <3> QED BY <3>2, <3>3, <3>4, <3>5, WriteTypes
  <2> QED BY <2>1, <2>2
<1>8. TypeOK'
  BY <1>1, <1>4, <1>5, <1>6, <1>7 DEF TypeOK
<1>9. Wires'
  <2>1. \A k : Unread(k)' <=> Unread(k)
    BY <1>1 DEF Unread
  <2>2. (at = 0 \/ Unread(at) => down = <<>>)'
    <3>1. CASE down' = down
      BY <1>1, <3>1 DEF Wires, Unread
    <3>2. CASE down' # down
      <4>1. at # 0 /\ ~Unread(at)
        <5>1. at \in sessions
          BY <1>7, <3>2
        <5>2. at \in Conn
          BY <5>1, Numbers
        <5>3. at # 0
          <6>1. ~(0 >= 1)
            OBVIOUS
          <6> QED BY <5>2, <6>1, Numbers
        <5>4. ~Unread(at)
          BY <5>1 DEF Wires
        <5> QED BY <5>3, <5>4
      <4> QED BY <1>1, <4>1 DEF Unread
    <3> QED BY <3>1, <3>2
  <2>3. sent' # 0
    BY <1>1 DEF Wires
  <2> QED BY <1>1, <2>1, <2>2, <2>3 DEF Wires
<1> QED BY <1>8, <1>9

(* Reading from a connection: what is common to CONNECT and PUBREC.        *)
LEMMA GetInbox ==
  ASSUME Typed, NEW n \in Conn, Get(n)
  PROVE  /\ inbox[n] # <<>> /\ n \in 1..opened
         /\ inbox' = [inbox EXCEPT ![n] = Tail(@)]
         /\ inbox' \in [Conn -> Seq(FromSubscriber)]
         /\ inbox'[n] = Tail(inbox[n])
         /\ ~Unread(n)' /\ OnlyPubRecs(inbox'[n])
         /\ \A k \in Conn : k # n => inbox'[k] = inbox[k] /\ (Unread(k)' <=> Unread(k))
         /\ UNCHANGED <<at, opened, holding, delivered, stage, sent, flight, breaks, ended,
                        accepted, given>>
<1> USE DEF Typed, subscriber, publisher
<1>1. /\ inbox[n] # <<>>
      /\ inbox' = [inbox EXCEPT ![n] = Tail(@)]
      /\ GetConnect(n) \/ GetPubRec(n)
      /\ UNCHANGED <<at, opened, holding, delivered, stage, sent, flight, breaks, ended, accepted>>
  BY DEF Get
<1>2. given' = given
  BY <1>1 DEF GetConnect, GetPubRec
<1>3. /\ n \in 1..opened /\ Tail(inbox[n]) \in Seq(FromSubscriber)
      /\ OnlyPubRecs(Tail(inbox[n]))
  <2>1. Head(inbox[n]).kind = "CONNECT" \/ Head(inbox[n]).kind = "PUBREC"
    BY <1>1 DEF GetConnect, GetPubRec
  <2>2. OnlyPubRecs(<<>>)
    BY DEF OnlyPubRecs
  <2> QED BY <1>1, <2>1, <2>2, InboxIs
<1>4. PICK q : q = Tail(inbox[n])
  OBVIOUS
<1>5. inbox' = [inbox EXCEPT ![n] = q] /\ q \in Seq(FromSubscriber) /\ OnlyPubRecs(q)
  BY <1>1, <1>3, <1>4
<1>6. /\ inbox' \in [Conn -> Seq(FromSubscriber)] /\ inbox'[n] = q
      /\ \A k \in Conn : k # n => inbox'[k] = inbox[k]
  BY <1>5 DEF TypeOK
<1>7. ~Unread(n)'
  BY <1>5, <1>6, NotBoth DEF Unread
<1>8. \A k \in Conn : k # n => (Unread(k)' <=> Unread(k))
  BY <1>6 DEF Unread
<1> QED BY <1>1, <1>2, <1>3, <1>4, <1>5, <1>6, <1>7, <1>8

LEMMA GetTyped ==
  ASSUME Typed, NEW n \in Conn, Get(n)
  PROVE  Typed'
<1> USE DEF Typed
<1>1. /\ inbox[n] # <<>> /\ n \in 1..opened
      /\ inbox' \in [Conn -> Seq(FromSubscriber)]
      /\ ~Unread(n)' /\ OnlyPubRecs(inbox'[n])
      /\ \A k \in Conn : k # n => inbox'[k] = inbox[k] /\ (Unread(k)' <=> Unread(k))
      /\ UNCHANGED <<at, opened, holding, delivered, stage, sent, flight, breaks, ended,
                     accepted, given>>
  BY GetInbox
<1>2. /\ up' \in BOOLEAN /\ rows' \in [Id -> Rows] /\ harm' \subseteq {"full", "late", "astray"}
      /\ sessions' \subseteq sessions \cup {n}
      /\ down' \in Seq(ToSubscriber) /\ unheard' \subseteq Wire
      /\ down' # down => n = at
  <2>1. CASE GetConnect(n)
    <3>1. WriteTo(n, ResentPackets) /\ sessions' = sessions \cup {n} /\ UNCHANGED <<up, rows, harm>>
      BY <2>1 DEF GetConnect, ResentPackets
    <3>2. down' \in Seq(ToSubscriber) /\ unheard' \subseteq Wire
      BY <3>1, ResentIs, WriteTypes
    <3>3. down' # down => n = at
      BY <3>1 DEF WriteTo
    <3> QED BY <3>1, <3>2, <3>3 DEF TypeOK
  <2>2. CASE GetPubRec(n)
    <3>1. PICK w, i : w = Head(inbox[n]).id /\ i = StringLen(w)
      OBVIOUS
    <3>2. w \in Wire /\ i \in Id
      <4>1. Head(inbox[n]) \in FromSubscriber /\ Head(inbox[n]).kind = "PUBREC"
        BY <1>1, <2>2, InboxIs DEF GetPubRec
      <4>2. w \in Wire
        BY <3>1, <4>1 DEF FromSubscriber
      <4> QED BY <3>1, <4>2, LowIs
    <3>3. PICK packets : packets = <<[kind |-> "PUBREL", id |-> w]>>
      OBVIOUS
    <3>4. packets \in Seq(ToSubscriber)
      BY <3>2, <3>3 DEF ToSubscriber
    <3>5. /\ SessionPublishDelete(i) /\ WriteTo(n, packets) /\ sessions' = sessions
          /\ harm' = harm \cup Harm(n, w)
      BY <2>2, <3>1, <3>3 DEF GetPubRec
    <3>6. up' \in BOOLEAN /\ rows' \in [Id -> Rows]
      <4>1. FreedRow \in Rows
        BY DEF Rows
      <4>2. (up' = up \/ up' = FALSE) /\ (rows' = rows \/ rows' = [rows EXCEPT ![i] = FreedRow])
        BY <3>5 DEF SessionPublishDelete
      <4> QED BY <3>2, <4>1, <4>2 DEF TypeOK
    <3>7. down' \in Seq(ToSubscriber) /\ unheard' \subseteq Wire
      BY <3>4, <3>5, WriteTypes
    <3>8. down' # down => n = at
      BY <3>5 DEF WriteTo
    <3>9. harm' \subseteq {"full", "late", "astray"}
      BY <3>5 DEF Harm, TypeOK
    <3> QED BY <3>5, <3>6, <3>7, <3>8, <3>9
  <2> QED BY <2>1, <2>2 DEF Get
<1>3. TypeOK'
  BY <1>1, <1>2 DEF TypeOK
<1>4. n <= opened /\ n # 0 /\ ~(n > opened)
  BY <1>1, Numbers
<1>5. Wires'
  <2>1. (at = 0 \/ Unread(at) => down = <<>>)'
    <3>1. CASE n = at
      <4>1. at' # 0 /\ ~Unread(at)'
        BY <1>1, <1>4, <3>1 DEF Unread
      <4> QED BY <4>1
    <3>2. CASE n # at
      <4>1. at = 0 \/ at \in Conn
        BY Numbers
      <4>2. at' = at /\ down' = down /\ (at \in Conn => (Unread(at)' <=> Unread(at)))
        BY <1>1, <1>2, <3>2 DEF Unread
      <4> QED BY <4>1, <4>2 DEF Wires
    <3> QED BY <3>1, <3>2
  <2>2. \A k \in Conn : k > opened' => inbox'[k] = <<>>
    BY <1>1, <1>4 DEF Wires
  <2>3. \A k \in Conn : Unread(k)' \/ OnlyPubRecs(inbox'[k])
    BY <1>1 DEF Wires
  <2>4. \A k \in sessions' : k <= opened' /\ ~Unread(k)'
    BY <1>1, <1>2, <1>4 DEF Wires, TypeOK
  <2>5. (stage # "idle" \/ flight # "" => sent # 0)'
    BY <1>1 DEF Wires
  <2> QED BY <2>1, <2>2, <2>3, <2>4, <2>5 DEF Wires
<1> QED BY <1>3, <1>5

LEMMA NextTyped ==
  ASSUME Typed, [Next]_vars
  PROVE  Typed'
<1>1. CASE Broker
  BY <1>1, GetPublishTyped, PublisherTyped, GetTyped, CloseTyped DEF Broker
<1>2. CASE Subscriber
  BY <1>2, ComeTyped, SubscriberGetsTyped DEF Subscriber
<1>3. CASE Publisher
  BY <1>3, PublisherTyped DEF Publisher
<1>4. CASE Breaks
  BY <1>4, PublisherTyped, LeaveTyped DEF Breaks
<1>5. CASE UNCHANGED vars
  BY <1>5 DEF vars, broker, subscriber, publisher, wires, history, Typed, TypeOK, Wires, Unread
<1> QED BY <1>1, <1>2, <1>3, <1>4, <1>5 DEF Next

(* Every variable keeps its type, for any number of rows, messages,        *)
(* connections and breaks: in particular every identifier written is that  *)
(* of a row (session.c 432), and every PUBREC, whatever row it was for, is *)
(* read as one (event.c 222).                                              *)
THEOREM HandshakeTypes == Spec => []TypeOK
<1>1. Init => Typed
  BY InitTyped
<1>2. Typed /\ [Next]_vars => Typed'
  BY NextTyped
<1>3. Typed => TypeOK
  BY DEF Typed
<1> QED BY <1>1, <1>2, <1>3, PTL DEF Spec
----------------------------------------------------------------------------
(* Packets behind and ahead of one another.                                *)

LEMMA Behind ==
  ASSUME NEW d \in Seq(ToSubscriber), NEW p \in ToSubscriber
  PROVE  /\ d \o <<p>> \in Seq(ToSubscriber) /\ Len(d) \in Nat
         /\ DOMAIN d = 1..Len(d) /\ DOMAIN (d \o <<p>>) = 1..(Len(d) + 1)
         /\ \A j \in DOMAIN d : j \in DOMAIN (d \o <<p>>) /\ (d \o <<p>>)[j] = d[j]
         /\ (d \o <<p>>)[Len(d) + 1] = p
         /\ \A j \in DOMAIN (d \o <<p>>) : j \in DOMAIN d \/ j = Len(d) + 1
<1>1. PICK one : one = <<p>>
  OBVIOUS
<1>2. one \in Seq(ToSubscriber) /\ Len(one) = 1 /\ one[1] = p
  BY <1>1
<1>3. /\ d \o one \in Seq(ToSubscriber) /\ Len(d \o one) = Len(d) + 1
      /\ \A j \in 1..(Len(d) + 1) :
           (d \o one)[j] = IF j <= Len(d) THEN d[j] ELSE one[j - Len(d)]
  BY <1>2, ConcatProperties
<1>4. DOMAIN d = 1..Len(d) /\ DOMAIN (d \o one) = 1..(Len(d) + 1) /\ Len(d) \in Nat
  BY <1>3, LenProperties
<1>5. \A j \in DOMAIN d : j \in DOMAIN (d \o one) /\ (d \o one)[j] = d[j]
  BY <1>3, <1>4
<1>6. (d \o one)[Len(d) + 1] = p
  <2>1. Len(d) + 1 \in 1..(Len(d) + 1) /\ ~(Len(d) + 1 <= Len(d)) /\ Len(d) + 1 - Len(d) = 1
    BY <1>4
  <2> QED BY <1>2, <1>3, <2>1
<1>7. \A j \in DOMAIN (d \o one) : j \in DOMAIN d \/ j = Len(d) + 1
  BY <1>4
<1> QED BY <1>1, <1>3, <1>4, <1>5, <1>6, <1>7

LEMMA Ahead ==
  ASSUME NEW d \in Seq(ToSubscriber), d # <<>>
  PROVE  /\ Tail(d) \in Seq(ToSubscriber) /\ Len(d) \in Nat \ {0}
         /\ Len(Tail(d)) = Len(d) - 1
         /\ DOMAIN d = 1..Len(d) /\ DOMAIN Tail(d) = 1..(Len(d) - 1)
         /\ \A j \in DOMAIN Tail(d) : j + 1 \in DOMAIN d /\ Tail(d)[j] = d[j + 1] /\ j + 1 # 1
         /\ \A j \in DOMAIN d : j # 1 => j - 1 \in DOMAIN Tail(d) /\ Tail(d)[j - 1] = d[j]
<1>1. /\ Tail(d) \in Seq(ToSubscriber) /\ Len(Tail(d)) = Len(d) - 1
      /\ \A j \in 1..Len(Tail(d)) : Tail(d)[j] = d[j + 1]
  BY HeadTailProperties
<1>2. Len(d) \in Nat \ {0} /\ DOMAIN d = 1..Len(d)
  BY EmptySeq, LenProperties
<1>3. DOMAIN Tail(d) = 1..(Len(d) - 1)
  BY <1>1, LenProperties
<1>4. \A j \in DOMAIN Tail(d) : j + 1 \in DOMAIN d /\ Tail(d)[j] = d[j + 1] /\ j + 1 # 1
  BY <1>1, <1>2, <1>3
<1>5. ASSUME NEW j \in DOMAIN d, j # 1
      PROVE  j - 1 \in DOMAIN Tail(d) /\ Tail(d)[j - 1] = d[j]
  <2>1. j - 1 \in 1..(Len(d) - 1) /\ j - 1 + 1 = j
    BY <1>2, <1>5
  <2> QED BY <1>1, <1>3, <2>1
<1> QED BY <1>1, <1>2, <1>3, <1>4, <1>5

LEMMA RowIs ==
  ASSUME TypeOK, NEW i \in Id
  PROVE  /\ rows[i].msg # NoMsg => rows[i].msg \in Msg /\ rows[i].payload = "live"
         /\ NoMsg \notin Msg
<1>1. PICK r : r = rows[i]
  OBVIOUS
<1>2. r \in Rows
  BY <1>1 DEF TypeOK
<1>3. r.msg # NoMsg => r.msg \in Msg /\ r.payload = "live"
  BY <1>2 DEF Rows, FreshRow, FreedRow
<1>4. \A m \in Msg : m # 0
  BY ExactlyOnceAssumption DEF Msg
<1> QED BY <1>1, <1>3, <1>4 DEF NoMsg

LEMMA HeldRowIs ==
  ASSUME TypeOK, NEW w \in Low
  PROVE  /\ Held[w].msg # NoMsg => Held[w].msg \in Msg /\ Held[w].payload = "live"
         /\ NoMsg \notin Msg
<1>1. PICK i : i = StringLen(w)
  OBVIOUS
<1>2. i \in Id /\ Held[w] = rows[i]
  BY <1>1, HeldIs
<1> QED BY <1>2, RowIs
----------------------------------------------------------------------------
(* Rows from Base on.                                                      *)

(* A row from Base on that is taken is never given back: no identifier is  *)
(* read as one of them, and a PUBLISH takes a free row or none             *)
(* (event.c 222, session.c 432).                                           *)
THEOREM RowsFromBaseStay == Spec => HighRowsStay
<1> DEFINE Stay == \A i \in Id : i >= Base /\ rows[i].msg # NoMsg => rows'[i] = rows[i]
<1>1. ASSUME Typed, GetPublish
      PROVE  Stay
  <2>1. PICK k, r : k = NextRow /\ r = [msg |-> sent, payload |-> "live"]
    OBVIOUS
  <2>2. CASE Free = {}
    BY <1>1, <2>2 DEF GetPublish
  <2>3. CASE Free # {}
    <3>1. rows' = [rows EXCEPT ![k] = r]
      BY <1>1, <2>1, <2>3 DEF GetPublish
    <3>2. k \in Id /\ rows[k].msg = NoMsg
      BY <1>1, <2>1, <2>3, NextRowIs DEF Typed, Free
    <3>3. rows \in [Id -> Rows]
      BY <1>1 DEF Typed, TypeOK
    <3> QED BY <3>1, <3>2, <3>3
  <2> QED BY <2>2, <2>3
<1>2. ASSUME Typed, NEW n \in Conn, Get(n), GetPubRec(n)
      PROVE  Stay
  <2>1. PICK w, i : w = Head(inbox[n]).id /\ i = StringLen(w)
    OBVIOUS
  <2>2. i \in Id /\ i < Base
    <3>1. Head(inbox[n]) \in FromSubscriber /\ Head(inbox[n]).kind = "PUBREC"
      BY <1>2, InboxIs DEF Typed, Get, GetPubRec
    <3>2. w \in Wire
      BY <2>1, <3>1 DEF FromSubscriber
    <3> QED BY <2>1, <3>2, LowIs
  <2>3. rows' = rows \/ rows' = [rows EXCEPT ![i] = FreedRow]
    BY <1>2, <2>1 DEF GetPubRec, SessionPublishDelete
  <2>4. ASSUME NEW k \in Id, k >= Base
        PROVE  rows'[k] = rows[k]
    <3>1. k # i
      BY <2>2, <2>4, BaseAssumption DEF Id
    <3>2. rows \in [Id -> Rows]
      BY <1>2 DEF Typed, TypeOK
    <3> QED BY <2>2, <2>3, <3>1, <3>2
  <2> QED BY <2>4
<1>3. ASSUME UNCHANGED rows
      PROVE  Stay
  BY <1>3
<1> HIDE DEF Stay
<1>4. ASSUME Typed, [Next]_vars
      PROVE  Stay
  <2> USE DEF broker, subscriber, publisher, wires, history
  <2>1. CASE Broker
    <3>1. CASE GetPublish
      BY <1>1, <1>4, <3>1
    <3>2. CASE GetPubRel
      BY <1>3, <3>2 DEF GetPubRel
    <3>3. ASSUME NEW n \in Conn, Get(n) \/ Close(n)
          PROVE  Stay
      <4>1. CASE Get(n) /\ GetConnect(n)
        BY <1>3, <4>1 DEF GetConnect
      <4>2. CASE Get(n) /\ GetPubRec(n)
        BY <1>2, <1>4, <4>2
      <4>3. CASE Close(n)
        BY <1>3, <4>3 DEF Close
      <4> QED BY <3>3, <4>1, <4>2, <4>3 DEF Get
    <3> QED BY <2>1, <3>1, <3>2, <3>3 DEF Broker
  <2>2. CASE Subscriber
    BY <1>3, <2>2 DEF Subscriber, Come, SubscriberGets
  <2>3. CASE Publisher
    BY <1>3, <2>3 DEF Publisher, PublishNext, PublisherGets
  <2>4. CASE Breaks
    BY <1>3, <2>4 DEF Breaks, PublisherBreaks, Leave
  <2>5. CASE UNCHANGED vars
    BY <1>3, <2>5 DEF vars
  <2> QED BY <1>4, <2>1, <2>2, <2>3, <2>4, <2>5 DEF Next
<1>5. Typed /\ [Next]_vars => [Stay]_vars
  BY <1>4
<1>6. Init => Typed
  BY InitTyped
<1>7. Typed /\ [Next]_vars => Typed'
  BY NextTyped
<1>8. Spec => [][Stay]_vars
  BY <1>5, <1>6, <1>7, PTL DEF Spec
<1> QED BY <1>8 DEF Stay, HighRowsStay
----------------------------------------------------------------------------
(* Where a message is found, the identifier there was given to it.         *)

LEMMA TracedStays ==
  ASSUME Traced, UNCHANGED rows, given \subseteq given',
         \A j \in DOMAIN down' : down'[j].kind = "PUBLISH" =>
           <<down'[j].msg, down'[j].id>> \in given'
  PROVE  Traced'
BY DEF Traced, Entered, OnItsWay

LEMMA NextTraced ==
  ASSUME Typed, Traced, [Next]_vars
  PROVE  Traced'
<1> USE DEF broker, subscriber, publisher, wires, history
<1>0. ASSUME UNCHANGED <<rows, down, given>>
      PROVE  Traced'
  BY <1>0 DEF Traced, Entered, OnItsWay
<1>1. ASSUME UNCHANGED <<rows, given>>, down' = <<>>
      PROVE  Traced'
  <2>1. DOMAIN <<>> = {}
    OBVIOUS
  <2> QED BY <1>1, <2>1, TracedStays
<1>2. ASSUME GetPublish
      PROVE  Traced'
  <2>1. PICK i, m, w, p : i = NextRow /\ m = sent /\ w = MLEncode(i) /\ p = ToPublish(i, m)
    OBVIOUS
  <2>2. i \in Id /\ m \in Msg /\ w \in Wire
    <3>1. m # 0
      BY <1>2, <2>1 DEF Typed, Wires, GetPublish
    <3> QED BY <2>1, <3>1, NextRowIs, Numbers, LowIs DEF Typed
  <2>3. p \in ToSubscriber /\ p.id = w /\ p.msg = m
    BY <2>1, <2>2 DEF ToPublish, ToSubscriber
  <2>4. given' = given \cup {<<m, w>>}
    BY <1>2, <2>1 DEF GetPublish
  <2>5. Entered'
    <3>1. PICK r : r = [msg |-> m, payload |-> "live"]
      OBVIOUS
    <3>2. r.msg = m /\ (rows' = rows \/ rows' = [rows EXCEPT ![i] = r])
      BY <1>2, <2>1, <3>1 DEF GetPublish
    <3>3. rows \in [Id -> Rows]
      BY DEF Typed, TypeOK
    <3>4. ASSUME NEW k \in Id, rows'[k].msg # NoMsg
          PROVE  <<rows'[k].msg, MLEncode(k)>> \in given'
      <4>1. rows'[k] = rows[k] \/ (k = i /\ rows'[k].msg = m)
        BY <2>2, <3>2, <3>3
      <4> QED BY <2>1, <2>4, <3>4, <4>1 DEF Traced, Entered
    <3> QED BY <3>4 DEF Entered
  <2>6. down' = down \/ down' = down \o <<p>>
    <3>1. CASE sessions = {}
      BY <1>2, <3>1 DEF GetPublish
    <3>2. CASE sessions # {}
      <4>1. WriteTo(Max(sessions), <<p>>)
        BY <1>2, <2>1, <3>2 DEF GetPublish
      <4> QED BY <4>1 DEF WriteTo
    <3> QED BY <3>1, <3>2
  <2>7. OnItsWay'
    <3>1. CASE down' = down
      BY <2>4, <3>1 DEF Traced, OnItsWay
    <3>2. CASE down' = down \o <<p>>
      <4>1. PICK d : d = down \o <<p>>
        OBVIOUS
      <4>2. down \in Seq(ToSubscriber)
        BY DEF Typed, TypeOK
      <4>3. /\ \A j \in DOMAIN down : d[j] = down[j]
            /\ \A j \in DOMAIN d : j \in DOMAIN down \/ j = Len(down) + 1
            /\ d[Len(down) + 1] = p
        BY <2>3, <4>1, <4>2, Behind
      <4>4. ASSUME NEW j \in DOMAIN d, d[j].kind = "PUBLISH"
            PROVE  <<d[j].msg, d[j].id>> \in given'
        <5>1. CASE j \in DOMAIN down
          BY <2>4, <4>3, <4>4, <5>1 DEF Traced, OnItsWay
        <5>2. CASE j = Len(down) + 1
          BY <2>3, <2>4, <4>3, <5>2
        <5> QED BY <4>3, <5>1, <5>2
      <4> QED BY <3>2, <4>1, <4>4 DEF OnItsWay
    <3> QED BY <2>6, <3>1, <3>2
  <2> QED BY <2>5, <2>7 DEF Traced
<1>3. ASSUME NEW n \in Conn, Get(n), GetConnect(n)
      PROVE  Traced'
  <2>1. WriteTo(n, ResentPackets) /\ UNCHANGED <<rows, given>>
    BY <1>3 DEF GetConnect, ResentPackets
  <2>2. down' = down \/ down' = ResentPackets
    <3>1. n = at => down = <<>>
      <4>1. Unread(n)
        BY <1>3, InboxIs DEF Get, GetConnect, Typed
      <4> QED BY <4>1 DEF Typed, Wires
    <3>2. <<>> \o ResentPackets = ResentPackets
      BY ResentIs, ConcatEmptySeq DEF Typed
    <3> QED BY <2>1, <3>1, <3>2 DEF WriteTo
  <2>3. CASE down' = ResentPackets
    <3>1. ASSUME NEW j \in DOMAIN ResentPackets
          PROVE  <<ResentPackets[j].msg, ResentPackets[j].id>> \in given
      <4>1. PICK i \in Id : ResentPackets[j].id = MLEncode(i) /\ ResentPackets[j].msg = rows[i].msg
        BY ResentIs DEF Typed
      <4>2. rows[i].msg # NoMsg
        BY <4>1, ResentIs, RowIs DEF Typed
      <4> QED BY <4>1, <4>2 DEF Traced, Entered
    <3> QED BY <2>1, <2>3, <3>1, TracedStays
  <2> QED BY <1>0, <2>1, <2>2, <2>3
<1>4. ASSUME NEW n \in Conn, Get(n), GetPubRec(n)
      PROVE  Traced'
  <2>1. PICK w, i, p : w = Head(inbox[n]).id /\ i = StringLen(w) /\ p = [kind |-> "PUBREL", id |-> w]
    OBVIOUS
  <2>2. w \in Wire /\ i \in Id
    <3>1. Head(inbox[n]) \in FromSubscriber /\ Head(inbox[n]).kind = "PUBREC"
      BY <1>4, InboxIs DEF Typed, Get, GetPubRec
    <3>2. w \in Wire
      BY <2>1, <3>1 DEF FromSubscriber
    <3> QED BY <2>1, <3>2, LowIs
  <2>3. SessionPublishDelete(i) /\ WriteTo(n, <<p>>) /\ given' = given
    BY <1>4, <2>1 DEF GetPubRec
  <2>4. Entered'
    <3>1. rows' = rows \/ rows' = [rows EXCEPT ![i] = FreedRow]
      BY <2>3 DEF SessionPublishDelete
    <3>2. rows \in [Id -> Rows] /\ FreedRow.msg = NoMsg
      BY DEF Typed, TypeOK, FreedRow
    <3>3. \A k \in Id : rows'[k].msg # NoMsg => rows'[k] = rows[k]
      BY <2>2, <3>1, <3>2
    <3> QED BY <2>3, <3>3 DEF Traced, Entered
  <2>5. OnItsWay'
    <3>1. p \in ToSubscriber /\ p.kind = "PUBREL"
      BY <2>1, <2>2 DEF ToSubscriber
    <3>2. down \in Seq(ToSubscriber)
      BY DEF Typed, TypeOK
    <3>3. CASE down' = down
      BY <2>3, <3>3 DEF Traced, OnItsWay
    <3>4. CASE down' = down \o <<p>>
      <4>1. PICK d : d = down \o <<p>>
        OBVIOUS
      <4>2. /\ \A j \in DOMAIN down : d[j] = down[j]
            /\ \A j \in DOMAIN d : j \in DOMAIN down \/ j = Len(down) + 1
            /\ d[Len(down) + 1] = p
        BY <3>1, <3>2, <4>1, Behind
      <4>3. \A j \in DOMAIN d : d[j].kind = "PUBLISH" => j \in DOMAIN down
        BY <3>1, <4>2
      <4> QED BY <2>3, <3>4, <4>1, <4>2, <4>3 DEF Traced, OnItsWay
    <3> QED BY <2>3, <3>3, <3>4 DEF WriteTo
  <2> QED BY <2>4, <2>5 DEF Traced
<1>5. ASSUME SubscriberGets
      PROVE  Traced'
  <2>1. down # <<>> /\ down' = Tail(down) /\ UNCHANGED <<rows, given>>
    BY <1>5 DEF SubscriberGets
  <2>2. \A j \in DOMAIN Tail(down) : j + 1 \in DOMAIN down /\ Tail(down)[j] = down[j + 1]
    BY <2>1, Ahead DEF Typed, TypeOK
  <2>3. \A j \in DOMAIN down' : down'[j].kind = "PUBLISH" =>
          <<down'[j].msg, down'[j].id>> \in given'
    BY <2>1, <2>2 DEF Traced, OnItsWay
  <2> QED BY <2>1, <2>3, TracedStays
<1>6. CASE Broker
  <2>1. CASE GetPubRel
    BY <1>0, <2>1 DEF GetPubRel
  <2>2. ASSUME NEW n \in Conn, Get(n) \/ Close(n)
        PROVE  Traced'
    <3>1. CASE Close(n)
      BY <1>0, <3>1 DEF Close
    <3> QED BY <1>3, <1>4, <2>2, <3>1 DEF Get
  <2> QED BY <1>2, <1>6, <2>1, <2>2 DEF Broker
<1>7. CASE Subscriber
  <2>1. CASE Come
    BY <1>0, <2>1 DEF Come
  <2> QED BY <1>5, <1>7, <2>1 DEF Subscriber
<1>8. CASE Publisher
  BY <1>0, <1>8 DEF Publisher, PublishNext, PublisherGets
<1>9. CASE Breaks
  <2>1. CASE PublisherBreaks
    BY <1>0, <2>1 DEF PublisherBreaks
  <2>2. CASE Leave
    BY <1>1, <2>2 DEF Leave
  <2> QED BY <1>9, <2>1, <2>2 DEF Breaks
<1>10. CASE UNCHANGED vars
  BY <1>0, <1>10 DEF vars
<1> QED BY <1>6, <1>7, <1>8, <1>9, <1>10 DEF Next

LEMMA InitTraced == Init => Traced
<1> SUFFICES ASSUME Init PROVE Traced
  OBVIOUS
<1>1. Entered
  BY DEF Init, Entered, FreshRow
<1>2. OnItsWay
  <2>1. DOMAIN <<>> = {}
    OBVIOUS
  <2> QED BY <2>1 DEF Init, OnItsWay
<1> QED BY <1>1, <1>2 DEF Traced
----------------------------------------------------------------------------
(* The current connection.                                                 *)

LEMMA ReaderIsCurrent ==
  ASSUME Typed, down # <<>>
  PROVE  Current(at)
<1>1. at = opened /\ at \in 1..opened /\ ~Unread(at)
  BY ReaderIs
<1>2. opened \in Nat
  BY Numbers DEF Typed
<1>3. (at + 1)..opened = {}
  BY <1>1, <1>2
<1> QED BY <1>1, <1>3 DEF Current

LEMMA OneCurrent ==
  ASSUME TypeOK, NEW j, NEW k, Current(j), Current(k)
  PROVE  j = k
<1>1. opened \in Nat
  BY Numbers
<1>2. j \in 1..opened /\ k \in 1..opened
  BY DEF Current
<1>3. k \notin (j + 1)..opened /\ j \notin (k + 1)..opened
  BY DEF Current
<1> QED BY <1>1, <1>2, <1>3

(* A PUBREC that does not come late is read from the current connection.   *)
LEMMA NotLateIsCurrent ==
  ASSUME Typed, NEW n \in Conn, inbox[n] # <<>>, Head(inbox[n]).kind = "PUBREC",
         ~Superseded(n)
  PROVE  Current(n)
<1>1. n \in 1..opened /\ ~Unread(n)
  BY InboxIs DEF Typed
<1>2. ASSUME NEW k \in (n + 1)..opened
      PROVE  Unread(k)
  <2>1. inbox[k] # <<>> /\ Head(inbox[k]).kind = "CONNECT"
    BY DEF Superseded
  <2>2. k \in Conn
    <3>1. opened \in Nat /\ opened <= MaxConn /\ MaxConn \in Nat
      BY Numbers DEF Typed
    <3> QED BY <1>1, <3>1 DEF Conn
  <2> QED BY <2>1, <2>2, InboxIs DEF Typed
<1> QED BY <1>1, <1>2 DEF Current
----------------------------------------------------------------------------
(* As long as the table is not full and no PUBREC late or for a row from   *)
(* Base on, no step does harm.                                             *)

LEMMA InitHarmless == Init => Harmless
<1> SUFFICES ASSUME Init PROVE Harmless
  OBVIOUS
<1>1. \A n : ~Current(n)
  <2>1. opened = 0
    BY DEF Init
  <2>2. 1..0 = {}
    OBVIOUS
  <2> QED BY <2>1, <2>2 DEF Current
<1>2. down = <<>> /\ DOMAIN <<>> = {} /\ holding = {}
  <2>1. DOMAIN <<>> = {}
    OBVIOUS
  <2> QED BY <2>1 DEF Init
<1>4. NoneLost
  BY DEF Init, NoneLost
<1>5. Copies /\ Holds
  BY <1>2 DEF Copies, Holds
<1> QED BY <1>1, <1>4, <1>5 DEF Harmless, Acks, Init

LEMMA CurrentStays ==
  ASSUME UNCHANGED <<inbox, opened>>, NEW n
  PROVE  Current(n)' <=> Current(n)
BY DEF Current, Unread

LEMMA QuietHarmless ==
  ASSUME Harmless, UNCHANGED <<up, rows, at, opened, holding, delivered, inbox, down,
                               accepted, given, unheard>>
  PROVE  Harmless'
<1>1. (\A n : Current(n)' <=> Current(n)) /\ Held' = Held
  BY CurrentStays, HeldSame
<1>2. Acks'
  BY <1>1 DEF Harmless, Acks, IsPublish
<1>3. Copies' /\ Holds'
  BY <1>1 DEF Harmless, Copies, Holds, IsPublish, IsPubRel
<1>4. NoneLost'
  BY DEF Harmless, NoneLost, Kept
<1> QED BY <1>2, <1>3, <1>4 DEF Harmless

LEMMA LeaveHarmless ==
  ASSUME Typed, Harmless, Leave
  PROVE  Harmless'
<1>1. /\ at # 0 /\ at' = 0 /\ down' = <<>>
      /\ unheard' = unheard \cup Releases(down)
      /\ UNCHANGED <<up, rows, sessions, opened, holding, delivered, inbox, accepted, given>>
  BY DEF Leave, broker
<1>2. (\A n : Current(n)' <=> Current(n)) /\ Held' = Held
  BY <1>1, CurrentStays, HeldSame
<1>3. Acks'
  <2>1. \A n \in Conn : n # 0
    <3>1. ~(0 >= 1)
      OBVIOUS
    <3> QED BY <3>1, Numbers DEF Typed
  <2> QED BY <1>1, <1>2, <2>1 DEF Harmless, Acks
<1>4. Copies'
  <2>1. DOMAIN <<>> = {}
    OBVIOUS
  <2> QED BY <1>1, <2>1 DEF Copies
<1>5. Holds'
  <2>1. ASSUME NEW i, NEW j \in DOMAIN down, IsPubRel(down, i, j)
        PROVE  i \in Releases(down)
    <3>1. down \in Seq(ToSubscriber)
      BY DEF Typed, TypeOK
    <3>2. Releases(down) = {down[k].id : k \in {l \in DOMAIN down : down[l].kind = "PUBREL"}}
      BY <3>1, ReleasesAreIds
    <3> QED BY <2>1, <3>2 DEF IsPubRel
  <2> QED BY <1>1, <1>2, <2>1 DEF Harmless, Holds
<1>6. NoneLost'
  BY <1>1 DEF Harmless, NoneLost, Kept
<1> QED BY <1>1, <1>3, <1>4, <1>5, <1>6 DEF Harmless

LEMMA ComeHarmless ==
  ASSUME Typed, Harmless, Come
  PROVE  Harmless'
<1>1. /\ at = 0 /\ opened < MaxConn /\ opened' = opened + 1 /\ at' = opened'
      /\ inbox' = [inbox EXCEPT ![at'] = <<[kind |-> "CONNECT"]>>]
      /\ UNCHANGED <<up, rows, holding, delivered, down, accepted, given, unheard>>
  BY DEF Come, broker, history
<1>2. down = <<>> /\ DOMAIN <<>> = {}
  <2>1. DOMAIN <<>> = {}
    OBVIOUS
  <2> QED BY <1>1, <2>1 DEF Typed, Wires
<1>3. PICK n : n = opened + 1
  OBVIOUS
<1>4. n \in Conn /\ opened \in Nat /\ n \in Nat
  <2>1. opened \in Nat /\ MaxConn \in Nat
    BY Numbers DEF Typed
  <2> QED BY <1>1, <1>3, <2>1 DEF Conn
<1>5. \A k \in Conn : inbox'[k] = IF k = n THEN <<[kind |-> "CONNECT"]>> ELSE inbox[k]
  <2>1. PICK first : first = <<[kind |-> "CONNECT"]>>
    OBVIOUS
  <2>2. inbox' = [inbox EXCEPT ![n] = first]
    BY <1>1, <1>3, <2>1
  <2>3. inbox \in [Conn -> Seq(FromSubscriber)]
    BY DEF Typed, TypeOK
  <2>4. \A k \in Conn : inbox'[k] = IF k = n THEN first ELSE inbox[k]
    BY <1>4, <2>2, <2>3
  <2> QED BY <2>1, <2>4
<1>6. ASSUME NEW k \in Conn, Current(k)'
      PROVE  k # n /\ Current(k) /\ inbox'[k] = inbox[k]
  <2>1. k \in 1..opened' /\ ~Unread(k)' /\ \A l \in (k + 1)..opened' : Unread(l)'
    BY <1>6 DEF Current
  <2>2. Unread(n)'
    BY <1>4, <1>5 DEF Unread
  <2>3. k # n
    BY <2>1, <2>2
  <2>4. inbox'[k] = inbox[k] /\ ~Unread(k)
    BY <1>5, <2>1, <2>3 DEF Unread
  <2>5. k \in 1..opened
    BY <1>1, <1>3, <1>4, <2>1, <2>3
  <2>6. ASSUME NEW l \in (k + 1)..opened
        PROVE  Unread(l)
    <3>1. l \in (k + 1)..opened' /\ l # n
      BY <1>1, <1>3, <1>4, <2>5
    <3>2. l \in Conn
      BY <1>1, <1>4, <2>5, Numbers DEF Conn, Typed
    <3> QED BY <1>5, <2>1, <3>1, <3>2 DEF Unread
  <2> QED BY <2>3, <2>4, <2>5, <2>6 DEF Current
<1>10. Held' = Held
  BY <1>1, HeldSame
<1>7. Acks'
  BY <1>1, <1>2, <1>6, <1>10 DEF Harmless, Acks
<1>8. Copies' /\ Holds'
  BY <1>1, <1>2, <1>10 DEF Harmless, Copies, Holds
<1>9. NoneLost'
  BY <1>1 DEF Harmless, NoneLost, Kept
<1> QED BY <1>1, <1>7, <1>8, <1>9 DEF Harmless
(* A row that was free is taken: nothing on the wires was about it.        *)
LEMMA GetPublishHarmless ==
  ASSUME Typed, Harmless, GetPublish, harm' = {}
  PROVE  Harmless'
<1>1. /\ UNCHANGED <<up, sessions, at, opened, holding, delivered, inbox>>
      /\ flight = "PUBLISH" /\ Free # {}
  BY DEF GetPublish, subscriber
<1>2. PICK e, m, n, i : e = NextRow /\ m = sent /\ n = Max(sessions) /\ i = MLEncode(e)
  OBVIOUS
<1>3. /\ e \in Id /\ rows[e].msg = NoMsg /\ m \in Msg /\ m # NoMsg
      /\ i \in Wire /\ (i \in Low => Held[i].msg = NoMsg)
  <2>1. e \in Free /\ e \in Id
    BY <1>1, <1>2, NextRowIs DEF Typed
  <2>2. m \in Msg
    BY <1>1, <1>2, Numbers DEF Typed, Wires
  <2>3. rows[e].msg = NoMsg
    BY <2>1 DEF Free
  <2>4. i \in Wire /\ (i \in Low => e < Base)
    <3>1. e \in Nat /\ Base \in Nat
      BY <2>1, BaseAssumption DEF Id
    <3> QED BY <1>2, <2>1, <3>1, LowIs
  <2> QED BY <1>2, <2>1, <2>2, <2>3, <2>4, RowIs, HeldIs DEF Typed
<1>4. /\ i \in Low => Held'[i].msg = m
      /\ \A k \in Low : k # i => Held'[k] = Held[k]
      /\ rows'[e].msg = m
      /\ \A k \in Id : k # e => rows'[k] = rows[k]
  <2>1. PICK r : r = [msg |-> m, payload |-> "live"]
    OBVIOUS
  <2>2. rows' = [rows EXCEPT ![e] = r] /\ r.msg = m
    BY <1>1, <1>2, <2>1 DEF GetPublish
  <2>3. rows \in [Id -> Rows]
    BY DEF Typed, TypeOK
  <2>4. i \in Low => e < Base
    <3>1. e \in Nat /\ Base \in Nat
      BY <1>3, BaseAssumption DEF Id
    <3> QED BY <1>2, <1>3, <3>1, LowIs
  <2> QED BY <1>2, <1>3, <2>2, <2>3, <2>4, HeldChanges
<1>5. PICK p : p = ToPublish(e, m)
  OBVIOUS
<1>6. p \in ToSubscriber /\ p.kind = "PUBLISH" /\ p.id = i /\ p.msg = m
  BY <1>2, <1>3, <1>5 DEF ToPublish, ToSubscriber
<1>7. /\ down' = down \/ down' = down \o <<p>>
      /\ unheard \subseteq unheard'
  <2>1. CASE sessions = {}
    BY <2>1 DEF GetPublish
  <2>2. CASE sessions # {}
    <3>1. WriteTo(n, <<p>>)
      BY <1>2, <1>5, <2>2 DEF GetPublish
    <3> QED BY <3>1 DEF WriteTo
  <2> QED BY <2>1, <2>2
<1>8. down \in Seq(ToSubscriber)
  BY DEF Typed, TypeOK
(* A packet of the new down is an old one, or the last and the only one of row i. *)
<1>9. /\ \A j \in DOMAIN down : j \in DOMAIN down' /\ down'[j] = down[j]
      /\ \A j \in DOMAIN down' :
           j \in DOMAIN down \/ (down'[j] = p /\ down' # down /\ j = Len(down) + 1)
  <2>1. CASE down' = down
    BY <2>1
  <2>2. CASE down' # down
    <3>1. down' = down \o <<p>>
      BY <1>7, <2>2
    <3>2. PICK d : d = down \o <<p>>
      OBVIOUS
    <3>3. /\ \A j \in DOMAIN down : j \in DOMAIN d /\ d[j] = down[j]
          /\ \A j \in DOMAIN d : j \in DOMAIN down \/ (d[j] = p /\ j = Len(down) + 1)
      BY <1>6, <1>8, <3>2, Behind
    <3> QED BY <2>2, <3>1, <3>2, <3>3
  <2> QED BY <2>1, <2>2
<1>10. \A j \in DOMAIN down : down[j].kind = "PUBLISH" /\ down[j].id \in Low => down[j].id # i
  <2>1. ASSUME NEW j \in DOMAIN down, down[j].kind = "PUBLISH", down[j].id = i, i \in Low
        PROVE  FALSE
    <3>1. Held[i].msg = down[j].msg /\ down[j].msg \in Msg
      BY <2>1, DownIs DEF Harmless, Copies, Typed
    <3> QED BY <1>3, <2>1, <3>1, HeldRowIs DEF Typed
  <2> QED BY <2>1
<1>11. Acks'
  <2>1. SUFFICES ASSUME NEW k \in Conn, Current(k)', NEW j \in DOMAIN inbox[k],
                        NEW c \in Low, c = inbox[k][j].id
                 PROVE  /\ Held'[c].msg # NoMsg
                        /\ delivered[Held'[c].msg] > 0 \/ c \in unheard'
                        /\ \A l \in DOMAIN inbox[k] : inbox[k][l].id = c => l = j
                        /\ k = at => \A l \in DOMAIN down' : ~IsPublish(down', c, l)
    BY <1>1 DEF Acks, IsPublish
  <2>2. Current(k)
    BY <1>1, <2>1, CurrentStays
  <2>3. /\ Held[c].msg # NoMsg
        /\ delivered[Held[c].msg] > 0 \/ c \in unheard
        /\ \A l \in DOMAIN inbox[k] : inbox[k][l].id = c => l = j
        /\ k = at => \A l \in DOMAIN down : ~IsPublish(down, c, l)
    BY <2>1, <2>2 DEF Harmless, Acks
  <2>4. c # i
    BY <1>3, <2>1, <2>3
  <2>5. Held'[c] = Held[c]
    BY <1>4, <2>4
  <2>6. ASSUME k = at, NEW l \in DOMAIN down'
        PROVE  ~IsPublish(down', c, l)
    <3>1. CASE l \in DOMAIN down
      BY <1>9, <2>3, <2>6, <3>1 DEF IsPublish
    <3>2. CASE down'[l] = p
      BY <1>6, <2>4, <3>2 DEF IsPublish
    <3> QED BY <1>9, <3>1, <3>2
  <2> QED BY <1>7, <2>3, <2>5, <2>6
<1>12. Copies'
  <2>1. SUFFICES ASSUME NEW j \in DOMAIN down', down'[j].kind = "PUBLISH", down'[j].id \in Low
                 PROVE  /\ Held'[down'[j].id].msg = down'[j].msg
                        /\ \A k \in DOMAIN down' : IsPublish(down', down'[j].id, k) => k = j
    BY DEF Copies, IsPublish
  <2>2. CASE j \in DOMAIN down
    <3>1. down'[j] = down[j] /\ down[j].id # i /\ down[j].id \in Low
      BY <1>9, <1>10, <2>1, <2>2
    <3>2. Held[down[j].id].msg = down[j].msg
      BY <2>1, <2>2, <3>1 DEF Harmless, Copies
    <3>3. ASSUME NEW k \in DOMAIN down', IsPublish(down', down'[j].id, k)
          PROVE  k = j
      <4>1. k \in DOMAIN down /\ down'[k] = down[k]
        BY <1>6, <1>9, <3>1, <3>3 DEF IsPublish
      <4> QED BY <2>1, <2>2, <3>1, <3>3, <4>1 DEF Harmless, Copies, IsPublish
    <3> QED BY <1>4, <3>1, <3>2, <3>3
  <2>3. CASE j \notin DOMAIN down
    <3>1. down'[j] = p /\ j = Len(down) + 1
      BY <1>9, <2>3
    <3>3. i \in Low
      BY <1>6, <2>1, <3>1
    <3>2. ASSUME NEW k \in DOMAIN down', IsPublish(down', i, k)
          PROVE  k = j
      BY <1>9, <1>10, <3>1, <3>2, <3>3 DEF IsPublish
    <3> QED BY <1>4, <1>6, <3>1, <3>2, <3>3
  <2> QED BY <2>2, <2>3
<1>13. Holds'
  <2>1. SUFFICES ASSUME NEW c \in holding \cap Low
                 PROVE  \/ c \in unheard'
                        \/ Held'[c].msg # NoMsg /\ delivered[Held'[c].msg] > 0
                        \/ \E j \in DOMAIN down' : IsPubRel(down', c, j)
                             /\ \A k \in 1..(j - 1) : ~IsPublish(down', c, k)
    BY <1>1 DEF Holds, IsPublish, IsPubRel
  <2>2. CASE c \in unheard
    BY <1>7, <2>2
  <2>3. CASE Held[c].msg # NoMsg /\ delivered[Held[c].msg] > 0
    <3>1. c \in Low /\ c # i
      BY <1>3, <2>3
    <3> QED BY <1>4, <2>3, <3>1
  <2>4. ASSUME NEW j \in DOMAIN down, IsPubRel(down, c, j),
               \A k \in 1..(j - 1) : ~IsPublish(down, c, k)
        PROVE  \E l \in DOMAIN down' : IsPubRel(down', c, l)
                 /\ \A k \in 1..(l - 1) : ~IsPublish(down', c, k)
    <3>1. \A k \in 1..(j - 1) : k \in DOMAIN down
      BY DownIs DEF Typed
    <3>2. \A k \in 1..(j - 1) : ~IsPublish(down', c, k)
      BY <1>9, <2>4, <3>1 DEF IsPublish
    <3>3. IsPubRel(down', c, j) /\ j \in DOMAIN down'
      BY <1>9, <2>4 DEF IsPubRel
    <3> QED BY <3>2, <3>3
  <2> QED BY <2>2, <2>3, <2>4 DEF Harmless, Holds
<1>14. NoneLost'
  <2>1. given' = given \cup {<<m, i>>} /\ accepted' = [accepted EXCEPT ![m] = @ + 1]
    BY <1>2 DEF GetPublish
  <2>3. ASSUME NEW c \in Msg
        PROVE  \/ accepted'[c] = 0 \/ delivered[c] > 0 \/ \E k \in Id : rows'[k].msg = c
               \/ \E k \in unheard' : <<c, k>> \in given'
    <3>1. CASE c = m
      BY <1>3, <1>4, <3>1
    <3>2. CASE c # m
      <4>1. accepted'[c] = accepted[c]
        BY <2>1, <3>2 DEF Typed, TypeOK
      <4>2. ASSUME NEW k \in Id, rows[k].msg = c
            PROVE  rows'[k].msg = c
        <5>1. c # NoMsg
          BY <1>3, RowIs DEF Typed
        <5> QED BY <1>3, <1>4, <4>2, <5>1
      <4> QED BY <1>7, <2>1, <4>1, <4>2 DEF Harmless, NoneLost, Kept
    <3> QED BY <3>1, <3>2
  <2> QED BY <1>1, <2>3 DEF NoneLost, Kept
<1> QED BY <1>1, <1>11, <1>12, <1>13, <1>14 DEF Harmless
(* The packet in front is taken.                                           *)
LEMMA SubscriberGetsHarmless ==
  ASSUME Typed, Harmless, SubscriberGets
  PROVE  Harmless'
<1>1. /\ down # <<>> /\ down' = Tail(down)
      /\ UNCHANGED <<up, rows, at, opened, accepted, given, unheard>>
  BY DEF SubscriberGets, broker, history
<1>2. down \in Seq(ToSubscriber)
  BY DEF Typed, TypeOK
<1>3. PICK i, n : i = down[1].id /\ n = at
  OBVIOUS
<1>4. /\ 1 \in DOMAIN down /\ Head(down) = down[1] /\ i \in Wire
      /\ down[1].kind = "PUBLISH" \/ down[1].kind = "PUBREL"
      /\ n \in Conn /\ Current(n) /\ OnlyPubRecs(inbox[n])
      /\ inbox[n] \in Seq(FromSubscriber)
  BY <1>1, <1>3, ReaderIs, ReaderIsCurrent, DownIs DEF Typed
(* A packet of the new down is an old one, one place further.              *)
<1>5. /\ \A j \in DOMAIN down' : j + 1 \in DOMAIN down /\ down'[j] = down[j + 1] /\ j + 1 # 1
      /\ \A j \in DOMAIN down : j # 1 => j - 1 \in DOMAIN down' /\ down'[j - 1] = down[j]
      /\ DOMAIN down = 1..Len(down) /\ Len(down) \in Nat
      /\ \A j \in DOMAIN down' : j \in Nat
  <2>1. /\ \A j \in DOMAIN Tail(down) :
             j + 1 \in DOMAIN down /\ Tail(down)[j] = down[j + 1] /\ j + 1 # 1
        /\ \A j \in DOMAIN down : j # 1 => j - 1 \in DOMAIN Tail(down) /\ Tail(down)[j - 1] = down[j]
        /\ DOMAIN down = 1..Len(down) /\ Len(down) \in Nat
        /\ DOMAIN Tail(down) = 1..(Len(down) - 1)
    BY <1>1, <1>2, Ahead
  <2> QED BY <1>1, <2>1
<1>6. \A c : (\A k \in DOMAIN down : ~IsPublish(down, c, k))
             => \A k \in DOMAIN down' : ~IsPublish(down', c, k)
  BY <1>5 DEF IsPublish
<1>11. Held' = Held
  BY <1>1, HeldSame
<1>7. Copies'
  <2>1. SUFFICES ASSUME NEW j \in DOMAIN down', down'[j].kind = "PUBLISH", down'[j].id \in Low
                 PROVE  /\ Held[down'[j].id].msg = down'[j].msg
                        /\ \A k \in DOMAIN down' : IsPublish(down', down'[j].id, k) => k = j
    BY <1>11 DEF Copies, IsPublish
  <2>2. PICK h : h = j + 1
    OBVIOUS
  <2>3. h \in DOMAIN down /\ down'[j] = down[h] /\ j \in Nat
    BY <1>5, <2>2
  <2>4. Held[down[h].id].msg = down[h].msg
    BY <2>1, <2>3 DEF Harmless, Copies
  <2>5. ASSUME NEW k \in DOMAIN down', IsPublish(down', down'[j].id, k)
        PROVE  k = j
    <3>1. PICK l : l = k + 1
      OBVIOUS
    <3>2. l \in DOMAIN down /\ down'[k] = down[l] /\ k \in Nat
      BY <1>5, <3>1
    <3>3. l = h
      BY <2>1, <2>3, <2>5, <3>2 DEF Harmless, Copies, IsPublish
    <3> QED BY <2>2, <2>3, <3>1, <3>2, <3>3
  <2> QED BY <2>3, <2>4, <2>5
(* The release of another identifier comes nearer.                         *)
<1>8. ASSUME NEW c, NEW j \in DOMAIN down, IsPubRel(down, c, j), j # 1,
             \A k \in 1..(j - 1) : ~IsPublish(down, c, k)
      PROVE  \E l \in DOMAIN down' : IsPubRel(down', c, l)
               /\ \A k \in 1..(l - 1) : ~IsPublish(down', c, k)
  <2>1. PICK l : l = j - 1
    OBVIOUS
  <2>2. l \in DOMAIN down' /\ down'[l] = down[j] /\ j \in Nat
    BY <1>5, <1>8, <2>1
  <2>3. ASSUME NEW k \in 1..(l - 1)
        PROVE  ~IsPublish(down', c, k)
    <3>1. k + 1 \in 1..(j - 1) /\ k + 1 \in DOMAIN down /\ k + 1 # 1 /\ k + 1 - 1 = k
      BY <1>5, <1>8, <2>1, <2>2
    <3>2. down'[k] = down[k + 1]
      BY <1>5, <3>1
    <3> QED BY <1>8, <3>1, <3>2 DEF IsPublish
  <2> QED BY <1>8, <2>2, <2>3 DEF IsPubRel
<1>9. CASE down[1].kind = "PUBLISH"
  <2>1. PICK m : m = down[1].msg
    OBVIOUS
  <2>2. /\ inbox' = [inbox EXCEPT ![n] = Append(@, PubRec(i))]
        /\ holding' = holding \cup {i}
        /\ delivered' = IF i \in holding THEN delivered ELSE [delivered EXCEPT ![m] = @ + 1]
    BY <1>3, <1>4, <1>9, <2>1 DEF SubscriberGets, PubRec
  <2>3. /\ m \in Msg /\ m # NoMsg
        /\ i \in Low => /\ Held[i].msg = m
                        /\ \A k \in DOMAIN down : IsPublish(down, i, k) => k = 1
    <3>1. m \in Msg /\ m # NoMsg
      BY <1>3, <1>4, <1>9, <2>1, DownIs, ExactlyOnceAssumption DEF Typed, Msg, NoMsg
    <3> QED BY <1>3, <1>4, <1>9, <2>1, <3>1 DEF Harmless, Copies
  <2>4. \A c \in Msg : delivered[c] > 0 => delivered'[c] > 0
    <3>1. delivered \in [Msg -> Nat]
      BY DEF Typed, TypeOK
    <3> QED BY <2>2, <2>3, <3>1
  <2>5. i \in Low => delivered'[m] > 0 \/ i \in unheard
    <3>0. SUFFICES ASSUME i \in Low PROVE delivered'[m] > 0 \/ i \in unheard
      OBVIOUS
    <3>1. delivered \in [Msg -> Nat]
      BY DEF Typed, TypeOK
    <3>2. CASE i \notin holding
      <4>1. delivered'[m] = delivered[m] + 1 /\ delivered[m] \in Nat
        BY <2>2, <2>3, <3>1, <3>2
      <4> QED BY <4>1
    <3>3. CASE i \in holding
      <4>1. ~ \E j \in DOMAIN down : IsPubRel(down, i, j)
                /\ \A k \in 1..(j - 1) : ~IsPublish(down, i, k)
        <5>1. ASSUME NEW j \in DOMAIN down, IsPubRel(down, i, j)
              PROVE  1 \in 1..(j - 1)
          <6>1. j # 1 /\ j \in Nat /\ j >= 1
            BY <1>5, <1>9, <5>1 DEF IsPubRel
          <6> QED BY <6>1
        <5>2. IsPublish(down, i, 1)
          BY <1>3, <1>9 DEF IsPublish
        <5> QED BY <5>1, <5>2
      <4>2. i \in unheard \/ delivered[m] > 0
        BY <2>3, <3>0, <3>3, <4>1 DEF Harmless, Holds
      <4> QED BY <2>3, <2>4, <4>2
    <3> QED BY <3>2, <3>3
  <2>6. PICK q, r : q = inbox[n] /\ r = Append(inbox[n], PubRec(i))
    OBVIOUS
  <2>7. /\ r \in Seq(FromSubscriber) /\ DOMAIN q = 1..Len(q) /\ DOMAIN r = 1..(Len(q) + 1)
        /\ \A j \in DOMAIN q : r[j] = q[j]
        /\ r[Len(q) + 1].id = i /\ Len(q) \in Nat
    <3>1. PICK p : p = PubRec(i)
      OBVIOUS
    <3>2. p \in FromSubscriber /\ p.id = i
      BY <1>4, <3>1 DEF PubRec, FromSubscriber
    <3>3. q \in Seq(FromSubscriber) /\ r = Append(q, p)
      BY <1>4, <2>6, <3>1
    <3>4. /\ r \in Seq(FromSubscriber) /\ Len(r) = Len(q) + 1
          /\ \A j \in 1..Len(q) : r[j] = q[j]
          /\ r[Len(q) + 1] = p
      BY <3>2, <3>3, AppendProperties
    <3>5. DOMAIN q = 1..Len(q) /\ Len(q) \in Nat /\ DOMAIN r = 1..Len(r)
      BY <3>3, <3>4, LenProperties
    <3> QED BY <3>2, <3>4, <3>5
  <2>8. inbox'[n] = r /\ \A k \in Conn : k # n => inbox'[k] = inbox[k]
    <3>1. inbox' = [inbox EXCEPT ![n] = r] /\ inbox \in [Conn -> Seq(FromSubscriber)]
      BY <2>2, <2>6 DEF Typed, TypeOK
    <3> QED BY <1>4, <2>7, <3>1
  (* The current connection stays the only one.                            *)
  <2>9. ASSUME NEW k \in Conn, Current(k)'
        PROVE  k = n
    <3>1. opened \in Nat /\ n = opened /\ n \in 1..opened
      BY <1>1, <1>3, ReaderIs, Numbers DEF Typed
    <3>2. ~Unread(n)'
      <4>1. OnlyPubRecs(r)
        BY <1>4, <2>6, PubRecsGrow
      <4> QED BY <2>8, <4>1, NotBoth DEF Unread
    <3>3. k \in 1..opened /\ n \notin (k + 1)..opened
      BY <1>1, <2>9, <3>2 DEF Current
    <3> QED BY <3>1, <3>3
  <2>10. /\ \A j \in DOMAIN q : q[j].id \in Low =>
              /\ Held[q[j].id].msg # NoMsg
              /\ delivered[Held[q[j].id].msg] > 0 \/ q[j].id \in unheard
              /\ \A k \in DOMAIN q : q[k].id = q[j].id => k = j
              /\ \A k \in DOMAIN down : ~IsPublish(down, q[j].id, k)
    BY <1>3, <1>4, <2>6 DEF Harmless, Acks
  <2>11. Acks'
    <3>1. SUFFICES ASSUME NEW j \in DOMAIN r, r[j].id \in Low
                   PROVE  /\ Held[r[j].id].msg # NoMsg
                          /\ delivered'[Held[r[j].id].msg] > 0 \/ r[j].id \in unheard
                          /\ \A k \in DOMAIN r : r[k].id = r[j].id => k = j
                          /\ \A k \in DOMAIN down' : ~IsPublish(down', r[j].id, k)
      BY <1>1, <1>11, <2>8, <2>9 DEF Acks, IsPublish
    <3>2. IsPublish(down, i, 1)
      BY <1>3, <1>9 DEF IsPublish
    <3>3. \A k \in DOMAIN q : q[k].id \in Low => q[k].id # i
      BY <1>4, <2>10, <3>2
    <3>4. j \in DOMAIN q \/ j = Len(q) + 1
      BY <2>7
    <3>5. CASE j \in DOMAIN q
      <4>1. PICK c : c = q[j].id
        OBVIOUS
      <4>2. /\ r[j].id = c /\ c # i /\ c \in Low
            /\ Held[c].msg # NoMsg
            /\ delivered[Held[c].msg] > 0 \/ c \in unheard
        BY <2>7, <2>10, <3>1, <3>3, <3>5, <4>1
      <4>3. Held[c].msg # NoMsg /\ Held[c].msg \in Msg
        BY <4>2, HeldRowIs DEF Typed
      <4>4. delivered'[Held[c].msg] > 0 \/ c \in unheard
        BY <2>4, <4>2, <4>3
      <4>5. ASSUME NEW k \in DOMAIN r, r[k].id = c
            PROVE  k = j
        <5>1. k \in DOMAIN q
          BY <2>7, <4>2, <4>5
        <5> QED BY <2>7, <2>10, <3>5, <4>1, <4>2, <4>5, <5>1
      <4>6. \A k \in DOMAIN down' : ~IsPublish(down', c, k)
        BY <1>6, <2>10, <3>5, <4>1, <4>2
      <4> QED BY <4>2, <4>3, <4>4, <4>5, <4>6
    <3>6. CASE j = Len(q) + 1
      <4>1. r[j].id = i /\ i \in Low
        BY <2>7, <3>1, <3>6
      <4>2. ASSUME NEW k \in DOMAIN r, r[k].id = i
            PROVE  k = j
        <5>1. k \notin DOMAIN q
          BY <2>7, <3>3, <4>1, <4>2
        <5> QED BY <2>7, <3>6, <5>1
      <4>3. ASSUME NEW k \in DOMAIN down', IsPublish(down', i, k)
            PROVE  FALSE
        <5>1. k + 1 \in DOMAIN down /\ IsPublish(down, i, k + 1) /\ k + 1 # 1
          BY <1>5, <4>3 DEF IsPublish
        <5> QED BY <2>3, <4>1, <5>1
      <4> QED BY <2>3, <2>5, <4>1, <4>2, <4>3
    <3> QED BY <3>4, <3>5, <3>6
  <2>12. Holds'
    <3>1. SUFFICES ASSUME NEW c \in (holding \cup {i}) \cap Low
                   PROVE  \/ c \in unheard
                          \/ Held[c].msg # NoMsg /\ delivered'[Held[c].msg] > 0
                          \/ \E j \in DOMAIN down' : IsPubRel(down', c, j)
                               /\ \A k \in 1..(j - 1) : ~IsPublish(down', c, k)
      BY <1>1, <1>11, <2>2 DEF Holds, IsPublish, IsPubRel
    <3>2. CASE c = i
      BY <2>3, <2>5, <3>2
    <3>3. CASE c # i
      <4>1. c \in holding /\ c \in Low
        BY <3>3
      <4>2. CASE Held[c].msg # NoMsg /\ delivered[Held[c].msg] > 0
        BY <2>4, <4>1, <4>2, HeldRowIs DEF Typed
      <4>3. ASSUME NEW j \in DOMAIN down, IsPubRel(down, c, j)
            PROVE  j # 1
        BY <1>9, <4>3 DEF IsPubRel
      <4> QED BY <1>8, <4>1, <4>2, <4>3 DEF Harmless, Holds
    <3> QED BY <3>2, <3>3
  <2>13. NoneLost'
    BY <1>1, <2>4 DEF Harmless, NoneLost, Kept
  <2> QED BY <1>1, <1>7, <2>11, <2>12, <2>13 DEF Harmless
<1>10. CASE down[1].kind = "PUBREL"
  <2>1. holding' = holding \ {i} /\ UNCHANGED <<inbox, delivered>>
    BY <1>3, <1>4, <1>10 DEF SubscriberGets
  <2>2. \A k : Current(k)' <=> Current(k)
    BY <1>1, <2>1, CurrentStays
  <2>3. Acks'
    <3>1. SUFFICES ASSUME NEW k \in Conn, Current(k), NEW j \in DOMAIN inbox[k],
                          NEW c \in Low, c = inbox[k][j].id
                   PROVE  /\ Held[c].msg # NoMsg
                          /\ delivered[Held[c].msg] > 0 \/ c \in unheard
                          /\ \A l \in DOMAIN inbox[k] : inbox[k][l].id = c => l = j
                          /\ k = at => \A l \in DOMAIN down' : ~IsPublish(down', c, l)
      BY <1>1, <1>11, <2>1, <2>2 DEF Acks, IsPublish
    <3> QED BY <1>6, <3>1 DEF Harmless, Acks
  <2>4. Holds'
    <3>1. SUFFICES ASSUME NEW c \in (holding \ {i}) \cap Low
                   PROVE  \/ c \in unheard
                          \/ Held[c].msg # NoMsg /\ delivered[Held[c].msg] > 0
                          \/ \E j \in DOMAIN down' : IsPubRel(down', c, j)
                               /\ \A k \in 1..(j - 1) : ~IsPublish(down', c, k)
      BY <1>1, <1>11, <2>1 DEF Holds, IsPublish, IsPubRel
    <3>2. ASSUME NEW j \in DOMAIN down, IsPubRel(down, c, j)
          PROVE  j # 1
      BY <1>3, <3>1, <3>2 DEF IsPubRel
    <3> QED BY <1>8, <3>1, <3>2 DEF Harmless, Holds
  <2>5. NoneLost'
    BY <1>1, <2>1 DEF Harmless, NoneLost, Kept
  <2> QED BY <1>1, <1>7, <2>3, <2>4, <2>5 DEF Harmless
<1> QED BY <1>4, <1>9, <1>10
(* CONNECT: what is sent again is all there is on the way.                 *)
LEMMA GetConnectHarmless ==
  ASSUME Typed, Harmless, NEW n \in Conn, Get(n), GetConnect(n)
  PROVE  Harmless'
<1>1. /\ inbox[n] # <<>> /\ n \in 1..opened /\ ~Unread(n)'
      /\ \A k \in Conn : k # n => inbox'[k] = inbox[k] /\ (Unread(k)' <=> Unread(k))
      /\ UNCHANGED <<at, opened, holding, delivered, accepted, given>>
      /\ inbox'[n] = Tail(inbox[n])
  BY GetInbox
<1>2. WriteTo(n, ResentPackets) /\ UNCHANGED <<up, rows>>
  BY DEF GetConnect, ResentPackets
<1>10. Held' = Held
  BY <1>2, HeldSame
<1>3. Unread(n) /\ inbox'[n] = <<>>
  <2>1. Head(inbox[n]).kind = "CONNECT"
    BY DEF GetConnect
  <2> QED BY <1>1, <2>1, InboxIs DEF Typed
<1>4. /\ n # at => down' = down
      /\ n = at => down = <<>> /\ down' = ResentPackets
      /\ unheard \subseteq unheard'
  <2>1. n = at => down = <<>>
    BY <1>3 DEF Typed, Wires
  <2>2. <<>> \o ResentPackets = ResentPackets
    BY ResentIs, ConcatEmptySeq DEF Typed
  <2>3. /\ n # at => down' = down
        /\ n = at => down' = down \o ResentPackets
        /\ unheard \subseteq unheard'
    BY <1>2 DEF WriteTo
  <2> QED BY <2>1, <2>2, <2>3
<1>5. ASSUME NEW k \in Conn, Current(k)', k # n
      PROVE  Current(k) /\ inbox'[k] = inbox[k]
  <2>1. opened \in Nat /\ k \in Nat /\ opened <= MaxConn /\ MaxConn \in Nat
    BY Numbers DEF Typed
  <2>2. k \in 1..opened /\ ~Unread(k) /\ \A l \in (k + 1)..opened : Unread(l)'
    BY <1>1, <1>5 DEF Current
  <2>3. ASSUME NEW l \in (k + 1)..opened
        PROVE  Unread(l)
    <3>1. l \in Conn
      BY <2>1, <2>2 DEF Conn
    <3> QED BY <1>1, <1>3, <2>2, <3>1
  <2> QED BY <1>1, <1>5, <2>2, <2>3 DEF Current
<1>6. Acks'
  <2>1. SUFFICES ASSUME NEW k \in Conn, Current(k)', NEW j \in DOMAIN inbox'[k],
                        NEW c \in Low, c = inbox'[k][j].id
                 PROVE  /\ Held[c].msg # NoMsg
                        /\ delivered[Held[c].msg] > 0 \/ c \in unheard'
                        /\ \A l \in DOMAIN inbox'[k] : inbox'[k][l].id = c => l = j
                        /\ k = at => \A l \in DOMAIN down' : ~IsPublish(down', c, l)
    BY <1>1, <1>10 DEF Acks, IsPublish
  <2>2. k # n
    <3>1. DOMAIN <<>> = {}
      OBVIOUS
    <3> QED BY <1>3, <2>1, <3>1
  <2>3. Current(k) /\ inbox'[k] = inbox[k]
    BY <1>5, <2>1, <2>2
  <2>4. k = at => down' = down
    BY <1>4, <2>2
  <2> QED BY <1>4, <2>1, <2>3, <2>4 DEF Harmless, Acks
<1>7. Copies'
  <2>1. CASE n # at
    BY <1>4, <1>10, <2>1 DEF Harmless, Copies, IsPublish
  <2>2. CASE n = at
    BY <1>4, <1>10, <2>2, ResentIs DEF Copies, IsPublish, Typed
  <2> QED BY <2>1, <2>2
<1>8. Holds'
  <2>1. CASE n # at
    BY <1>1, <1>4, <1>10, <2>1 DEF Harmless, Holds, IsPublish, IsPubRel
  <2>2. CASE n = at
    <3>1. DOMAIN <<>> = {}
      OBVIOUS
    <3> QED BY <1>1, <1>4, <1>10, <2>2, <3>1 DEF Harmless, Holds
  <2> QED BY <2>1, <2>2
<1>9. NoneLost'
  BY <1>1, <1>2, <1>4 DEF Harmless, NoneLost, Kept
<1> QED BY <1>2, <1>6, <1>7, <1>8, <1>9 DEF Harmless

(* PUBREC from the current connection: a message that arrived is dropped,  *)
(* and its identifier released, or the release is not heard.               *)
LEMMA GetPubRecHarmless ==
  ASSUME Typed, Traced, Harmless, NEW n \in Conn, Get(n), GetPubRec(n), harm' = {}
  PROVE  Harmless'
<1>1. /\ inbox[n] # <<>> /\ n \in 1..opened /\ ~Unread(n)'
      /\ \A k \in Conn : k # n => inbox'[k] = inbox[k] /\ (Unread(k)' <=> Unread(k))
      /\ UNCHANGED <<at, opened, holding, delivered, accepted, given>>
      /\ inbox'[n] = Tail(inbox[n])
  BY GetInbox
<1>2. PICK i, e : i = Head(inbox[n]).id /\ e = StringLen(i)
  OBVIOUS
<1>3. PICK p : p = [kind |-> "PUBREL", id |-> i]
  OBVIOUS
<1>4. /\ Head(inbox[n]).kind = "PUBREC" /\ ~Superseded(n)
      /\ SessionPublishDelete(e) /\ WriteTo(n, <<p>>) /\ ~i.msb.high
  BY <1>2, <1>3 DEF GetPubRec, Harm
<1>5. Current(n) /\ ~Unread(n) /\ OnlyPubRecs(inbox[n]) /\ inbox[n] \in Seq(FromSubscriber)
  BY <1>1, <1>4, NotLateIsCurrent, InboxIs DEF Typed
<1>6. PICK q : q = inbox[n]
  OBVIOUS
<1>7. /\ DOMAIN q = 1..Len(q) /\ Len(q) \in Nat \ {0} /\ q[1].id = i
      /\ \A j \in DOMAIN Tail(q) : j \in Nat /\ j + 1 \in DOMAIN q /\ Tail(q)[j] = q[j + 1]
      /\ \A j \in DOMAIN q : q[j].id \in Wire
  <2>1. q \in Seq(FromSubscriber) /\ q # <<>>
    BY <1>1, <1>5, <1>6
  <2>2. /\ Len(Tail(q)) = Len(q) - 1 /\ Tail(q) \in Seq(FromSubscriber)
        /\ \A j \in 1..Len(Tail(q)) : Tail(q)[j] = q[j + 1]
    BY <2>1, HeadTailProperties
  <2>3. Len(q) \in Nat \ {0} /\ DOMAIN q = 1..Len(q) /\ DOMAIN Tail(q) = 1..Len(Tail(q))
    BY <2>1, <2>2, EmptySeq, LenProperties
  <2>4. Head(q) = q[1]
    BY <2>1
  <2>5. \A j \in DOMAIN Tail(q) : j \in Nat /\ j + 1 \in DOMAIN q
    BY <2>2, <2>3
  <2>6. ASSUME NEW j \in DOMAIN q
        PROVE  q[j].id \in Wire
    <3>1. q[j] \in FromSubscriber
      BY <2>1, <2>3, ElementOfSeq
    <3>2. q[j].kind = "PUBREC"
      BY <1>5, <1>6 DEF OnlyPubRecs
    <3> QED BY <3>1, <3>2 DEF FromSubscriber
  <2> QED BY <1>2, <1>6, <2>2, <2>3, <2>4, <2>5, <2>6
<1>8. \A j \in DOMAIN q : q[j].id \in Low =>
        /\ Held[q[j].id].msg # NoMsg
        /\ delivered[Held[q[j].id].msg] > 0 \/ q[j].id \in unheard
        /\ \A k \in DOMAIN q : q[k].id = q[j].id => k = j
        /\ n = at => \A k \in DOMAIN down : ~IsPublish(down, q[j].id, k)
  BY <1>5, <1>6 DEF Harmless, Acks
<1>9. /\ i \in Low /\ i \in Wire /\ Held[i].msg # NoMsg /\ Held[i].msg \in Msg
      /\ Held[i].payload = "live" /\ e \in Id /\ e < Base /\ i = MLEncode(e)
      /\ Held[i] = rows[e]
      /\ delivered[Held[i].msg] > 0 \/ i \in unheard
      /\ n = at => \A k \in DOMAIN down : ~IsPublish(down, i, k)
  <2>1. 1 \in DOMAIN q
    BY <1>7
  <2>2. i \in Wire
    BY <1>7, <2>1
  <2>3. i \in Low
    BY <1>4, <2>2, LowIs
  <2>4. e \in Id /\ e < Base /\ i = MLEncode(e)
    BY <1>2, <2>2, <2>3, LowIs
  <2>5. Held[i] = rows[e]
    BY <2>4, HeldIs DEF Typed
  <2>6. /\ Held[i].msg # NoMsg
        /\ delivered[Held[i].msg] > 0 \/ i \in unheard
        /\ n = at => \A k \in DOMAIN down : ~IsPublish(down, i, k)
    BY <1>7, <1>8, <2>1, <2>3
  <2> QED BY <2>2, <2>3, <2>4, <2>5, <2>6, HeldRowIs DEF Typed
<1>10. /\ up' = up /\ Held'[i].msg = NoMsg
       /\ \A k \in Low : k # i => Held'[k] = Held[k]
       /\ \A k \in Id : k # e => rows'[k] = rows[k]
  <2>1. rows' = [rows EXCEPT ![e] = FreedRow] /\ up' = up
    BY <1>4, <1>9 DEF SessionPublishDelete
  <2>2. rows \in [Id -> Rows] /\ FreedRow.msg = NoMsg
    BY DEF Typed, TypeOK, FreedRow
  <2> QED BY <1>9, <2>1, <2>2, HeldChanges
<1>11. down \in Seq(ToSubscriber) /\ p \in ToSubscriber /\ p.kind = "PUBREL" /\ p.id = i
  <2>1. p \in ToSubscriber /\ p.kind = "PUBREL" /\ p.id = i
    BY <1>3, <1>9 DEF ToSubscriber
  <2> QED BY <2>1 DEF Typed, TypeOK
<1>12. /\ n # at => down' = down /\ down = <<>> /\ i \in unheard'
       /\ n = at => down' = down \o <<p>>
       /\ unheard \subseteq unheard'
  <2>1. n # at => down = <<>>
    BY <1>5, ReaderIsCurrent, OneCurrent DEF Typed
  <2>2. i \in Releases(<<p>>)
    <3>1. PICK one : one = <<p>>
      OBVIOUS
    <3>2. one \in Seq(ToSubscriber) /\ one[1] = p /\ 1 \in DOMAIN one
      BY <1>11, <3>1
    <3>3. Releases(one) = {one[j].id : j \in {k \in DOMAIN one : one[k].kind = "PUBREL"}}
      BY <3>2, ReleasesAreIds
    <3> QED BY <1>11, <3>1, <3>2, <3>3
  <2> QED BY <1>4, <2>1, <2>2 DEF WriteTo
(* A packet of the new down is an old one, or the PUBREL at its end.       *)
<1>13. /\ \A j \in DOMAIN down : j \in DOMAIN down' /\ down'[j] = down[j]
       /\ \A j \in DOMAIN down' : j \in DOMAIN down \/ (down'[j] = p /\ j = Len(down) + 1)
       /\ n = at => Len(down) + 1 \in DOMAIN down' /\ down'[Len(down) + 1] = p
       /\ Len(down) \in Nat /\ DOMAIN down = 1..Len(down)
  <2>1. Len(down) \in Nat /\ DOMAIN down = 1..Len(down)
    BY <1>11, Behind
  <2>2. CASE n # at
    BY <1>12, <2>1, <2>2
  <2>3. CASE n = at
    <3>1. PICK d : d = down \o <<p>>
      OBVIOUS
    <3>2. /\ \A j \in DOMAIN down : j \in DOMAIN d /\ d[j] = down[j]
          /\ \A j \in DOMAIN d : j \in DOMAIN down \/ j = Len(down) + 1
          /\ DOMAIN d = 1..(Len(down) + 1) /\ d[Len(down) + 1] = p
      BY <1>11, <3>1, Behind
    <3>3. Len(down) + 1 \in DOMAIN d
      BY <2>1, <3>2
    <3> QED BY <1>12, <2>1, <2>3, <3>1, <3>2, <3>3
  <2> QED BY <2>2, <2>3
<1>14. \A k \in DOMAIN down : ~IsPublish(down, i, k)
  <2>1. n # at => DOMAIN down = {}
    <3>1. DOMAIN <<>> = {}
      OBVIOUS
    <3> QED BY <1>12, <3>1
  <2> QED BY <1>9, <2>1
<1>15. Acks'
  <2>1. ASSUME NEW k \in Conn, Current(k)'
        PROVE  k = n
    <3>1. opened \in Nat /\ opened <= MaxConn /\ MaxConn \in Nat /\ k \in Nat
      BY Numbers DEF Typed
    <3>2. k \in 1..opened /\ n \notin (k + 1)..opened
      BY <1>1, <2>1 DEF Current
    <3>3. ~Unread(k)'
      BY <2>1 DEF Current
    <3>4. k # n => ~Unread(k) /\ k \notin (n + 1)..opened
      BY <1>1, <1>5, <3>3 DEF Current
    <3> QED BY <1>1, <3>1, <3>2, <3>4
  <2>2. SUFFICES ASSUME NEW j \in DOMAIN Tail(q), NEW c \in Low, c = Tail(q)[j].id
                 PROVE  /\ Held'[c].msg # NoMsg
                        /\ delivered[Held'[c].msg] > 0 \/ c \in unheard'
                        /\ \A l \in DOMAIN Tail(q) : Tail(q)[l].id = c => l = j
                        /\ \A l \in DOMAIN down' : ~IsPublish(down', c, l)
    <3>1. SUFFICES ASSUME NEW k \in Conn, Current(k)', NEW j \in DOMAIN inbox'[k],
                          NEW c \in Low, c = inbox'[k][j].id
                   PROVE  /\ Held'[c].msg # NoMsg
                          /\ delivered[Held'[c].msg] > 0 \/ c \in unheard'
                          /\ \A l \in DOMAIN inbox'[k] : inbox'[k][l].id = c => l = j
                          /\ k = at => \A l \in DOMAIN down' : ~IsPublish(down', c, l)
      BY <1>1 DEF Acks, IsPublish
    <3>2. inbox'[k] = Tail(q)
      BY <1>1, <1>6, <2>1, <3>1
    <3> QED BY <2>2, <3>1, <3>2
  <2>3. PICK h : h = j + 1
    OBVIOUS
  <2>4. h \in DOMAIN q /\ c = q[h].id /\ c \in Low /\ h # 1 /\ j \in Nat
    BY <1>7, <2>2, <2>3
  <2>5. /\ Held[c].msg # NoMsg
        /\ delivered[Held[c].msg] > 0 \/ c \in unheard
        /\ \A k \in DOMAIN q : q[k].id = c => k = h
        /\ n = at => \A k \in DOMAIN down : ~IsPublish(down, c, k)
    BY <1>8, <2>4
  <2>6. c # i
    <3>1. 1 \in DOMAIN q
      BY <1>7
    <3> QED BY <1>7, <2>4, <2>5, <3>1
  <2>7. Held'[c] = Held[c]
    BY <1>10, <2>4, <2>6
  <2>8. ASSUME NEW l \in DOMAIN Tail(q), Tail(q)[l].id = c
        PROVE  l = j
    <3>1. PICK m : m = l + 1
      OBVIOUS
    <3>2. l \in Nat /\ m \in DOMAIN q /\ q[m].id = c
      BY <1>7, <2>8, <3>1
    <3>3. m = h
      BY <2>5, <3>2
    <3> QED BY <2>3, <2>4, <3>1, <3>2, <3>3
  <2>9. ASSUME NEW l \in DOMAIN down'
        PROVE  ~IsPublish(down', c, l)
    <3>1. CASE l \in DOMAIN down
      <4>1. n = at
        <5>1. DOMAIN <<>> = {}
          OBVIOUS
        <5> QED BY <1>12, <3>1, <5>1
      <4> QED BY <1>13, <2>5, <3>1, <4>1 DEF IsPublish
    <3>2. CASE down'[l] = p
      BY <1>11, <3>2 DEF IsPublish
    <3> QED BY <1>13, <3>1, <3>2
  <2> QED BY <1>12, <2>5, <2>7, <2>8, <2>9
<1>16. Copies'
  <2>1. SUFFICES ASSUME NEW j \in DOMAIN down', down'[j].kind = "PUBLISH", down'[j].id \in Low
                 PROVE  /\ Held'[down'[j].id].msg = down'[j].msg
                        /\ \A k \in DOMAIN down' : IsPublish(down', down'[j].id, k) => k = j
    BY DEF Copies, IsPublish
  <2>2. j \in DOMAIN down /\ down'[j] = down[j]
    BY <1>11, <1>13, <2>1
  <2>3. down[j].id \in Low /\ down[j].id # i
    BY <1>14, <2>1, <2>2 DEF IsPublish
  <2>4. Held[down[j].id].msg = down[j].msg
    BY <2>1, <2>2 DEF Harmless, Copies
  <2>5. ASSUME NEW k \in DOMAIN down', IsPublish(down', down'[j].id, k)
        PROVE  k = j
    <3>1. k \in DOMAIN down /\ down'[k] = down[k]
      BY <1>11, <1>13, <2>5 DEF IsPublish
    <3> QED BY <2>1, <2>2, <2>5, <3>1 DEF Harmless, Copies, IsPublish
  <2> QED BY <1>10, <2>2, <2>3, <2>4, <2>5
<1>17. Holds'
  <2>1. SUFFICES ASSUME NEW c \in holding \cap Low
                 PROVE  \/ c \in unheard'
                        \/ Held'[c].msg # NoMsg /\ delivered[Held'[c].msg] > 0
                        \/ \E j \in DOMAIN down' : IsPubRel(down', c, j)
                             /\ \A k \in 1..(j - 1) : ~IsPublish(down', c, k)
    BY <1>1 DEF Holds, IsPublish, IsPubRel
  <2>2. c \in Low
    OBVIOUS
  <2>3. CASE c # i
    <3>1. ASSUME NEW j \in DOMAIN down, IsPubRel(down, c, j),
                 \A k \in 1..(j - 1) : ~IsPublish(down, c, k)
          PROVE  \E l \in DOMAIN down' : IsPubRel(down', c, l)
                   /\ \A k \in 1..(l - 1) : ~IsPublish(down', c, k)
      <4>1. \A k \in 1..(j - 1) : k \in DOMAIN down
        BY <1>13
      <4>2. \A k \in 1..(j - 1) : ~IsPublish(down', c, k)
        BY <1>13, <3>1, <4>1 DEF IsPublish
      <4>3. IsPubRel(down', c, j) /\ j \in DOMAIN down'
        BY <1>13, <3>1 DEF IsPubRel
      <4> QED BY <4>2, <4>3
    <3> QED BY <1>10, <1>12, <2>2, <2>3, <3>1 DEF Harmless, Holds
  <2>4. CASE c = i
    <3>1. CASE n # at
      BY <1>12, <2>4, <3>1
    <3>2. CASE n = at
      <4>1. PICK j : j = Len(down) + 1
        OBVIOUS
      <4>2. j \in DOMAIN down' /\ IsPubRel(down', c, j)
        BY <1>11, <1>13, <2>4, <3>2, <4>1 DEF IsPubRel
      <4>3. ASSUME NEW k \in 1..(j - 1)
            PROVE  ~IsPublish(down', c, k)
        <5>1. k \in DOMAIN down
          BY <1>13, <4>1
        <5> QED BY <1>13, <1>14, <2>4, <5>1 DEF IsPublish
      <4> QED BY <4>2, <4>3
    <3> QED BY <3>1, <3>2
  <2> QED BY <2>3, <2>4
<1>19. NoneLost'
  <2>1. ASSUME NEW c \in Msg
        PROVE  \/ accepted[c] = 0 \/ delivered[c] > 0 \/ \E k \in Id : rows'[k].msg = c
               \/ \E k \in unheard' : <<c, k>> \in given
    <3>1. ASSUME NEW k \in Id, rows[k].msg = c, ~(delivered[c] > 0)
          PROVE  (\E l \in Id : rows'[l].msg = c) \/ \E l \in unheard' : <<c, l>> \in given
      <4>1. CASE k # e
        BY <1>10, <3>1, <4>1
      <4>2. CASE k = e
        <5>1. i \in unheard' /\ <<c, i>> \in given
          BY <1>9, <1>12, <3>1, <4>2 DEF Traced, Entered
        <5> QED BY <5>1
      <4> QED BY <4>1, <4>2
    <3> QED BY <1>12, <3>1 DEF Harmless, NoneLost, Kept
  <2> QED BY <1>1, <2>1 DEF NoneLost, Kept
<1> QED BY <1>10, <1>15, <1>16, <1>17, <1>19 DEF Harmless

LEMMA NextSafe ==
  ASSUME Typed, Traced, Safe, [Next]_vars
  PROVE  Safe'
<1> SUFFICES ASSUME harm' = {} PROVE Harmless'
  BY DEF Safe
<1> USE DEF broker, subscriber, publisher, wires, history
<1>1. CASE Broker
  <2>1. CASE GetPublish
    <3>1. harm = {}
      BY <2>1 DEF GetPublish
    <3> QED BY <2>1, <3>1, GetPublishHarmless DEF Safe
  <2>2. CASE GetPubRel
    BY <2>2, QuietHarmless DEF GetPubRel, Safe
  <2>3. ASSUME NEW n \in Conn, Get(n)
        PROVE  Harmless'
    <3>1. harm = {}
      BY <2>3 DEF Get, GetConnect, GetPubRec
    <3> QED BY <2>3, <3>1, GetConnectHarmless, GetPubRecHarmless DEF Safe, Get
  <2>4. ASSUME NEW n \in Conn, Close(n)
        PROVE  Harmless'
    BY <2>4, QuietHarmless DEF Close, Safe
  <2> QED BY <1>1, <2>1, <2>2, <2>3, <2>4 DEF Broker
<1>2. CASE Subscriber
  <2>1. CASE Come
    BY <2>1, ComeHarmless DEF Come, Safe
  <2>2. CASE SubscriberGets
    BY <2>2, SubscriberGetsHarmless DEF SubscriberGets, Safe
  <2> QED BY <1>2, <2>1, <2>2 DEF Subscriber
<1>3. CASE Publisher
  BY <1>3, QuietHarmless DEF Publisher, PublishNext, PublisherGets, Safe
<1>4. CASE Breaks
  <2>1. CASE PublisherBreaks
    BY <2>1, QuietHarmless DEF PublisherBreaks, Safe
  <2>2. CASE Leave
    BY <2>2, LeaveHarmless DEF Leave, Safe
  <2> QED BY <1>4, <2>1, <2>2 DEF Breaks
<1>5. CASE UNCHANGED vars
  BY <1>5, QuietHarmless DEF vars, Safe
<1> QED BY <1>1, <1>2, <1>3, <1>4, <1>5 DEF Next

LEMMA AlwaysSafe == Spec => [](Typed /\ Traced /\ Safe)
<1>1. Init => Typed /\ Traced /\ Safe
  BY InitTyped, InitTraced, InitHarmless DEF Safe
<1>2. Typed /\ Traced /\ Safe /\ [Next]_vars => Typed' /\ Traced' /\ Safe'
  BY NextTyped, NextTraced, NextSafe
<1> QED BY <1>1, <1>2, PTL DEF Spec

(* Unless the table was full (session.c 432), or a PUBREC was read after   *)
(* the CONNECT of a newer connection (session.c 466) or for a row from     *)
(* Base on (event.c 225), a message that was taken and neither delivered   *)
(* nor in a row was given an identifier whose PUBREL the subscriber did    *)
(* not hear of.                                                            *)
THEOREM LostToReleases == Spec => []LostOnly
<1>1. Safe => LostOnly
  BY DEF Safe, Harmless, NoneLost, LostOnly
<1> QED BY <1>1, AlwaysSafe, PTL

(* Nor does the process die without one of the three: an acknowledgement   *)
(* then names a row in use (session.c 474).                                *)
THEOREM DeathNeedsHarm == Spec => []DiesOnly
<1>1. Safe => DiesOnly
  BY DEF Safe, Harmless, DiesOnly
<1> QED BY <1>1, AlwaysSafe, PTL
----------------------------------------------------------------------------
(* Counting.                                                               *)

LEMMA CountSub ==
  ASSUME NEW T, IsFiniteSet(T), NEW S, S \subseteq T
  PROVE  /\ IsFiniteSet(S) /\ Cardinality(S) \in Nat /\ Cardinality(T) \in Nat
         /\ Cardinality(S) <= Cardinality(T)
<1>1. S \in SUBSET T
  OBVIOUS
<1>2. IsFiniteSet(S) /\ Cardinality(S) <= Cardinality(T)
  BY <1>1, FS_Subset
<1> QED BY <1>2, FS_CardinalityType

LEMMA CountAdd ==
  ASSUME NEW T, IsFiniteSet(T), NEW x, NEW S, S \subseteq T \cup {x}
  PROVE  Cardinality(S) <= Cardinality(T) + 1
<1>1. PICK U : U = T \cup {x}
  OBVIOUS
<1>2. IsFiniteSet(U) /\ Cardinality(U) = IF x \in T THEN Cardinality(T) ELSE Cardinality(T) + 1
  BY <1>1, FS_AddElement
<1>3. Cardinality(S) \in Nat /\ Cardinality(S) <= Cardinality(U)
  BY <1>1, <1>2, CountSub
<1>4. Cardinality(T) \in Nat
  BY FS_CardinalityType
<1> QED BY <1>2, <1>3, <1>4

LEMMA CountDrop ==
  ASSUME NEW T, IsFiniteSet(T), NEW x \in T, NEW S, S \subseteq T \ {x}
  PROVE  Cardinality(S) + 1 <= Cardinality(T)
<1>1. PICK U : U = T \ {x}
  OBVIOUS
<1>2. IsFiniteSet(U) /\ Cardinality(U) = Cardinality(T) - 1
  BY <1>1, FS_RemoveElement
<1>3. Cardinality(S) \in Nat /\ Cardinality(S) <= Cardinality(U)
  BY <1>1, <1>2, CountSub
<1>4. Cardinality(T) \in Nat
  BY FS_CardinalityType
<1> QED BY <1>2, <1>3, <1>4

LEMMA CountShift ==
  ASSUME NEW T, IsFiniteSet(T), NEW S, S \subseteq Nat, \A j \in S : j + 1 \in T
  PROVE  Cardinality(S) <= Cardinality(T)
<1>1. PICK f : f = [j \in S |-> j + 1]
  OBVIOUS
<1>2. f \in [S -> T]
  BY <1>1
<1>3. ASSUME NEW j \in S, NEW k \in S, f[j] = f[k]
      PROVE  j = k
  <2>1. j + 1 = k + 1 /\ j \in Nat /\ k \in Nat
    BY <1>1, <1>3
  <2> QED BY <2>1
<1>4. f \in Injection(S, T)
  BY <1>2, <1>3 DEF Injection, IsInjective
<1> QED BY <1>4, FS_Injection

LEMMA CountShiftDrop ==
  ASSUME NEW T, IsFiniteSet(T), NEW x \in T, NEW S, S \subseteq Nat,
         \A j \in S : j + 1 \in T /\ j + 1 # x
  PROVE  Cardinality(S) + 1 <= Cardinality(T)
<1>1. PICK U : U = T \ {x}
  OBVIOUS
<1>2. IsFiniteSet(U) /\ Cardinality(U) = Cardinality(T) - 1
  BY <1>1, FS_RemoveElement
<1>3. Cardinality(S) <= Cardinality(U) /\ IsFiniteSet(S)
  <2>1. \A j \in S : j + 1 \in U
    BY <1>1
  <2>2. Cardinality(S) <= Cardinality(U)
    BY <1>2, <2>1, CountShift
  <2>3. IsFiniteSet(S)
    <3>1. PICK f : f = [j \in S |-> j + 1]
      OBVIOUS
    <3>2. f \in [S -> U]
      BY <2>1, <3>1
    <3>3. ASSUME NEW j \in S, NEW k \in S, f[j] = f[k]
          PROVE  j = k
      <4>1. j + 1 = k + 1 /\ j \in Nat /\ k \in Nat
        BY <3>1, <3>3
      <4> QED BY <4>1
    <3>4. f \in Injection(S, U)
      BY <3>2, <3>3 DEF Injection, IsInjective
    <3> QED BY <1>2, <3>4, FS_Injection
  <2> QED BY <2>2, <2>3
<1>4. Cardinality(T) \in Nat /\ Cardinality(S) \in Nat
  BY <1>3, FS_CardinalityType
<1> QED BY <1>2, <1>3, <1>4

LEMMA OpenStrayFinite ==
  ASSUME NEW d \in Seq(ToSubscriber), NEW h, NEW r, NEW m
  PROVE  /\ IsFiniteSet(Open(d, h, r, m)) /\ Cardinality(Open(d, h, r, m)) \in Nat
         /\ IsFiniteSet(Stray(d, h, r, m)) /\ Cardinality(Stray(d, h, r, m)) \in Nat
         /\ Stray(d, h, r, m) \subseteq DOMAIN d /\ Open(d, h, r, m) \subseteq Low
<1>1. IsFiniteSet(Low)
  <2>1. PICK ids : ids = {i \in Id : i < Base}
    OBVIOUS
  <2>2. IsFiniteSet(ids)
    <3>1. IsFiniteSet(Id)
      <4>1. MaxId \in Nat
        BY ExactlyOnceAssumption
      <4> QED BY <4>1, FS_Interval DEF Id
    <3>2. ids \in SUBSET Id
      BY <2>1
    <3> QED BY <3>1, <3>2, FS_Subset
  <2>3. PICK f : f = [w \in Low |-> StringLen(w)]
    OBVIOUS
  <2>4. f \in Injection(Low, ids)
    <3>1. \A w \in Low : StringLen(w) \in ids
      BY <2>1, LowIs
    <3>2. f \in [Low -> ids]
      BY <2>3, <3>1
    <3>3. ASSUME NEW v \in Low, NEW w \in Low, f[v] = f[w]
          PROVE  v = w
      <4>1. StringLen(v) = StringLen(w)
        BY <2>3, <3>3
      <4>2. MLEncode(StringLen(v)) = v /\ MLEncode(StringLen(w)) = w
        BY LowIs
      <4> QED BY <4>1, <4>2
    <3> QED BY <3>2, <3>3 DEF Injection, IsInjective
  <2> QED BY <2>2, <2>4, FS_Injection
<1>2. IsFiniteSet(DOMAIN d)
  <2>1. Len(d) \in Nat /\ DOMAIN d = 1..Len(d)
    BY LenProperties
  <2> QED BY <2>1, FS_Interval
<1>3. Stray(d, h, r, m) \subseteq DOMAIN d /\ Open(d, h, r, m) \subseteq Low
  BY DEF Stray, Open
<1> QED BY <1>1, <1>2, <1>3, CountSub

LEMMA AppendFresh ==
  ASSUME NEW d \in Seq(ToSubscriber), NEW p \in ToSubscriber, NEW h, NEW j \in DOMAIN d
  PROVE  Fresh(d \o <<p>>, h, j) <=> Fresh(d, h, j)
<1>1. PICK e : e = d \o <<p>>
  OBVIOUS
<1>2. /\ DOMAIN d = 1..Len(d) /\ Len(d) \in Nat
      /\ \A k \in DOMAIN d : e[k] = d[k]
  BY <1>1, Behind
<1>3. /\ \A k \in 1..(j - 1) : k \in DOMAIN d /\ e[k] = d[k]
      /\ e[j] = d[j]
  BY <1>2
<1>4. \A i : \A k \in 1..(j - 1) : /\ IsPublish(e, i, k) <=> IsPublish(d, i, k)
                                   /\ IsPubRel(e, i, k) <=> IsPubRel(d, i, k)
  BY <1>3 DEF IsPublish, IsPubRel
<1>5. \A l \in 1..(j - 1) : \A k \in (l + 1)..(j - 1) : k \in 1..(j - 1)
  BY <1>2
<1> QED BY <1>1, <1>3, <1>4, <1>5 DEF Fresh
LEMMA AppendOpen ==
  ASSUME NEW d \in Seq(ToSubscriber), NEW p \in ToSubscriber, NEW i
  PROVE  (\E l \in DOMAIN (d \o <<p>>) : IsPubRel(d \o <<p>>, i, l))
           <=> \/ \E l \in DOMAIN d : IsPubRel(d, i, l)
               \/ p.kind = "PUBREL" /\ p.id = i
<1>1. PICK e : e = d \o <<p>>
  OBVIOUS
<1>2. /\ \A k \in DOMAIN d : k \in DOMAIN e /\ e[k] = d[k]
      /\ \A k \in DOMAIN e : k \in DOMAIN d \/ k = Len(d) + 1
      /\ e[Len(d) + 1] = p /\ Len(d) + 1 \in DOMAIN e
  <2>1. /\ \A k \in DOMAIN d : k \in DOMAIN e /\ e[k] = d[k]
        /\ \A k \in DOMAIN e : k \in DOMAIN d \/ k = Len(d) + 1
        /\ e[Len(d) + 1] = p
        /\ Len(d) \in Nat /\ DOMAIN e = 1..(Len(d) + 1)
    BY <1>1, Behind
  <2> QED BY <2>1
<1> QED BY <1>1, <1>2 DEF IsPubRel

LEMMA AppendStray ==
  ASSUME NEW d \in Seq(ToSubscriber), NEW p \in ToSubscriber, NEW h, NEW r, NEW m,
         NEW j \in Stray(d \o <<p>>, h, r, m)
  PROVE  \/ /\ j \in DOMAIN d /\ Fresh(d, h, j) /\ d[j].msg = m /\ d[j].id \in Low
            /\ \/ r[d[j].id].msg # m
               \/ \E l \in (j + 1)..Len(d) : IsPubRel(d, d[j].id, l)
               \/ p.kind = "PUBREL" /\ p.id = d[j].id
         \/ /\ j = Len(d) + 1 /\ p.kind = "PUBLISH" /\ p.msg = m /\ p.id \in Low
            /\ r[p.id].msg # m
<1>1. PICK e : e = d \o <<p>>
  OBVIOUS
<1>2. /\ \A k \in DOMAIN d : k \in DOMAIN e /\ e[k] = d[k]
      /\ \A k \in DOMAIN e : k \in DOMAIN d \/ k = Len(d) + 1
      /\ e[Len(d) + 1] = p
      /\ Len(d) \in Nat /\ DOMAIN e = 1..(Len(d) + 1) /\ DOMAIN d = 1..Len(d)
      /\ e \in Seq(ToSubscriber)
  BY <1>1, Behind
<1>3. Len(e) = Len(d) + 1
  <2>1. Len(e) \in Nat /\ DOMAIN e = 1..Len(e)
    BY <1>2, LenProperties
  <2>2. Len(e) \in DOMAIN e \/ Len(e) = 0
    BY <2>1
  <2>3. Len(d) + 1 \in DOMAIN e
    BY <1>2
  <2> QED BY <1>2, <2>1, <2>2, <2>3
<1>4. /\ j \in DOMAIN e /\ Fresh(e, h, j) /\ e[j].msg = m /\ e[j].id \in Low
      /\ r[e[j].id].msg # m \/ \E l \in (j + 1)..Len(e) : IsPubRel(e, e[j].id, l)
  BY <1>1 DEF Stray
<1>5. CASE j \in DOMAIN d
  <2>1. Fresh(d, h, j) /\ e[j] = d[j] /\ d[j].msg = m
    BY <1>1, <1>2, <1>4, <1>5, AppendFresh
  <2>2. ASSUME NEW l \in (j + 1)..Len(e), IsPubRel(e, d[j].id, l)
        PROVE  \/ l \in (j + 1)..Len(d) /\ IsPubRel(d, d[j].id, l)
               \/ p.kind = "PUBREL" /\ p.id = d[j].id
    <3>1. l \in (j + 1)..Len(d) \/ l = Len(d) + 1
      BY <1>2, <1>3, <1>5, <2>2
    <3>2. CASE l \in (j + 1)..Len(d)
      <4>1. l \in DOMAIN d
        BY <1>2, <1>5, <3>2
      <4> QED BY <1>2, <2>2, <3>2, <4>1 DEF IsPubRel
    <3>3. CASE l = Len(d) + 1
      BY <1>2, <2>2, <3>3 DEF IsPubRel
    <3> QED BY <3>1, <3>2, <3>3
  <2> QED BY <1>4, <1>5, <2>1, <2>2
<1>6. CASE j = Len(d) + 1
  <2>1. e[j] = p /\ p.kind = "PUBLISH" /\ p.msg = m /\ p.id \in Low
    BY <1>2, <1>4, <1>6 DEF Fresh
  <2>2. (j + 1)..Len(e) = {}
    BY <1>2, <1>3, <1>6
  <2> QED BY <1>4, <1>6, <2>1, <2>2
<1> QED BY <1>2, <1>4, <1>5, <1>6

(* A PUBLISH goes out for a row that was free, or, with the table full, for *)
(* whatever row there is: one more delivery, and of that message alone.    *)
LEMMA CountPublish ==
  ASSUME NEW d \in Seq(ToSubscriber), NEW p \in ToSubscriber, p.kind = "PUBLISH",
         NEW h, NEW r, NEW r2, NEW d2, d2 = d \/ d2 = d \o <<p>>,
         \/ r2 = r
         \/ /\ r[p.id].msg = NoMsg /\ r2[p.id].msg = p.msg
            /\ \A k \in Low : k # p.id => r2[k] = r[k],
         NEW c \in Msg
  PROVE  Count(d2, h, r2, c) <= Count(d, h, r, c) + (IF c = p.msg THEN 1 ELSE 0)
<1>1. PICK i, m : i = p.id /\ m = p.msg
  OBVIOUS
<1>2. p \in ToSubscriber /\ p.kind = "PUBLISH" /\ p.id = i /\ p.msg = m /\ i \in Wire
  BY <1>1 DEF ToSubscriber
<1>3. d2 \in Seq(ToSubscriber)
  BY Behind
<1>4. \A k : (\E l \in DOMAIN d2 : IsPubRel(d2, k, l)) <=> \E l \in DOMAIN d : IsPubRel(d, k, l)
  <2>1. CASE d2 = d
    BY <2>1
  <2>2. CASE d2 = d \o <<p>>
    <3>1. "PUBLISH" # "PUBREL"
      OBVIOUS
    <3> QED BY <1>2, <2>2, <3>1, AppendOpen
  <2> QED BY <2>1, <2>2
<1>5. \/ r2 = r
      \/ /\ r[i].msg = NoMsg /\ r2[i].msg = m
         /\ \A k \in Low : k # i => r2[k] = r[k]
  BY <1>1
<1>6. c # NoMsg
  BY ExactlyOnceAssumption DEF Msg, NoMsg
<1>7. PICK o, o2, s, s2 : /\ o = Open(d, h, r, c) /\ o2 = Open(d2, h, r2, c)
                          /\ s = Stray(d, h, r, c) /\ s2 = Stray(d2, h, r2, c)
  OBVIOUS
<1>8. /\ IsFiniteSet(o) /\ Cardinality(o) \in Nat /\ Cardinality(o2) \in Nat
      /\ IsFiniteSet(s) /\ Cardinality(s) \in Nat /\ Cardinality(s2) \in Nat
  BY <1>3, <1>7, OpenStrayFinite
(* Old strays; the new packet is one only if its row was not taken for it. *)
<1>9. ASSUME NEW j \in s2, j \notin s
      PROVE  r2 = r /\ c = m /\ j = Len(d) + 1
  <2>1. CASE d2 = d
    <3>1. r2 # r /\ j \in DOMAIN d /\ Fresh(d, h, j) /\ d[j].msg = c /\ d[j].id \in Low
      BY <1>7, <1>9, <2>1 DEF Stray
    <3>2. r2[d[j].id].msg # c => r[d[j].id].msg # c
      BY <1>5, <1>6, <3>1
    <3> QED BY <1>7, <1>9, <2>1, <3>1, <3>2 DEF Stray
  <2>2. CASE d2 = d \o <<p>>
    <3>1. \/ /\ j \in DOMAIN d /\ Fresh(d, h, j) /\ d[j].msg = c /\ d[j].id \in Low
             /\ r2[d[j].id].msg # c \/ \E l \in (j + 1)..Len(d) : IsPubRel(d, d[j].id, l)
          \/ j = Len(d) + 1 /\ m = c /\ r2[i].msg # c /\ i \in Low
      <4>1. "PUBLISH" # "PUBREL"
        OBVIOUS
      <4> QED BY <1>2, <1>7, <1>9, <2>2, <4>1, AppendStray
    <3>2. CASE /\ j \in DOMAIN d /\ Fresh(d, h, j) /\ d[j].msg = c /\ d[j].id \in Low
               /\ r2[d[j].id].msg # c \/ \E l \in (j + 1)..Len(d) : IsPubRel(d, d[j].id, l)
      <4>1. r2[d[j].id].msg # c => r[d[j].id].msg # c
        BY <1>5, <1>6, <3>2
      <4>2. r[d[j].id].msg # c \/ \E l \in (j + 1)..Len(d) : IsPubRel(d, d[j].id, l)
        BY <3>2, <4>1
      <4>3. j \in Stray(d, h, r, c)
        BY <3>2, <4>2, Zenon DEF Stray
      <4> QED BY <1>7, <1>9, <4>3
    <3> QED BY <1>5, <3>1, <3>2
  <2> QED BY <2>1, <2>2
<1>10. ASSUME NEW k \in o2, k \notin o
       PROVE  r2 # r /\ c = m /\ k = i
  BY <1>4, <1>5, <1>7, <1>10 DEF Open
<1>11. CASE r2 = r
  <2>1. Cardinality(o2) <= Cardinality(o)
    BY <1>8, <1>10, <1>11, CountSub
  <2>2. CASE c = m
    <3>1. s2 \subseteq s \cup {Len(d) + 1}
      BY <1>9
    <3>2. Cardinality(s2) <= Cardinality(s) + 1
      BY <1>8, <3>1, CountAdd
    <3> QED BY <1>1, <1>7, <1>8, <2>1, <2>2, <3>2 DEF Count
  <2>3. CASE c # m
    <3>1. s2 \subseteq s
      BY <1>9, <2>3
    <3>2. Cardinality(s2) <= Cardinality(s)
      BY <1>8, <3>1, CountSub
    <3> QED BY <1>1, <1>7, <1>8, <2>1, <2>3, <3>2 DEF Count
  <2> QED BY <2>2, <2>3
<1>12. CASE r2 # r
  <2>1. Cardinality(s2) <= Cardinality(s)
    BY <1>8, <1>9, <1>12, CountSub
  <2>2. CASE c = m
    <3>1. o2 \subseteq o \cup {i}
      BY <1>10
    <3>2. Cardinality(o2) <= Cardinality(o) + 1
      BY <1>8, <3>1, CountAdd
    <3> QED BY <1>1, <1>7, <1>8, <2>1, <2>2, <3>2 DEF Count
  <2>3. CASE c # m
    <3>1. o2 \subseteq o
      BY <1>10, <2>3
    <3>2. Cardinality(o2) <= Cardinality(o)
      BY <1>8, <3>1, CountSub
    <3> QED BY <1>1, <1>7, <1>8, <2>1, <2>3, <3>2 DEF Count
  <2> QED BY <2>2, <2>3
<1> QED BY <1>11, <1>12
(* A row is dropped and its identifier released: of the fresh PUBLISHes of *)
(* the row at most one has no PUBREL behind it, and it takes the place of  *)
(* the row.                                                                *)
LEMMA CountRelease ==
  ASSUME NEW d \in Seq(ToSubscriber), NEW i \in Low, NEW h, NEW r, NEW r2,
         NEW p \in ToSubscriber, p.kind = "PUBREL", p.id = i \/ p.id \notin Low,
         NEW d2, d2 = d \/ d2 = d \o <<p>>,
         r2[i].msg = NoMsg, \A k \in Low : k # i => r2[k] = r[k],
         NEW c \in Msg
  PROVE  Count(d2, h, r2, c) <= Count(d, h, r, c)
<1>1. d2 \in Seq(ToSubscriber)
  BY Behind
<1>2. DOMAIN d = 1..Len(d) /\ Len(d) \in Nat
  BY LenProperties
<1>3. c # NoMsg
  BY ExactlyOnceAssumption DEF Msg, NoMsg
<1>4. PICK o, o2, s, s2 : /\ o = Open(d, h, r, c) /\ o2 = Open(d2, h, r2, c)
                          /\ s = Stray(d, h, r, c) /\ s2 = Stray(d2, h, r2, c)
  OBVIOUS
<1>5. /\ IsFiniteSet(o) /\ Cardinality(o) \in Nat /\ Cardinality(o2) \in Nat
      /\ IsFiniteSet(s) /\ Cardinality(s) \in Nat /\ Cardinality(s2) \in Nat
  BY <1>1, <1>4, OpenStrayFinite
<1>6. \A k \in Low : k # i => ((\E l \in DOMAIN d2 : IsPubRel(d2, k, l))
                         <=> \E l \in DOMAIN d : IsPubRel(d, k, l))
  <2>1. CASE d2 = d
    BY <2>1
  <2>2. CASE d2 = d \o <<p>>
    BY <2>2, AppendOpen
  <2> QED BY <2>1, <2>2
<1>7. o2 \subseteq o \ {i}
  BY <1>3, <1>4, <1>6 DEF Open
<1>8. ASSUME NEW j \in s2
      PROVE  /\ j \in DOMAIN d /\ Fresh(d, h, j) /\ d[j].msg = c /\ d[j].id \in Low
             /\ \/ r2[d[j].id].msg # c
                \/ \E l \in (j + 1)..Len(d) : IsPubRel(d, d[j].id, l)
                \/ d[j].id = i
  <2>1. CASE d2 = d
    BY <1>4, <1>8, <2>1 DEF Stray
  <2>2. CASE d2 = d \o <<p>>
    <3>1. "PUBLISH" # "PUBREL"
      OBVIOUS
    <3> QED BY <1>4, <1>8, <2>2, <3>1, AppendStray
  <2> QED BY <2>1, <2>2
<1>9. ASSUME NEW j \in s2, j \notin s
      PROVE  /\ j \in DOMAIN d /\ Fresh(d, h, j) /\ d[j].msg = c
             /\ d[j].id = i /\ r[i].msg = c
             /\ ~ \E l \in (j + 1)..Len(d) : IsPubRel(d, i, l)
  <2>1. j \in DOMAIN d /\ Fresh(d, h, j) /\ d[j].msg = c /\ d[j].id \in Low
    BY <1>8, <1>9
  <2>2. /\ r[d[j].id].msg = c
        /\ ~ \E l \in (j + 1)..Len(d) : IsPubRel(d, d[j].id, l)
    BY <1>4, <1>9, <2>1 DEF Stray
  <2>3. d[j].id = i
    <3>1. d[j].id # i => r2[d[j].id].msg = c
      BY <2>1, <2>2
    <3> QED BY <1>8, <1>9, <2>2, <3>1
  <2> QED BY <2>1, <2>2, <2>3
(* Two of them would have a PUBREL between them.                           *)
<1>10. ASSUME NEW j \in s2, j \notin s, NEW k \in s2, k \notin s, j < k
       PROVE  FALSE
  <2>1. /\ j \in DOMAIN d /\ d[j].id = i /\ IsPublish(d, i, j)
        /\ ~ \E l \in (j + 1)..Len(d) : IsPubRel(d, i, l)
    BY <1>9, <1>10 DEF Fresh, IsPublish
  <2>2. /\ k \in DOMAIN d /\ d[k].id = i
        /\ \/ \A l \in 1..(k - 1) : ~IsPublish(d, i, l)
           \/ \E l \in 1..(k - 1) :
                IsPubRel(d, i, l) /\ \A u \in (l + 1)..(k - 1) : ~IsPublish(d, i, u)
    BY <1>9, <1>10 DEF Fresh
  <2>3. j \in Nat /\ k \in Nat /\ j >= 1 /\ k <= Len(d)
    BY <1>2, <2>1, <2>2
  <2>4. j \in 1..(k - 1)
    BY <1>10, <2>3
  <2>5. PICK l \in 1..(k - 1) :
          IsPubRel(d, i, l) /\ \A u \in (l + 1)..(k - 1) : ~IsPublish(d, i, u)
    BY <2>1, <2>2, <2>4
  <2>6. ~(l \in (j + 1)..Len(d)) /\ ~(j \in (l + 1)..(k - 1))
    BY <2>1, <2>5
  <2>7. l = j
    BY <1>2, <1>10, <2>3, <2>6
  <2> QED BY <2>1, <2>5, <2>7 DEF IsPublish, IsPubRel
<1>11. CASE s2 \subseteq s
  <2>1. Cardinality(s2) <= Cardinality(s)
    BY <1>5, <1>11, CountSub
  <2>2. Cardinality(o2) <= Cardinality(o)
    BY <1>5, <1>7, CountSub
  <2> QED BY <1>4, <1>5, <2>1, <2>2 DEF Count
<1>12. ASSUME NEW j \in s2, j \notin s
       PROVE  Count(d2, h, r2, c) <= Count(d, h, r, c)
  <2>1. j \in DOMAIN d /\ Fresh(d, h, j) /\ d[j].id = i /\ r[i].msg = c
    BY <1>9, <1>12
  <2>2. s2 \subseteq s \cup {j}
    <3>1. ASSUME NEW k \in s2, k \notin s
          PROVE  k = j
      <4>1. k \in Nat /\ j \in Nat
        BY <1>2, <1>9, <1>12, <3>1
      <4>2. ~(j < k) /\ ~(k < j)
        BY <1>10, <1>12, <3>1
      <4> QED BY <4>1, <4>2
    <3> QED BY <3>1
  <2>3. Cardinality(s2) <= Cardinality(s) + 1
    BY <1>5, <2>2, CountAdd
  <2>4. i \in o
    <3>1. i \notin h \/ \E l \in DOMAIN d : IsPubRel(d, i, l)
      <4>1. i \notin h \/ \E l \in 1..(j - 1) : IsPubRel(d, i, l)
        BY <2>1 DEF Fresh
      <4>2. \A l \in 1..(j - 1) : l \in DOMAIN d
        BY <1>2, <2>1
      <4> QED BY <4>1, <4>2
    <3> QED BY <1>4, <2>1, <3>1 DEF Open
  <2>5. Cardinality(o2) + 1 <= Cardinality(o)
    BY <1>5, <1>7, <2>4, CountDrop
  <2> QED BY <1>4, <1>5, <2>3, <2>5 DEF Count
<1> QED BY <1>11, <1>12

(* What is sent again on an empty wire is about rows.                      *)
LEMMA CountResent ==
  ASSUME TypeOK, NEW c
  PROVE  Count(ResentPackets, holding, Held, c) <= Count(<<>>, holding, Held, c)
<1>1. PICK d : d = ResentPackets
  OBVIOUS
<1>2. /\ d \in Seq(ToSubscriber)
      /\ \A j \in DOMAIN d : d[j].kind = "PUBLISH"
      /\ \A j \in DOMAIN d : d[j].id \in Low => d[j].msg = Held[d[j].id].msg
  BY <1>1, ResentIs
<1>3. DOMAIN d = 1..Len(d) /\ Len(d) \in Nat
  BY <1>2, LenProperties
<1>4. \A i : \A l \in DOMAIN d : ~IsPubRel(d, i, l)
  <2>1. \A j \in DOMAIN d : d[j].kind = "PUBLISH"
    BY <1>2
  <2> QED BY <2>1 DEF IsPubRel
<1>5. Open(d, holding, Held, c) \subseteq Open(<<>>, holding, Held, c)
  BY <1>4 DEF Open
<1>6. Stray(d, holding, Held, c) = {}
  <2>1. ASSUME NEW j \in Stray(d, holding, Held, c)
        PROVE  FALSE
    <3>1. /\ j \in DOMAIN d /\ d[j].msg = c
          /\ d[j].id \in Low
          /\ Held[d[j].id].msg # c \/ \E l \in (j + 1)..Len(d) : IsPubRel(d, d[j].id, l)
      BY DEF Stray
    <3>2. Held[d[j].id].msg = c
      BY <1>2, <3>1
    <3>3. PICK l \in (j + 1)..Len(d) : IsPubRel(d, d[j].id, l)
      BY <3>1, <3>2
    <3>4. l \in DOMAIN d
      BY <1>3, <3>1, <3>3
    <3> QED BY <1>4, <3>3, <3>4
  <2> QED BY <2>1
<1>7. <<>> \in Seq(ToSubscriber)
  BY EmptySeq
<1>8. PICK o, o2, s : /\ o = Open(<<>>, holding, Held, c) /\ o2 = Open(d, holding, Held, c)
                      /\ s = Stray(<<>>, holding, Held, c)
  OBVIOUS
<1>9. /\ IsFiniteSet(o) /\ Cardinality(o) \in Nat /\ Cardinality(o2) \in Nat
      /\ Cardinality(s) \in Nat
  BY <1>2, <1>7, <1>8, OpenStrayFinite
<1>10. Cardinality(o2) <= Cardinality(o)
  BY <1>5, <1>8, <1>9, CountSub
<1>11. Cardinality({}) = 0
  BY FS_EmptySet
<1>12. Count(d, holding, Held, c) = Cardinality(o2) + 0
  BY <1>6, <1>8, <1>11 DEF Count
<1>13. Count(<<>>, holding, Held, c) = Cardinality(o) + Cardinality(s)
  BY <1>8 DEF Count
<1> QED BY <1>1, <1>9, <1>10, <1>12, <1>13

(* A wire that is cut brings nothing new.                                  *)
LEMMA CountCut ==
  ASSUME NEW d \in Seq(ToSubscriber), NEW h, NEW r, NEW c
  PROVE  Count(<<>>, h, r, c) <= Count(d, h, r, c)
<1>1. DOMAIN <<>> = {}
  OBVIOUS
<1>2. Open(<<>>, h, r, c) \subseteq Open(d, h, r, c) /\ Stray(<<>>, h, r, c) \subseteq Stray(d, h, r, c)
  BY <1>1 DEF Open, Stray
<1>3. PICK o, o2, s, s2 : /\ o = Open(d, h, r, c) /\ o2 = Open(<<>>, h, r, c)
                          /\ s = Stray(d, h, r, c) /\ s2 = Stray(<<>>, h, r, c)
  OBVIOUS
<1>4. /\ IsFiniteSet(o) /\ Cardinality(o) \in Nat /\ Cardinality(o2) \in Nat
      /\ IsFiniteSet(s) /\ Cardinality(s) \in Nat /\ Cardinality(s2) \in Nat
  <2>1. <<>> \in Seq(ToSubscriber)
    BY EmptySeq
  <2> QED BY <1>3, <2>1, OpenStrayFinite
<1>5. Cardinality(o2) <= Cardinality(o) /\ Cardinality(s2) <= Cardinality(s)
  BY <1>2, <1>3, <1>4, CountSub
<1> QED BY <1>3, <1>4, <1>5 DEF Count
(* The packet in front is taken: what was fresh behind it is fresh still,  *)
(* and nothing else is.                                                    *)
HoldingAfter(h, p) == IF p.kind = "PUBLISH" THEN h \cup {p.id} ELSE h \ {p.id}

LEMMA TailFresh ==
  ASSUME NEW d \in Seq(ToSubscriber), d # <<>>, NEW h,
         NEW j \in DOMAIN Tail(d), Fresh(Tail(d), HoldingAfter(h, d[1]), j)
  PROVE  Fresh(d, h, j + 1)
<1>1. PICK e, i, n : e = Tail(d) /\ i = e[j].id /\ n = j + 1
  OBVIOUS
<1>2. /\ DOMAIN d = 1..Len(d) /\ Len(d) \in Nat \ {0} /\ DOMAIN e = 1..(Len(d) - 1)
      /\ \A k \in DOMAIN e : k + 1 \in DOMAIN d /\ e[k] = d[k + 1]
      /\ \A k \in DOMAIN d : k # 1 => k - 1 \in DOMAIN e /\ e[k - 1] = d[k]
  BY <1>1, Ahead
<1>3. /\ j \in 1..(Len(d) - 1) /\ j \in Nat /\ n \in DOMAIN d /\ d[n] = e[j] /\ d[n].id = i
      /\ n - 1 = j
  BY <1>1, <1>2
<1>4. \A k \in 2..j : k \in DOMAIN d /\ k # 1 /\ k - 1 \in 1..(j - 1) /\ e[k - 1] = d[k]
  <2>1. Len(d) \in Nat /\ j \in Nat /\ j <= Len(d) - 1
    BY <1>2, <1>3
  <2>2. \A k \in 2..j : k \in 1..Len(d) /\ k # 1 /\ k - 1 \in 1..(j - 1)
    BY <2>1
  <2> QED BY <1>2, <2>2
<1>5. /\ e[j].kind = "PUBLISH"
      /\ \/ i \notin HoldingAfter(h, d[1]) /\ \A k \in 1..(j - 1) : ~IsPublish(e, i, k)
         \/ \E l \in 1..(j - 1) :
              IsPubRel(e, i, l) /\ \A k \in (l + 1)..(j - 1) : ~IsPublish(e, i, k)
  BY <1>1 DEF Fresh
<1>6. CASE i \notin HoldingAfter(h, d[1]) /\ \A k \in 1..(j - 1) : ~IsPublish(e, i, k)
  <2>1. \A k \in 2..j : ~IsPublish(d, i, k)
    BY <1>4, <1>6 DEF IsPublish
  <2>2. CASE IsPubRel(d, i, 1)
    <3>1. 1 \in 1..j /\ 1 + 1 = 2
      BY <1>3
    <3>2. \E l \in 1..(n - 1) : IsPubRel(d, i, l) /\ \A k \in (l + 1)..(n - 1) : ~IsPublish(d, i, k)
      BY <1>3, <2>1, <2>2, <3>1
    <3> QED BY <1>1, <1>3, <1>5, <3>2 DEF Fresh
  <2>3. CASE ~IsPubRel(d, i, 1)
    <3>1. d[1].kind = "PUBLISH" \/ d[1].kind = "PUBREL"
      <4>1. d[1] \in ToSubscriber
        BY <1>2, ElementOfSeq
      <4> QED BY <4>1 DEF ToSubscriber
    <3>2. i \notin h /\ ~IsPublish(d, i, 1)
      BY <1>6, <2>3, <3>1 DEF HoldingAfter, IsPublish, IsPubRel
    <3>3. \A k \in 1..j : k = 1 \/ k \in 2..j
      BY <1>3
    <3>4. \A k \in 1..(n - 1) : ~IsPublish(d, i, k)
      BY <1>3, <2>1, <3>2, <3>3
    <3> QED BY <1>1, <1>3, <1>5, <3>2, <3>4 DEF Fresh
  <2> QED BY <2>2, <2>3
<1>7. ASSUME NEW l \in 1..(j - 1), IsPubRel(e, i, l),
             \A k \in (l + 1)..(j - 1) : ~IsPublish(e, i, k)
      PROVE  Fresh(d, h, n)
  <2>1. PICK u : u = l + 1
    OBVIOUS
  <2>2. u \in 2..j /\ u - 1 = l /\ l \in DOMAIN e /\ e[l] = d[u] /\ u \in 1..(n - 1)
    BY <1>1, <1>2, <1>3, <2>1
  <2>3. IsPubRel(d, i, u)
    BY <1>7, <2>2 DEF IsPubRel
  <2>4. ASSUME NEW k \in (u + 1)..(n - 1)
        PROVE  ~IsPublish(d, i, k)
    <3>1. k \in 2..j /\ k - 1 \in (l + 1)..(j - 1)
      BY <1>3, <2>1, <2>2
    <3> QED BY <1>4, <1>7, <3>1 DEF IsPublish
  <2> QED BY <1>3, <1>5, <2>2, <2>3, <2>4 DEF Fresh
<1> QED BY <1>1, <1>5, <1>6, <1>7

LEMMA CountTaken ==
  ASSUME NEW d \in Seq(ToSubscriber), d # <<>>, NEW h, NEW r, NEW c,
         NEW delivery \in BOOLEAN,
         delivery <=> /\ d[1].kind = "PUBLISH" /\ d[1].id \notin h /\ d[1].msg = c
                      /\ d[1].id \in Low
  PROVE  Count(Tail(d), HoldingAfter(h, d[1]), r, c) + (IF delivery THEN 1 ELSE 0)
           <= Count(d, h, r, c)
<1>1. PICK e, h2, i : e = Tail(d) /\ h2 = HoldingAfter(h, d[1]) /\ i = d[1].id
  OBVIOUS
<1>2. /\ DOMAIN d = 1..Len(d) /\ Len(d) \in Nat \ {0} /\ DOMAIN e = 1..(Len(d) - 1)
      /\ \A k \in DOMAIN e : k + 1 \in DOMAIN d /\ e[k] = d[k + 1] /\ k + 1 # 1
      /\ \A k \in DOMAIN d : k # 1 => k - 1 \in DOMAIN e /\ e[k - 1] = d[k]
      /\ e \in Seq(ToSubscriber) /\ Len(e) = Len(d) - 1
      /\ \A k \in DOMAIN e : k \in Nat
  BY <1>1, Ahead
<1>3. d[1] \in ToSubscriber /\ i \in Wire /\ (d[1].kind = "PUBLISH" \/ d[1].kind = "PUBREL")
  <2>1. d[1] \in ToSubscriber
    BY <1>2, ElementOfSeq
  <2> QED BY <1>1, <2>1 DEF ToSubscriber
<1>4. PICK o, o2, s, s2 : /\ o = Open(d, h, r, c) /\ o2 = Open(e, h2, r, c)
                          /\ s = Stray(d, h, r, c) /\ s2 = Stray(e, h2, r, c)
  OBVIOUS
<1>5. /\ IsFiniteSet(o) /\ Cardinality(o) \in Nat /\ Cardinality(o2) \in Nat
      /\ IsFiniteSet(s) /\ Cardinality(s) \in Nat /\ Cardinality(s2) \in Nat
      /\ s2 \subseteq Nat
  <2>1. s2 \subseteq DOMAIN e
    BY <1>2, <1>4, OpenStrayFinite
  <2> QED BY <1>2, <1>4, <2>1, OpenStrayFinite
<1>6. \A k : (\E l \in DOMAIN e : IsPubRel(e, k, l)) => \E l \in DOMAIN d : l # 1 /\ IsPubRel(d, k, l)
  BY <1>2 DEF IsPubRel
<1>7. o2 \subseteq o
  <2>1. ASSUME NEW k \in o2
        PROVE  k \in o
    <3>1. /\ k \in Low /\ r[k].msg = c
          /\ k \notin h2 \/ \E l \in DOMAIN e : IsPubRel(e, k, l)
      BY <1>4, <2>1 DEF Open
    <3>2. CASE k \notin h2 /\ k \in h
      <4>1. IsPubRel(d, k, 1)
        BY <1>1, <1>3, <3>2 DEF HoldingAfter, IsPubRel
      <4>2. 1 \in DOMAIN d
        BY <1>2
      <4> QED BY <1>4, <3>1, <4>1, <4>2 DEF Open
    <3>3. CASE k \notin h
      BY <1>4, <3>1, <3>3 DEF Open
    <3>4. CASE \E l \in DOMAIN e : IsPubRel(e, k, l)
      BY <1>4, <1>6, <3>1, <3>4 DEF Open
    <3> QED BY <3>1, <3>2, <3>3, <3>4
  <2> QED BY <2>1
<1>8. ASSUME NEW j \in s2
      PROVE  j + 1 \in s /\ j + 1 # 1
  <2>1. /\ j \in DOMAIN e /\ Fresh(e, h2, j) /\ e[j].msg = c /\ e[j].id \in Low
        /\ r[e[j].id].msg # c \/ \E l \in (j + 1)..Len(e) : IsPubRel(e, e[j].id, l)
    BY <1>4, <1>8 DEF Stray
  <2>2. PICK n : n = j + 1
    OBVIOUS
  <2>3. Fresh(d, h, n)
    BY <1>1, <2>1, <2>2, TailFresh
  <2>4. n \in DOMAIN d /\ d[n] = e[j] /\ j \in Nat /\ n # 1
    BY <1>2, <2>1, <2>2
  <2>5. ASSUME NEW l \in (j + 1)..Len(e), IsPubRel(e, e[j].id, l)
        PROVE  \E u \in (n + 1)..Len(d) : IsPubRel(d, d[n].id, u)
    <3>1. l \in DOMAIN e /\ l + 1 \in (n + 1)..Len(d)
      BY <1>2, <2>2, <2>4
    <3>2. IsPubRel(d, d[n].id, l + 1)
      BY <1>2, <2>4, <2>5, <3>1 DEF IsPubRel
    <3> QED BY <3>1, <3>2
  <2> QED BY <1>4, <2>1, <2>2, <2>3, <2>4, <2>5 DEF Stray
<1>9. Cardinality(o2) <= Cardinality(o)
  BY <1>5, <1>7, CountSub
<1>10. Cardinality(s2) <= Cardinality(s)
  BY <1>5, <1>8, CountShift
<1>11. CASE ~delivery
  BY <1>1, <1>4, <1>5, <1>9, <1>10, <1>11 DEF Count
<1>12. CASE delivery
  <2>1. d[1].kind = "PUBLISH" /\ i \notin h /\ i \in Low /\ d[1].msg = c /\ h2 = h \cup {i}
    BY <1>1, <1>12 DEF HoldingAfter
  <2>2. Fresh(d, h, 1) /\ 1 \in DOMAIN d
    <3>1. 1..(1 - 1) = {}
      OBVIOUS
    <3> QED BY <1>1, <1>2, <2>1, <3>1 DEF Fresh
  <2>3. CASE 1 \in s
    <3>1. Cardinality(s2) + 1 <= Cardinality(s)
      BY <1>5, <1>8, <2>3, CountShiftDrop
    <3> QED BY <1>1, <1>4, <1>5, <1>9, <1>12, <3>1 DEF Count
  <2>4. CASE 1 \notin s
    <3>1. r[i].msg = c /\ ~ \E l \in (1 + 1)..Len(d) : IsPubRel(d, i, l)
      BY <1>1, <1>4, <2>1, <2>2, <2>4 DEF Stray
    <3>2. i \in o
      BY <1>3, <1>4, <2>1, <3>1 DEF Open
    <3>3. i \notin o2
      <4>1. \A l \in DOMAIN d : l # 1 => l \in (1 + 1)..Len(d)
        BY <1>2
      <4>2. ~ \E l \in DOMAIN e : IsPubRel(e, i, l)
        BY <1>6, <3>1, <4>1
      <4> QED BY <1>4, <2>1, <4>2 DEF Open
    <3>4. Cardinality(o2) + 1 <= Cardinality(o)
      BY <1>5, <1>7, <3>2, <3>3, CountDrop
    <3> QED BY <1>1, <1>4, <1>5, <1>10, <1>12, <3>4 DEF Count
  <2> QED BY <2>3, <2>4
<1> QED BY <1>11, <1>12
----------------------------------------------------------------------------
(* What is delivered and may still be delivered was taken.                 *)

LEMMA CountIsNumber ==
  ASSUME NEW d \in Seq(ToSubscriber), NEW h, NEW r, NEW m
  PROVE  Count(d, h, r, m) \in Nat
<1>1. PICK o, s : o = Cardinality(Open(d, h, r, m)) /\ s = Cardinality(Stray(d, h, r, m))
  OBVIOUS
<1>2. o \in Nat /\ s \in Nat
  BY <1>1, OpenStrayFinite
<1> QED BY <1>1, <1>2 DEF Count

LEMMA InitBounded == Init => Bounded
<1> SUFFICES ASSUME Init, NEW m \in Msg
             PROVE  delivered[m] + Count(down, holding, Held, m) <= accepted[m]
  BY DEF Bounded
<1>1. Open(down, holding, Held, m) = {}
  <2>1. m # NoMsg
    BY ExactlyOnceAssumption DEF Msg, NoMsg
  <2>2. \A w \in Low : Held[w].msg = NoMsg
    BY LowIs DEF Init, Held, FreshRow
  <2> QED BY <2>1, <2>2 DEF Open
<1>2. Stray(down, holding, Held, m) = {}
  <2>1. DOMAIN <<>> = {}
    OBVIOUS
  <2> QED BY <2>1 DEF Init, Stray
<1>3. Cardinality({}) = 0
  BY FS_EmptySet
<1>4. delivered[m] = 0 /\ accepted[m] = 0
  BY DEF Init
<1> QED BY <1>1, <1>2, <1>3, <1>4 DEF Count

(* It is enough that what was delivered and is to come grows no faster     *)
(* than what was taken, for a message that was given no row from Base on.  *)
LEMMA BoundedStep ==
  ASSUME TypeOK, TypeOK', Bounded, given \subseteq given',
         \A m \in Msg : GivenHigh(m)' \/
           delivered'[m] + Count(down', holding', Held', m) + accepted[m]
             <= delivered[m] + Count(down, holding, Held, m) + accepted'[m]
  PROVE  Bounded'
<1> SUFFICES ASSUME NEW m \in Msg, ~GivenHigh(m)'
             PROVE  delivered'[m] + Count(down', holding', Held', m) <= accepted'[m]
  BY DEF Bounded
<1>1. PICK a, d, k, a2, d2, k2 :
        /\ a = accepted[m] /\ d = delivered[m] /\ k = Count(down, holding, Held, m)
        /\ a2 = accepted'[m] /\ d2 = delivered'[m] /\ k2 = Count(down', holding', Held', m)
  OBVIOUS
<1>2. a \in Nat /\ d \in Nat /\ k \in Nat
  <2>1. down \in Seq(ToSubscriber) /\ accepted \in [Msg -> Nat] /\ delivered \in [Msg -> Nat]
    BY DEF TypeOK
  <2> QED BY <1>1, <2>1, CountIsNumber
<1>3. a2 \in Nat /\ d2 \in Nat /\ k2 \in Nat
  <2>1. down' \in Seq(ToSubscriber) /\ accepted' \in [Msg -> Nat] /\ delivered' \in [Msg -> Nat]
    BY DEF TypeOK
  <2> QED BY <1>1, <2>1, CountIsNumber
<1>4. ~GivenHigh(m)
  BY DEF GivenHigh
<1>5. d + k <= a
  BY <1>1, <1>4 DEF Bounded
<1>6. d2 + k2 + a <= d + k + a2
  BY <1>1
<1> QED BY <1>1, <1>2, <1>3, <1>5, <1>6

LEMMA GetPublishBounded ==
  ASSUME Typed, Typed', Bounded, GetPublish
  PROVE  Bounded'
<1>1. UNCHANGED <<holding, delivered>> /\ flight = "PUBLISH"
  BY DEF GetPublish, subscriber
<1>2. PICK i, m, w, p : /\ i = NextRow /\ m = sent /\ w = MLEncode(i)
                        /\ p = ToPublish(i, m)
  OBVIOUS
<1>3. i \in Id /\ m \in Msg /\ w \in Wire
  BY <1>1, <1>2, NextRowIs, Numbers, LowIs DEF Typed, Wires
<1>4. p \in ToSubscriber /\ p.kind = "PUBLISH" /\ p.id = w /\ p.msg = m
  BY <1>2, <1>3 DEF ToPublish, ToSubscriber
<1>5. accepted' = [accepted EXCEPT ![m] = @ + 1] /\ given' = given \cup {<<m, w>>}
  BY <1>2 DEF GetPublish
<1>6. down' = down \/ down' = down \o <<p>>
  BY <1>2 DEF GetPublish, WriteTo
<1>7. w \notin Low => GivenHigh(m)'
  <2>1. w \notin Low => w.msb.high
    BY <1>3 DEF Low
  <2> QED BY <1>3, <1>5, <2>1 DEF GivenHigh
<1>8. \/ Held' = Held
      \/ /\ Held[w].msg = NoMsg /\ Held'[w].msg = m
         /\ \A k \in Low : k # w => Held'[k] = Held[k]
  <2>1. CASE Free = {}
    BY <2>1, HeldSame DEF GetPublish
  <2>2. CASE Free # {}
    <3>1. PICK r : r = [msg |-> m, payload |-> "live"]
      OBVIOUS
    <3>2. rows' = [rows EXCEPT ![i] = r] /\ r.msg = m /\ rows \in [Id -> Rows]
      BY <1>2, <2>2, <3>1 DEF GetPublish, Typed, TypeOK
    <3>3. i \in Free /\ rows[i].msg = NoMsg
      <4>1. i \in Free
        BY <1>2, <2>2, NextRowIs DEF Typed
      <4> QED BY <4>1 DEF Free
    <3>4. CASE i >= Base
      BY <1>3, <3>2, <3>4, HeldChanges
    <3>5. CASE ~(i >= Base)
      <4>1. i < Base
        BY <1>3, <3>5, BaseAssumption DEF Id
      <4>2. Held'[w] = r /\ \A k \in Low : k # w => Held'[k] = Held[k]
        BY <1>2, <1>3, <3>2, <4>1, HeldChanges
      <4>3. Held[w] = rows[i]
        BY <1>2, <1>3, <4>1, HeldIs DEF Typed
      <4> QED BY <3>2, <3>3, <4>2, <4>3
    <3> QED BY <3>4, <3>5
  <2> QED BY <2>1, <2>2
<1>9. ASSUME NEW c \in Msg
      PROVE  delivered'[c] + Count(down', holding', Held', c) + accepted[c]
               <= delivered[c] + Count(down, holding, Held, c) + accepted'[c]
  <2>1. down \in Seq(ToSubscriber) /\ down' \in Seq(ToSubscriber)
        /\ accepted \in [Msg -> Nat] /\ delivered \in [Msg -> Nat]
    BY DEF Typed, TypeOK
  <2>2. PICK h, r, r2, d, d2 : h = holding /\ r = Held /\ r2 = Held' /\ d = down /\ d2 = down'
    OBVIOUS
  <2>3. PICK k, k2 : k = Count(d, h, r, c) /\ k2 = Count(d2, h, r2, c)
    OBVIOUS
  <2>4. k2 <= k + (IF c = m THEN 1 ELSE 0)
    <3>1. \/ r2 = r
          \/ /\ r[p.id].msg = NoMsg /\ r2[p.id].msg = p.msg
             /\ \A l \in Low : l # p.id => r2[l] = r[l]
      BY <1>4, <1>8, <2>2
    <3>2. d \in Seq(ToSubscriber) /\ (d2 = d \/ d2 = d \o <<p>>)
      BY <1>6, <2>1, <2>2
    <3>3. Count(d2, h, r2, c) <= Count(d, h, r, c) + (IF c = m THEN 1 ELSE 0)
      <4>1. Count(d2, h, r2, c) <= Count(d, h, r, c) + (IF c = p.msg THEN 1 ELSE 0)
        BY <1>4, <3>1, <3>2, CountPublish
      <4> QED BY <1>4, <4>1
    <3> QED BY <2>3, <3>3
  <2>5. k \in Nat /\ k2 \in Nat
    BY <2>1, <2>2, <2>3, CountIsNumber
  <2>6. accepted'[c] = accepted[c] + (IF c = m THEN 1 ELSE 0)
        /\ accepted[c] \in Nat /\ delivered[c] \in Nat
    BY <1>5, <2>1
  <2>7. delivered'[c] = delivered[c] /\ k2 = Count(down', holding', Held', c)
        /\ k = Count(down, holding, Held, c)
    BY <1>1, <2>2, <2>3
  <2> QED BY <2>4, <2>5, <2>6, <2>7
<1>10. given \subseteq given'
  BY <1>5
<1> QED BY <1>9, <1>10, BoundedStep DEF Typed

(* Steps that deliver and take nothing.                                    *)
LEMMA NoMoreBounded ==
  ASSUME Typed, Typed', Bounded, UNCHANGED <<delivered, accepted, given>>,
         \A c \in Msg : Count(down', holding', Held', c) <= Count(down, holding, Held, c)
  PROVE  Bounded'
<1>1. ASSUME NEW c \in Msg
      PROVE  delivered'[c] + Count(down', holding', Held', c) + accepted[c]
               <= delivered[c] + Count(down, holding, Held, c) + accepted'[c]
  <2>1. /\ down \in Seq(ToSubscriber) /\ down' \in Seq(ToSubscriber)
        /\ accepted \in [Msg -> Nat] /\ delivered \in [Msg -> Nat]
    BY DEF Typed, TypeOK
  <2>2. PICK k, k2 : k = Count(down, holding, Held, c) /\ k2 = Count(down', holding', Held', c)
    OBVIOUS
  <2>3. k \in Nat /\ k2 \in Nat /\ k2 <= k
    BY <2>1, <2>2, CountIsNumber
  <2>4. accepted[c] \in Nat /\ delivered[c] \in Nat
    BY <2>1
  <2> QED BY <2>2, <2>3, <2>4
<1> QED BY <1>1, BoundedStep DEF Typed

LEMMA GetBounded ==
  ASSUME Typed, Typed', Bounded, NEW n \in Conn, Get(n)
  PROVE  Bounded'
<1>1. UNCHANGED <<holding, delivered, accepted, given>> /\ inbox[n] # <<>>
  BY DEF Get, GetConnect, GetPubRec, subscriber
<1>2. down \in Seq(ToSubscriber)
  BY DEF Typed, TypeOK
<1>3. CASE GetConnect(n)
  <2>1. WriteTo(n, ResentPackets) /\ Held' = Held
    BY <1>3, HeldSame DEF GetConnect, ResentPackets
  <2>2. CASE n # at
    <3>1. down' = down
      BY <2>1, <2>2 DEF WriteTo
    <3>2. \A c \in Msg : Count(down', holding', Held', c) <= Count(down, holding, Held, c)
      <4>1. ASSUME NEW c \in Msg
            PROVE  Count(down', holding', Held', c) <= Count(down, holding, Held, c)
        <5>1. PICK k : k = Count(down, holding, Held, c)
          OBVIOUS
        <5>2. k \in Nat /\ Count(down', holding', Held', c) = k
          BY <1>1, <1>2, <2>1, <3>1, <5>1, CountIsNumber
        <5> QED BY <5>1, <5>2
      <4> QED BY <4>1
    <3> QED BY <1>1, <3>2, NoMoreBounded
  <2>3. CASE n = at
    <3>1. down = <<>>
      <4>1. Unread(n)
        BY <1>1, <1>3, InboxIs DEF GetConnect, Typed
      <4> QED BY <2>3, <4>1 DEF Typed, Wires
    <3>2. down' = ResentPackets
      <4>1. <<>> \o ResentPackets = ResentPackets
        BY ResentIs, ConcatEmptySeq DEF Typed
      <4> QED BY <2>1, <2>3, <3>1, <4>1 DEF WriteTo
    <3>3. \A c \in Msg : Count(down', holding', Held', c) <= Count(down, holding, Held, c)
      BY <1>1, <2>1, <3>1, <3>2, CountResent DEF Typed
    <3> QED BY <1>1, <3>3, NoMoreBounded
  <2> QED BY <2>2, <2>3
<1>4. CASE GetPubRec(n)
  <2>1. PICK w, x, v : w = Head(inbox[n]).id /\ x = StringLen(w) /\ v = MLEncode(x)
    OBVIOUS
  <2>2. w \in Wire
    <3>1. Head(inbox[n]) \in FromSubscriber /\ Head(inbox[n]).kind = "PUBREC"
      BY <1>1, <1>4, InboxIs DEF GetPubRec, Typed
    <3> QED BY <2>1, <3>1 DEF FromSubscriber
  <2>3. x \in Id /\ x < Base /\ v \in Low /\ (w \in Low => v = w)
    BY <2>1, <2>2, LowIs
  <2>4. Held[v] = rows[x]
    BY <2>1, <2>3, HeldIs DEF Typed
  <2>5. PICK p : p = [kind |-> "PUBREL", id |-> w]
    OBVIOUS
  <2>6. p \in ToSubscriber /\ p.kind = "PUBREL" /\ (p.id = v \/ p.id \notin Low)
    BY <2>2, <2>3, <2>5 DEF ToSubscriber
  <2>7. SessionPublishDelete(x) /\ WriteTo(n, <<p>>)
    BY <1>4, <2>1, <2>5 DEF GetPubRec
  <2>8. down' = down \/ down' = down \o <<p>>
    BY <2>7 DEF WriteTo
  <2>9. Held'[v].msg = NoMsg /\ \A k \in Low : k # v => Held'[k] = Held[k]
    <3>1. rows \in [Id -> Rows]
      BY DEF Typed, TypeOK
    <3>2. CASE rows' = [rows EXCEPT ![x] = FreedRow]
      <4>1. Held'[v] = FreedRow /\ \A k \in Low : k # v => Held'[k] = Held[k]
        BY <2>1, <2>3, <3>1, <3>2, HeldChanges
      <4> QED BY <4>1 DEF FreedRow
    <3>3. CASE rows' = rows /\ rows[x].payload # "live"
      <4>1. rows[x].msg = NoMsg
        BY <2>3, <3>3, RowIs DEF Typed
      <4>2. Held' = Held
        BY <3>3, HeldSame
      <4> QED BY <2>4, <4>1, <4>2
    <3> QED BY <2>7, <3>2, <3>3 DEF SessionPublishDelete
  <2>10. ASSUME NEW c \in Msg
         PROVE  Count(down', holding', Held', c) <= Count(down, holding, Held, c)
    <3>1. PICK r, r2, d2 : r = Held /\ r2 = Held' /\ d2 = down'
      OBVIOUS
    <3>2. r2[v].msg = NoMsg /\ \A k \in Low : k # v => r2[k] = r[k]
      BY <2>9, <3>1
    <3>3. Count(d2, holding, r2, c) <= Count(down, holding, r, c)
      BY <1>2, <2>3, <2>6, <2>8, <3>1, <3>2, CountRelease
    <3> QED BY <1>1, <3>1, <3>3
  <2> QED BY <1>1, <2>10, NoMoreBounded
<1> QED BY <1>3, <1>4 DEF Get

LEMMA LeaveBounded ==
  ASSUME Typed, Typed', Bounded, Leave
  PROVE  Bounded'
<1>1. down' = <<>> /\ UNCHANGED <<holding, delivered, accepted, given>> /\ Held' = Held
  BY HeldSame DEF Leave, broker
<1>2. down \in Seq(ToSubscriber)
  BY DEF Typed, TypeOK
<1>3. \A c \in Msg : Count(down', holding', Held', c) <= Count(down, holding, Held, c)
  BY <1>1, <1>2, CountCut
<1> QED BY <1>1, <1>3, NoMoreBounded

LEMMA SubscriberGetsBounded ==
  ASSUME Typed, Typed', Traced, Bounded, SubscriberGets
  PROVE  Bounded'
<1>1. down # <<>> /\ down' = Tail(down) /\ UNCHANGED <<accepted, given>> /\ Held' = Held
  BY HeldSame DEF SubscriberGets, broker, history
<1>2. PICK p : p = down[1]
  OBVIOUS
<1>3. Head(down) = p /\ down \in Seq(ToSubscriber) /\ (p.kind = "PUBLISH" \/ p.kind = "PUBREL")
      /\ (p.kind = "PUBLISH" => p.msg \in Msg) /\ p.id \in Wire
  BY <1>1, <1>2, ReaderIs, DownIs DEF Typed, TypeOK
<1>4. holding' = HoldingAfter(holding, p)
  BY <1>3 DEF SubscriberGets, HoldingAfter
<1>5. delivered \in [Msg -> Nat] /\ accepted \in [Msg -> Nat]
      /\ down' \in Seq(ToSubscriber)
  BY DEF Typed, TypeOK
(* A PUBLISH with an identifier from Base on is of a message given one.    *)
<1>6. p.kind = "PUBLISH" /\ p.id \notin Low => GivenHigh(p.msg)'
  <2>1. p.kind = "PUBLISH" => <<p.msg, p.id>> \in given'
    <3>1. 1 \in DOMAIN down
      BY <1>1, ReaderIs
    <3> QED BY <1>1, <1>2, <3>1 DEF Traced, OnItsWay
  <2>2. p.id \notin Low => p.id.msb.high
    BY <1>3 DEF Low
  <2> QED BY <1>3, <2>1, <2>2 DEF GivenHigh
<1>7. ASSUME NEW c \in Msg, ~GivenHigh(c)'
      PROVE  delivered'[c] + Count(down', holding', Held', c) + accepted[c]
               <= delivered[c] + Count(down, holding, Held, c) + accepted'[c]
  <2>1. PICK del \in BOOLEAN :
          del <=> p.kind = "PUBLISH" /\ p.id \notin holding /\ p.msg = c
    <3>1. CASE p.kind = "PUBLISH" /\ p.id \notin holding /\ p.msg = c
      BY <3>1
    <3>2. CASE ~(p.kind = "PUBLISH" /\ p.id \notin holding /\ p.msg = c)
      BY <3>2
    <3> QED BY <3>1, <3>2
  <2>2. delivered'[c] = delivered[c] + (IF del THEN 1 ELSE 0)
    <3>1. CASE p.kind = "PUBLISH" /\ p.id \notin holding
      <4>1. PICK m : m = p.msg
        OBVIOUS
      <4>2. delivered' = [delivered EXCEPT ![m] = @ + 1] /\ m \in Msg
        BY <1>3, <3>1, <4>1 DEF SubscriberGets
      <4>3. delivered'[c] = delivered[c] + (IF c = m THEN 1 ELSE 0) /\ delivered[c] \in Nat
        BY <1>5, <4>2
      <4>4. del <=> c = m
        BY <2>1, <3>1, <4>1
      <4> QED BY <4>3, <4>4
    <3>2. CASE ~(p.kind = "PUBLISH" /\ p.id \notin holding)
      <4>1. delivered' = delivered
        BY <1>3, <3>2 DEF SubscriberGets
      <4>2. ~del /\ delivered[c] \in Nat
        BY <1>5, <2>1, <3>2
      <4> QED BY <4>1, <4>2
    <3> QED BY <3>1, <3>2
  <2>3. del <=> /\ p.kind = "PUBLISH" /\ p.id \notin holding /\ p.msg = c
                /\ p.id \in Low
    BY <1>6, <1>7, <2>1
  <2>4. PICK k, k2 : k = Count(down, holding, Held, c)
                     /\ k2 = Count(Tail(down), HoldingAfter(holding, p), Held, c)
    OBVIOUS
  <2>5. k2 + (IF del THEN 1 ELSE 0) <= k
    BY <1>1, <1>2, <1>3, <2>4, <2>3, CountTaken
  <2>6. k2 = Count(down', holding', Held', c)
    BY <1>1, <1>4, <2>4
  <2>7. k \in Nat /\ k2 \in Nat
    BY <1>3, <1>5, <2>4, <2>6, CountIsNumber
  <2>8. accepted'[c] = accepted[c] /\ accepted[c] \in Nat /\ delivered[c] \in Nat
    BY <1>1, <1>5
  <2> QED BY <2>2, <2>4, <2>5, <2>6, <2>7, <2>8
<1> QED BY <1>1, <1>7, BoundedStep DEF Typed

LEMMA NextBounded ==
  ASSUME Typed, Typed', Traced, Bounded, [Next]_vars
  PROVE  Bounded'
<1> USE DEF broker, subscriber, publisher, wires, history
<1>1. ASSUME UNCHANGED <<rows, holding, down, delivered, accepted, given>>
      PROVE  Bounded'
  <2>1. Held' = Held
    BY <1>1, HeldSame
  <2> QED BY <1>1, <2>1 DEF Bounded, GivenHigh
<1>2. CASE Broker
  <2>1. CASE GetPublish
    BY <2>1, GetPublishBounded
  <2>2. CASE GetPubRel
    BY <1>1, <2>2 DEF GetPubRel
  <2>3. ASSUME NEW n \in Conn, Get(n) \/ Close(n)
        PROVE  Bounded'
    <3>1. CASE Get(n)
      BY <3>1, GetBounded
    <3>2. CASE Close(n)
      BY <1>1, <3>2 DEF Close
    <3> QED BY <2>3, <3>1, <3>2
  <2> QED BY <1>2, <2>1, <2>2, <2>3 DEF Broker
<1>3. CASE Subscriber
  <2>1. CASE Come
    BY <1>1, <2>1 DEF Come
  <2>2. CASE SubscriberGets
    BY <2>2, SubscriberGetsBounded
  <2> QED BY <1>3, <2>1, <2>2 DEF Subscriber
<1>4. CASE Publisher
  BY <1>1, <1>4 DEF Publisher, PublishNext, PublisherGets
<1>5. CASE Breaks
  <2>1. CASE PublisherBreaks
    BY <1>1, <2>1 DEF PublisherBreaks
  <2>2. CASE Leave
    BY <2>2, LeaveBounded
  <2> QED BY <1>5, <2>1, <2>2 DEF Breaks
<1>6. CASE UNCHANGED vars
  BY <1>1, <1>6 DEF vars
<1> QED BY <1>2, <1>3, <1>4, <1>5, <1>6 DEF Next

(* No message is delivered more often than the broker took it from the     *)
(* publisher, unless it was given a row from Base on: not with a table     *)
(* that is full (session.c 432), nor after late PUBRECs (session.c 466) or *)
(* PUBRECs that freed its row for another's (event.c 225), nor however     *)
(* often CONNECT sends the rows again (event.c 71).                        *)
THEOREM NoMoreThanTaken == Spec => []OncePerPublish
<1>1. Init => Typed /\ Traced /\ Bounded
  BY InitTyped, InitTraced, InitBounded
<1>2. Typed /\ Traced /\ Bounded /\ [Next]_vars => Typed' /\ Traced' /\ Bounded'
  BY NextTyped, NextTraced, NextBounded
<1>3. Typed /\ Traced /\ Bounded => OncePerPublish
  <2>1. SUFFICES ASSUME Typed, Bounded, NEW m \in Msg, ~GivenHigh(m)
                 PROVE  delivered[m] <= accepted[m]
    BY DEF OncePerPublish
  <2>2. /\ down \in Seq(ToSubscriber)
        /\ accepted \in [Msg -> Nat] /\ delivered \in [Msg -> Nat]
    BY <2>1 DEF Typed, TypeOK
  <2>3. PICK k : k = Count(down, holding, Held, m)
    OBVIOUS
  <2>4. k \in Nat /\ accepted[m] \in Nat /\ delivered[m] \in Nat
    BY <2>1, <2>2, <2>3, CountIsNumber
  <2>5. delivered[m] + k <= accepted[m]
    BY <2>1, <2>3 DEF Bounded
  <2> QED BY <2>4, <2>5
<1> QED BY <1>1, <1>2, <1>3, PTL DEF Spec
=============================================================================

---------------------------- MODULE UtHashProofs ----------------------------
(***************************************************************************)
(* Proofs about module UtHash, for every set of elements, every key and    *)
(* hash of theirs and every threshold: the links are those of a list of    *)
(* all elements and of one chain for each bucket, an expansion of the      *)
(* buckets rearranges the chains and keeps them so, and with that the      *)
(* assertions of HASH_FSCK hold, HASH_FIND finds, and the table is the     *)
(* list of its elements.                                                   *)
(***************************************************************************)
EXTENDS UtHash, SequenceTheorems, FiniteSetTheorems, WellFoundedInduction, TLAPS

-----------------------------------------------------------------------------
(* A set of numbers has a least, and induction up to a bound.              *)
LEMMA LeastNumber ==
  ASSUME NEW S, S \subseteq Nat, S # {}
  PROVE  \E n \in S : \A m \in S : n <= m
<1> DEFINE R == OpToRel(<, Nat)
<1>1. PICK n \in S : \A m \in S : <<m, n>> \notin R
  <2>1. IsWellFoundedOn(R, Nat)
    BY NatLessThanWellFounded
  <2> QED BY <2>1, WFMin
<1>2. \A m \in S : ~(m < n)
  BY <1>1 DEF OpToRel
<1> HIDE DEF R
<1> QED BY <1>2

(* What holds of 0 and is handed on from each number to the next holds of  *)
(* every number up to a bound.                                             *)
LEMMA Upwards ==
  ASSUME NEW b \in Nat, NEW S, 0 \in S,
         \A n \in 0..b : n > 0 /\ n - 1 \in S => n \in S
  PROVE  \A n \in 0..b : n \in S
<1> DEFINE Out == {n \in 0..b : n \notin S}
<1>1. SUFFICES ASSUME Out # {} PROVE FALSE
  OBVIOUS
<1>2. PICK n \in Out : \A m \in Out : n <= m
  <2>1. Out \subseteq Nat
    OBVIOUS
  <2> HIDE DEF Out
  <2> QED BY <1>1, <2>1, LeastNumber
<1>3. n \in 0..b /\ n > 0 /\ n - 1 \notin Out
  BY <1>2
<1>4. n - 1 \in S
  BY <1>3
<1> QED BY <1>2, <1>3, <1>4

(* A non-empty set of numbers up to a bound has a greatest.                *)
LEMMA GreatestNumber ==
  ASSUME NEW b \in Nat, NEW S, S \subseteq 0..b, S # {}
  PROVE  \E n \in S : \A m \in S : m <= n
<1> DEFINE Over == {n \in Nat : \A m \in S : m <= n}
<1>1. b \in Over
  OBVIOUS
<1>2. PICK n \in Over : \A m \in Over : n <= m
  <2>1. Over \subseteq Nat /\ Over # {}
    BY <1>1
  <2> HIDE DEF Over
  <2> QED BY <2>1, LeastNumber
<1>3. n \in S
  <2>1. SUFFICES ASSUME n \notin S PROVE FALSE
    OBVIOUS
  <2>2. \A m \in S : m <= n - 1 /\ m \in Nat
    BY <1>2, <2>1
  <2>3. n - 1 \in Nat
    <3>1. PICK m \in S : TRUE
      OBVIOUS
    <3>2. m <= n - 1 /\ m \in Nat /\ n \in Nat
      BY <2>2, <1>2
    <3> QED BY <3>2
  <2>4. n - 1 \in Over
    BY <2>2, <2>3
  <2> QED BY <1>2, <2>4
<1> QED BY <1>2, <1>3

-----------------------------------------------------------------------------
(* Lists without repetition: what is in them, and in which order.          *)
At(s, i)        == IF i \in 1..Len(s) THEN s[i] ELSE Nil
Members(s)      == {s[i] : i \in 1..Len(s)}
Distinct(s)     == s \in Seq(Elem) /\ \A i, j \in 1..Len(s) : s[i] = s[j] => i = j
Before(s, x, y) == \E i, j \in 1..Len(s) : i < j /\ s[i] = x /\ s[j] = y

(* Links from an element to its neighbours in s. *)
Chained(s, first, nxt, prv) ==
  /\ Distinct(s)
  /\ first = At(s, 1)
  /\ \A i \in 1..Len(s) : nxt[s[i]] = At(s, i + 1) /\ prv[s[i]] = At(s, i - 1)

(* What a list without repetition is. *)
LEMMA DistinctIs ==
  ASSUME NEW s, Distinct(s)
  PROVE  /\ s \in Seq(Elem) /\ Len(s) \in Nat /\ DOMAIN s = 1..Len(s)
         /\ \A i \in 1..Len(s) : s[i] \in Elem /\ s[i] # Nil
         /\ Members(s) \subseteq Elem
         /\ s = [i \in 1..Len(s) |-> s[i]]
<1>1. s \in Seq(Elem)
  BY DEF Distinct
<1>2. Len(s) \in Nat /\ s \in [1..Len(s) -> Elem] /\ DOMAIN s = 1..Len(s)
  BY <1>1, LenProperties
<1>3. Nil \notin Elem
  BY UtHashAssumption
<1>4. \A i \in 1..Len(s) : s[i] \in Elem /\ s[i] # Nil
  BY <1>2, <1>3
<1> QED BY <1>1, <1>2, <1>4 DEF Members

(* It has as many members as places, so no more than there are elements.   *)
LEMMA HowMany ==
  ASSUME NEW s, Distinct(s)
  PROVE  /\ IsFiniteSet(Members(s)) /\ Cardinality(Members(s)) = Len(s)
         /\ Len(s) <= Cardinality(Elem) /\ Cardinality(Elem) \in Nat
<1>1. /\ s \in Seq(Elem) /\ Len(s) \in Nat /\ s = [i \in 1..Len(s) |-> s[i]]
      /\ Members(s) \subseteq Elem
  BY DistinctIs
<1>2. s \in Bijection(1..Len(s), Members(s))
  <2>1. s \in [1..Len(s) -> Members(s)]
    BY <1>1 DEF Members
  <2>2. \A i, j \in 1..Len(s) : s[i] = s[j] => i = j
    BY DEF Distinct
  <2>3. \A x \in Members(s) : \E i \in 1..Len(s) : s[i] = x
    BY DEF Members
  <2> QED BY <2>1, <2>2, <2>3 DEF Bijection, Injection, Surjection, IsInjective
<1>3. ExistsBijection(1..Len(s), Members(s))
  BY <1>2 DEF ExistsBijection
<1>4. IsFiniteSet(1..Len(s)) /\ Cardinality(1..Len(s)) = Len(s)
  <2>1. Len(s) \in Int /\ 1 \in Int
    BY <1>1
  <2>2. Cardinality(1..Len(s)) = IF 1 > Len(s) THEN 0 ELSE Len(s) - 1 + 1
    BY <2>1, FS_Interval
  <2> QED BY <1>1, <2>1, <2>2, FS_Interval
<1>5. IsFiniteSet(Members(s)) /\ Cardinality(Members(s)) = Len(s)
  BY <1>3, <1>4, FS_Bijection
<1>6. IsFiniteSet(Elem)
  BY UtHashAssumption
<1>7. Cardinality(Elem) \in Nat
  BY <1>6, FS_CardinalityType
<1>8. Cardinality(Members(s)) <= Cardinality(Elem)
  BY <1>6, <1>1, FS_Subset
<1> QED BY <1>5, <1>7, <1>8

(* Follows(start, link, s, at): at is what Path computes.                  *)
Follows(start, link, at) ==
  at = [n \in 1..(Cardinality(Elem) + 1) |->
          IF n = 1 THEN start ELSE IF at[n - 1] = Nil THEN Nil ELSE link[at[n - 1]]]

(* What follows the links of a list is at each place what the list is.     *)
LEMMA FollowsList ==
  ASSUME NEW s, NEW nxt, NEW prv, NEW start, Chained(s, start, nxt, prv)
  PROVE  /\ Follows(start, nxt, [n \in 1..(Cardinality(Elem) + 1) |-> At(s, n)])
         /\ \A at : Follows(start, nxt, at) =>
              at = [n \in 1..(Cardinality(Elem) + 1) |-> At(s, n)]
<1> DEFINE C == Cardinality(Elem) + 1
           one == [n \in 1..C |-> At(s, n)]
<1>1. Distinct(s) /\ start = At(s, 1)
  BY DEF Chained
<1>2. C \in Nat /\ C >= 1 /\ Len(s) \in Nat /\ \A i \in 1..Len(s) : s[i] # Nil
  BY <1>1, HowMany, DistinctIs
<1>3. ASSUME NEW n \in 1..C, n # 1
      PROVE  At(s, n) = IF At(s, n - 1) = Nil THEN Nil ELSE nxt[At(s, n - 1)]
  <2>1. CASE n - 1 \in 1..Len(s)
    <3>1. At(s, n - 1) = s[n - 1] /\ s[n - 1] # Nil
      BY <2>1, <1>2 DEF At
    <3>2. nxt[s[n - 1]] = At(s, (n - 1) + 1) /\ (n - 1) + 1 = n
      BY <2>1, <1>2 DEF Chained
    <3> QED BY <3>1, <3>2
  <2>2. CASE n - 1 \notin 1..Len(s)
    <3>1. n \notin 1..Len(s)
      BY <2>2, <1>2, <1>3
    <3> QED BY <3>1, <2>2 DEF At
  <2> QED BY <2>1, <2>2
<1>4. ASSUME NEW n \in 1..C
      PROVE  one[n] = IF n = 1 THEN start ELSE IF one[n - 1] = Nil THEN Nil ELSE nxt[one[n - 1]]
  <2>1. CASE n = 1
    BY <2>1, <1>1
  <2>2. CASE n # 1
    <3>1. n - 1 \in 1..C
      BY <2>2, <1>2
    <3>2. one[n - 1] = At(s, n - 1) /\ one[n] = At(s, n)
      BY <3>1
    <3> QED BY <3>2, <2>2, <1>3
  <2> QED BY <2>1, <2>2
<1>5. Follows(start, nxt, one)
  <2>1. one = [n \in 1..C |-> one[n]]
    OBVIOUS
  <2> HIDE DEF one, C
  <2>2. one = [n \in 1..C |-> IF n = 1 THEN start
                              ELSE IF one[n - 1] = Nil THEN Nil ELSE nxt[one[n - 1]]]
    BY <2>1, <1>4
  <2> QED BY <2>2 DEF Follows, C
<1>6. ASSUME NEW at, Follows(start, nxt, at) PROVE at = one
  <2>1. at = [n \in 1..C |-> IF n = 1 THEN start
                             ELSE IF at[n - 1] = Nil THEN Nil ELSE nxt[at[n - 1]]]
    BY <1>6 DEF Follows
  <2>2. \A n \in 1..C : at[n] = IF n = 1 THEN start
                                ELSE IF at[n - 1] = Nil THEN Nil ELSE nxt[at[n - 1]]
    BY <2>1
  <2>3. at = [n \in 1..C |-> at[n]]
    BY <2>1
  <2> HIDE DEF C
  <2> DEFINE M == {n \in 0..C : n > 0 => at[n] = At(s, n)}
  <2>4. 0 \in M
    BY <1>2
  <2>5. ASSUME NEW n \in 0..C, n > 0, n - 1 \in M PROVE n \in M
    <3>1. n \in 1..C
      BY <2>5, <1>2
    <3>2. CASE n = 1
      BY <3>1, <3>2, <2>2, <1>1
    <3>3. CASE n # 1
      <4>1. n - 1 > 0
        BY <3>1, <3>3
      <4>2. at[n - 1] = At(s, n - 1)
        BY <4>1, <2>5
      <4>3. at[n] = IF at[n - 1] = Nil THEN Nil ELSE nxt[at[n - 1]]
        BY <3>1, <3>3, <2>2
      <4>4. At(s, n) = IF At(s, n - 1) = Nil THEN Nil ELSE nxt[At(s, n - 1)]
        BY <3>1, <3>3, <1>3
      <4>5. at[n] = At(s, n)
        BY <4>2, <4>3, <4>4
      <4> QED BY <4>5
    <3> QED BY <3>2, <3>3
  <2> HIDE DEF M
  <2>6. \A n \in 0..C : n \in M
    BY <2>4, <2>5, <1>2, Upwards
  <2>7. \A n \in 1..C : at[n] = At(s, n)
    <3>1. ASSUME NEW n \in 1..C PROVE at[n] = At(s, n)
      <4>1. n \in 0..C /\ n > 0
        BY <1>2
      <4> QED BY <4>1, <2>6 DEF M
    <3> QED BY <3>1
  <2> QED BY <2>3, <2>7
<1> QED BY <1>5, <1>6

(* The path along the links of a list is the list.                         *)
LEMMA PathIs ==
  ASSUME NEW s, NEW nxt, NEW prv, NEW start, Chained(s, start, nxt, prv)
  PROVE  Path(start, nxt) = s
<1> DEFINE C   == Cardinality(Elem) + 1
           one == [n \in 1..C |-> At(s, n)]
           at  == CHOOSE at : at = [n \in 1..C |->
                    IF n = 1 THEN start ELSE IF at[n - 1] = Nil THEN Nil ELSE nxt[at[n - 1]]]
<1>1. at = one
  <2>1. \E x : Follows(start, nxt, x)
    BY FollowsList
  <2>2. at = CHOOSE x : Follows(start, nxt, x)
    BY DEF Follows
  <2> HIDE DEF at
  <2>3. Follows(start, nxt, at)
    BY <2>1, <2>2
  <2> QED BY <2>3, FollowsList
<1>2. Path(start, nxt) = [n \in {m \in 1..C : at[m] # Nil} |-> at[n]]
  BY DEF Path
<1>3. C \in Nat /\ Len(s) <= C /\ Len(s) \in Nat /\ (\A i \in 1..Len(s) : s[i] # Nil)
  BY HowMany, DistinctIs DEF Chained
<1>4. \A m \in 1..C : one[m] = At(s, m)
  OBVIOUS
<1> HIDE DEF at, one
<1>5. {m \in 1..C : at[m] # Nil} = 1..Len(s)
  <2>1. \A m : m \in {m_1 \in 1..C : at[m_1] # Nil} <=> m \in 1..Len(s)
    BY <1>1, <1>3, <1>4 DEF At
  <2> QED BY <2>1
<1>6. \A n \in 1..Len(s) : at[n] = s[n]
  BY <1>1, <1>3, <1>4 DEF At
<1>7. Path(start, nxt) = [n \in 1..Len(s) |-> s[n]]
  BY <1>2, <1>5, <1>6
<1>8. s = [n \in 1..Len(s) |-> s[n]]
  BY DistinctIs DEF Chained
<1> QED BY <1>7, <1>8

-----------------------------------------------------------------------------
(* What a push at the head, an append at the tail and a removal make of a  *)
(* list: its places, its members, its order and its links.                 *)

(* The places after a push. *)
LEMMA PushedAt ==
  ASSUME NEW s, Distinct(s), NEW e \in Elem, e \notin Members(s)
  PROVE  /\ Distinct(<<e>> \o s) /\ Len(<<e>> \o s) = Len(s) + 1
         /\ \A i \in 1..(Len(s) + 1) : (<<e>> \o s)[i] = IF i = 1 THEN e ELSE s[i - 1]
<1> DEFINE r == <<e>> \o s
<1>1. s \in Seq(Elem) /\ Len(s) \in Nat
  BY DistinctIs
<1>2. <<e>> \in Seq(Elem) /\ Len(<<e>>) = 1 /\ <<e>>[1] = e
  OBVIOUS
<1>3. /\ r \in Seq(Elem) /\ Len(r) = 1 + Len(s)
      /\ \A i \in 1..(1 + Len(s)) : r[i] = IF i <= 1 THEN <<e>>[i] ELSE s[i - 1]
  BY <1>1, <1>2, ConcatProperties
<1>4. 1 + Len(s) = Len(s) + 1
  BY <1>1
<1> HIDE DEF r
<1>5. \A i \in 1..(Len(s) + 1) : r[i] = IF i = 1 THEN e ELSE s[i - 1]
  <2>1. ASSUME NEW i \in 1..(Len(s) + 1) PROVE r[i] = IF i = 1 THEN e ELSE s[i - 1]
    <3>1. r[i] = IF i <= 1 THEN <<e>>[i] ELSE s[i - 1]
      BY <1>3, <1>4
    <3>2. i <= 1 <=> i = 1
      BY <1>1
    <3> QED BY <3>1, <3>2, <1>2
  <2> QED BY <2>1
<1>6. ASSUME NEW i \in 1..Len(r), NEW j \in 1..Len(r), r[i] = r[j] PROVE i = j
  <2>1. \A k \in 1..Len(s) : s[k] # e
    BY DEF Members
  <2>2. i \in 1..(Len(s) + 1) /\ j \in 1..(Len(s) + 1)
    BY <1>3, <1>4
  <2>3. CASE i = 1 /\ j = 1
    BY <2>3
  <2>4. CASE i = 1 /\ j # 1
    <3>1. j - 1 \in 1..Len(s) /\ r[j] = s[j - 1] /\ r[i] = e
      BY <2>2, <2>4, <1>1, <1>5
    <3> QED BY <3>1, <2>1, <1>6
  <2>5. CASE i # 1 /\ j = 1
    <3>1. i - 1 \in 1..Len(s) /\ r[i] = s[i - 1] /\ r[j] = e
      BY <2>2, <2>5, <1>1, <1>5
    <3> QED BY <3>1, <2>1, <1>6
  <2>6. CASE i # 1 /\ j # 1
    <3>1. i - 1 \in 1..Len(s) /\ r[i] = s[i - 1] /\ j - 1 \in 1..Len(s) /\ r[j] = s[j - 1]
      BY <2>2, <2>6, <1>1, <1>5
    <3>2. i - 1 = j - 1
      BY <3>1, <1>6 DEF Distinct
    <3> QED BY <3>2, <2>2, <1>1
  <2> QED BY <2>3, <2>4, <2>5, <2>6
<1>7. Distinct(r)
  BY <1>3, <1>6 DEF Distinct
<1> QED BY <1>3, <1>4, <1>5, <1>7 DEF r

(* A push adds a member, before all others. *)
LEMMA PushedMembers ==
  ASSUME NEW s, Distinct(s), NEW e \in Elem, e \notin Members(s)
  PROVE  /\ Members(<<e>> \o s) = Members(s) \cup {e}
         /\ \A x, y : Before(<<e>> \o s, x, y) => Before(s, x, y) \/ (x = e /\ y \in Members(s))
<1> DEFINE r == <<e>> \o s
<1>1. /\ Len(s) \in Nat /\ Len(r) = Len(s) + 1
      /\ \A i \in 1..(Len(s) + 1) : r[i] = IF i = 1 THEN e ELSE s[i - 1]
  BY DistinctIs, PushedAt
<1> HIDE DEF r
<1>2. Members(r) = Members(s) \cup {e}
  <2>1. ASSUME NEW x \in Members(r) PROVE x \in Members(s) \cup {e}
    <3>1. PICK i \in 1..(Len(s) + 1) : r[i] = x
      BY <1>1 DEF Members
    <3>2. CASE i = 1
      BY <3>1, <3>2, <1>1
    <3>3. CASE i # 1
      <4>1. i - 1 \in 1..Len(s) /\ r[i] = s[i - 1]
        BY <3>3, <1>1
      <4> QED BY <3>1, <4>1 DEF Members
    <3> QED BY <3>2, <3>3
  <2>2. ASSUME NEW x \in Members(s) PROVE x \in Members(r)
    <3>1. PICK i \in 1..Len(s) : s[i] = x
      BY DEF Members
    <3>2. i + 1 \in 1..(Len(s) + 1) /\ i + 1 # 1 /\ (i + 1) - 1 = i
      BY <1>1
    <3>3. r[i + 1] = x
      BY <3>1, <3>2, <1>1
    <3> QED BY <3>2, <3>3, <1>1 DEF Members
  <2>3. e \in Members(r)
    <3>1. 1 \in 1..(Len(s) + 1)
      BY <1>1
    <3>2. r[1] = e
      BY <3>1, <1>1
    <3> QED BY <3>1, <3>2, <1>1 DEF Members
  <2> QED BY <2>1, <2>2, <2>3
<1>3. ASSUME NEW x, NEW y, Before(r, x, y)
      PROVE  Before(s, x, y) \/ (x = e /\ y \in Members(s))
  <2>1. PICK i \in 1..(Len(s) + 1), j \in 1..(Len(s) + 1) : i < j /\ r[i] = x /\ r[j] = y
    BY <1>1, <1>3 DEF Before
  <2>2. j # 1 /\ j - 1 \in 1..Len(s)
    BY <2>1, <1>1
  <2>3. r[j] = s[j - 1]
    BY <2>2, <1>1
  <2>4. CASE i = 1
    <3>1. x = e
      BY <2>1, <2>4, <1>1
    <3>2. y \in Members(s)
      BY <2>1, <2>2, <2>3 DEF Members
    <3> QED BY <3>1, <3>2
  <2>5. CASE i # 1
    <3>1. i - 1 \in 1..Len(s) /\ i - 1 < j - 1
      BY <2>1, <2>5, <1>1
    <3>2. r[i] = s[i - 1]
      BY <2>5, <1>1
    <3> QED BY <3>1, <3>2, <2>1, <2>2, <2>3 DEF Before
  <2> QED BY <2>4, <2>5
<1> QED BY <1>2, <1>3 DEF r

(* Where x and y are the links before and after: those of the new head and *)
(* of the old one change, those of the others do not.                      *)
HeadLinks(s, e, first, nxt, prv, nxt2, prv2) ==
  /\ nxt2[e] = first /\ prv2[e] = Nil
  /\ \A x \in Members(s) : nxt2[x] = nxt[x] /\ prv2[x] = IF x = first THEN e ELSE prv[x]

(* The links after a push. *)
LEMMA PushedLinks ==
  ASSUME NEW s, NEW first, NEW nxt, NEW prv, Chained(s, first, nxt, prv),
         NEW e \in Elem, e \notin Members(s), NEW nxt2, NEW prv2,
         HeadLinks(s, e, first, nxt, prv, nxt2, prv2)
  PROVE  Chained(<<e>> \o s, e, nxt2, prv2)
<1> DEFINE r == <<e>> \o s
<1>0. Distinct(s) /\ first = At(s, 1)
  BY DEF Chained
<1>1. /\ Len(s) \in Nat /\ Len(r) = Len(s) + 1 /\ Distinct(r)
      /\ \A i \in 1..(Len(s) + 1) : r[i] = IF i = 1 THEN e ELSE s[i - 1]
  BY <1>0, DistinctIs, PushedAt
<1> HIDE DEF r
<1>2. \A i \in Nat \ {0} : At(r, i + 1) = At(s, i)
  <2>1. ASSUME NEW i \in Nat \ {0} PROVE At(r, i + 1) = At(s, i)
    <3>1. CASE i \in 1..Len(s)
      <4>1. i + 1 \in 1..(Len(s) + 1) /\ i + 1 # 1 /\ (i + 1) - 1 = i
        BY <3>1, <1>1
      <4>2. r[i + 1] = s[i]
        BY <4>1, <1>1
      <4> QED BY <4>1, <4>2, <3>1, <1>1 DEF At
    <3>2. CASE i \notin 1..Len(s)
      <4>1. i + 1 \notin 1..Len(r)
        BY <3>2, <1>1
      <4> QED BY <4>1, <3>2 DEF At
    <3> QED BY <3>1, <3>2
  <2> QED BY <2>1
<1>3. e = At(r, 1)
  BY <1>1 DEF At
<1>4. ASSUME NEW i \in 1..Len(r) PROVE nxt2[r[i]] = At(r, i + 1) /\ prv2[r[i]] = At(r, i - 1)
  <2>0. At(r, 0) = Nil
    BY DEF At
  <2>1. CASE i = 1
    <3>1. r[i] = e /\ At(r, i + 1) = first
      BY <2>1, <1>0, <1>1, <1>2
    <3>2. nxt2[e] = first /\ prv2[e] = Nil
      BY DEF HeadLinks
    <3>3. i - 1 = 0
      BY <2>1
    <3> QED BY <3>1, <3>2, <3>3, <2>0
  <2>2. CASE i # 1
    <3>1. i - 1 \in 1..Len(s) /\ i - 1 \in Nat \ {0} /\ i \in Nat \ {0}
      BY <2>2, <1>1
    <3>2. r[i] = s[i - 1] /\ s[i - 1] \in Members(s)
      BY <3>1, <2>2, <1>1 DEF Members
    <3>3. nxt2[r[i]] = nxt[s[i - 1]] /\ prv2[r[i]] = IF s[i - 1] = first THEN e ELSE prv[s[i - 1]]
      BY <3>2 DEF HeadLinks
    <3>4. nxt[s[i - 1]] = At(s, (i - 1) + 1) /\ prv[s[i - 1]] = At(s, (i - 1) - 1)
      BY <3>1 DEF Chained
    <3>5. nxt2[r[i]] = At(r, i + 1)
      <4>1. (i - 1) + 1 = i
        BY <3>1
      <4> QED BY <4>1, <3>1, <3>3, <3>4, <1>2
    <3>6. prv2[r[i]] = At(r, i - 1)
      <4>1. CASE i = 2
        <5>1. s[i - 1] = first /\ i - 1 = 1
          BY <4>1, <3>1, <1>0 DEF At
        <5> QED BY <5>1, <3>3, <1>3
      <4>2. CASE i # 2
        <5>1. i - 1 # 1 /\ 1 \in 1..Len(s) /\ i - 2 \in Nat \ {0} /\ (i - 1) - 1 = i - 2
              /\ (i - 2) + 1 = i - 1
          BY <4>2, <3>1, <1>1
        <5>2. first = s[1]
          BY <5>1, <1>0 DEF At
        <5>3. s[i - 1] # first
          BY <5>1, <5>2, <3>1, <1>0 DEF Distinct
        <5>4. At(r, (i - 2) + 1) = At(s, i - 2)
          BY <5>1, <1>2
        <5> QED BY <5>1, <5>3, <5>4, <3>3, <3>4
      <4> QED BY <4>1, <4>2
    <3> QED BY <3>5, <3>6
  <2> QED BY <2>1, <2>2
<1>5. Chained(r, e, nxt2, prv2)
  BY <1>1, <1>3, <1>4 DEF Chained
<1> QED BY <1>5 DEF r

(* Links that are the same on the members of a list link it the same. *)
LEMMA SameLinks ==
  ASSUME NEW s, NEW first, NEW nxt, NEW prv, Chained(s, first, nxt, prv), NEW nxt2, NEW prv2,
         \A x \in Members(s) : nxt2[x] = nxt[x] /\ prv2[x] = prv[x]
  PROVE  Chained(s, first, nxt2, prv2)
BY DEF Chained, Members

(* The places, the members and the order after an append. *)
LEMMA AppendedIs ==
  ASSUME NEW s, Distinct(s), NEW e \in Elem, e \notin Members(s)
  PROVE  /\ Distinct(Append(s, e)) /\ Len(Append(s, e)) = Len(s) + 1
         /\ \A i \in 1..(Len(s) + 1) : Append(s, e)[i] = IF i <= Len(s) THEN s[i] ELSE e
         /\ Members(Append(s, e)) = Members(s) \cup {e}
         /\ \A x, y : Before(Append(s, e), x, y) => Before(s, x, y) \/ (x \in Members(s) /\ y = e)
         /\ \A x, y : Before(s, x, y) => Before(Append(s, e), x, y)
         /\ \A x \in Members(s) : Before(Append(s, e), x, e)
<1> DEFINE r == Append(s, e)
<1>1. s \in Seq(Elem) /\ Len(s) \in Nat
  BY DistinctIs
<1>2. r \in Seq(Elem) /\ Len(r) = Len(s) + 1
      /\ \A i \in 1..(Len(s) + 1) : r[i] = IF i <= Len(s) THEN s[i] ELSE e
  BY <1>1
<1> HIDE DEF r
<1>3. \A k \in 1..Len(s) : s[k] # e /\ r[k] = s[k] /\ k \in 1..Len(r)
  <2>1. ASSUME NEW k \in 1..Len(s) PROVE s[k] # e /\ r[k] = s[k] /\ k \in 1..Len(r)
    <3>1. k \in 1..(Len(s) + 1) /\ k <= Len(s)
      BY <1>1
    <3>2. s[k] # e
      BY DEF Members
    <3>3. r[k] = s[k]
      BY <3>1, <1>2
    <3> QED BY <3>1, <3>2, <3>3, <1>2
  <2> QED BY <2>1
<1>4. r[Len(s) + 1] = e /\ Len(s) + 1 \in 1..Len(r)
  <2>1. Len(s) + 1 \in 1..(Len(s) + 1) /\ ~(Len(s) + 1 <= Len(s))
    BY <1>1
  <2> QED BY <2>1, <1>2
<1>5. \A k \in 1..Len(r) : k \in 1..Len(s) \/ k = Len(s) + 1
  BY <1>1, <1>2
<1>6. ASSUME NEW i \in 1..Len(r), NEW j \in 1..Len(r), r[i] = r[j] PROVE i = j
  <2>1. CASE i \in 1..Len(s) /\ j \in 1..Len(s)
    BY <2>1, <1>3, <1>6 DEF Distinct
  <2>2. CASE i \in 1..Len(s) /\ j = Len(s) + 1
    BY <2>2, <1>3, <1>4, <1>6
  <2>3. CASE i = Len(s) + 1 /\ j \in 1..Len(s)
    BY <2>3, <1>3, <1>4, <1>6
  <2>4. CASE i = Len(s) + 1 /\ j = Len(s) + 1
    BY <2>4
  <2> QED BY <2>1, <2>2, <2>3, <2>4, <1>5
<1>7. Distinct(r)
  BY <1>2, <1>6 DEF Distinct
<1>8. Members(r) = Members(s) \cup {e}
  <2>1. ASSUME NEW x \in Members(r) PROVE x \in Members(s) \cup {e}
    <3>1. PICK k \in 1..Len(r) : r[k] = x
      BY DEF Members
    <3>2. CASE k \in 1..Len(s)
      BY <3>1, <3>2, <1>3 DEF Members
    <3>3. CASE k = Len(s) + 1
      BY <3>1, <3>3, <1>4
    <3> QED BY <3>2, <3>3, <1>5
  <2>2. ASSUME NEW x \in Members(s) PROVE x \in Members(r)
    BY <1>3 DEF Members
  <2>3. e \in Members(r)
    BY <1>4 DEF Members
  <2> QED BY <2>1, <2>2, <2>3
<1>9. ASSUME NEW x, NEW y, Before(r, x, y)
      PROVE  Before(s, x, y) \/ (x \in Members(s) /\ y = e)
  <2>1. PICK i \in 1..Len(r), j \in 1..Len(r) : i < j /\ r[i] = x /\ r[j] = y
    BY <1>9 DEF Before
  <2>2. i \in 1..Len(s)
    BY <2>1, <1>1, <1>2
  <2>3. CASE j \in 1..Len(s)
    BY <2>1, <2>2, <2>3, <1>3 DEF Before
  <2>4. CASE j = Len(s) + 1
    BY <2>1, <2>2, <2>4, <1>3, <1>4 DEF Members
  <2> QED BY <2>3, <2>4, <1>5
<1>10. ASSUME NEW x, NEW y, Before(s, x, y) PROVE Before(r, x, y)
  BY <1>10, <1>3 DEF Before
<1>11. ASSUME NEW x \in Members(s) PROVE Before(r, x, e)
  <2>1. PICK i \in 1..Len(s) : s[i] = x
    BY DEF Members
  <2>2. i \in 1..Len(r) /\ r[i] = x /\ i < Len(s) + 1
    BY <2>1, <1>1, <1>3
  <2> QED BY <2>2, <1>4 DEF Before
<1> QED BY <1>2, <1>7, <1>8, <1>9, <1>10, <1>11 DEF r

(* The links of the new tail, of the old one, and of the others. *)
TailLinks(s, e, last, nxt, prv, nxt2, prv2) ==
  /\ nxt2[e] = Nil /\ prv2[e] = last
  /\ \A x \in Members(s) : prv2[x] = prv[x] /\ nxt2[x] = IF x = last THEN e ELSE nxt[x]

(* The links after an append. *)
LEMMA AppendedLinks ==
  ASSUME NEW s, NEW first, NEW nxt, NEW prv, Chained(s, first, nxt, prv),
         NEW e \in Elem, e \notin Members(s), NEW nxt2, NEW prv2,
         TailLinks(s, e, At(s, Len(s)), nxt, prv, nxt2, prv2)
  PROVE  /\ Chained(Append(s, e), IF first = Nil THEN e ELSE first, nxt2, prv2)
         /\ At(Append(s, e), Len(Append(s, e))) = e
<1> DEFINE r == Append(s, e)
           n == Len(s)
<1>0. Distinct(s) /\ first = At(s, 1)
  BY DEF Chained
<1>1. /\ n \in Nat /\ Len(r) = n + 1 /\ Distinct(r)
      /\ \A i \in 1..(n + 1) : r[i] = IF i <= n THEN s[i] ELSE e
      /\ \A i \in 1..n : s[i] # Nil
  BY <1>0, DistinctIs, AppendedIs
<1> HIDE DEF r
<1>2. \A i \in 1..n : r[i] = s[i] /\ At(r, i) = s[i]
  <2>1. ASSUME NEW i \in 1..n PROVE r[i] = s[i] /\ At(r, i) = s[i]
    <3>1. i \in 1..(n + 1) /\ i <= n
      BY <1>1
    <3>2. r[i] = s[i]
      BY <3>1, <1>1
    <3> QED BY <3>1, <3>2, <1>1 DEF At
  <2> QED BY <2>1
<1>3. r[n + 1] = e /\ At(r, n + 1) = e /\ At(r, n + 2) = Nil
  <2>1. n + 1 \in 1..(n + 1) /\ ~(n + 1 <= n) /\ n + 2 \notin 1..(n + 1)
    BY <1>1
  <2>2. r[n + 1] = e
    BY <2>1, <1>1
  <2> QED BY <2>1, <2>2, <1>1 DEF At
<1>4. (IF first = Nil THEN e ELSE first) = At(r, 1)
  <2>1. CASE n = 0
    <3>1. first = Nil
      BY <2>1, <1>0 DEF At
    <3>2. At(r, 1) = e
      BY <2>1, <1>3
    <3> QED BY <3>1, <3>2
  <2>2. CASE n # 0
    <3>1. 1 \in 1..n
      BY <2>2, <1>1
    <3>2. first = s[1] /\ s[1] # Nil
      BY <3>1, <1>0, <1>1 DEF At
    <3> QED BY <3>1, <3>2, <1>2
  <2> QED BY <2>1, <2>2
<1>5. ASSUME NEW i \in 1..Len(r) PROVE nxt2[r[i]] = At(r, i + 1) /\ prv2[r[i]] = At(r, i - 1)
  <2>0. At(r, 0) = Nil /\ At(s, 0) = Nil
    BY DEF At
  <2>1. CASE i = n + 1
    <3>1. nxt2[e] = Nil /\ prv2[e] = At(s, n)
      BY DEF TailLinks
    <3>2. At(s, n) = At(r, n)
      <4>1. CASE n = 0
        BY <4>1, <2>0
      <4>2. CASE n # 0
        <5>1. n \in 1..n
          BY <4>2, <1>1
        <5> QED BY <5>1, <1>2 DEF At
      <4> QED BY <4>1, <4>2
    <3>3. i + 1 = n + 2 /\ i - 1 = n
      BY <2>1, <1>1
    <3>4. r[i] = e
      BY <2>1, <1>3
    <3> QED BY <3>1, <3>2, <3>3, <3>4, <1>3
  <2>2. CASE i # n + 1
    <3>1. i \in 1..n /\ n \in 1..n
      BY <2>2, <1>1
    <3>2. r[i] = s[i] /\ s[i] \in Members(s)
      BY <3>1, <1>2 DEF Members
    <3>3. At(s, n) = s[n]
      BY <3>1 DEF At
    <3>4. prv2[r[i]] = prv[s[i]] /\ nxt2[r[i]] = IF s[i] = s[n] THEN e ELSE nxt[s[i]]
      BY <3>2, <3>3 DEF TailLinks
    <3>5. nxt[s[i]] = At(s, i + 1) /\ prv[s[i]] = At(s, i - 1)
      BY <3>1 DEF Chained
    <3>6. prv2[r[i]] = At(r, i - 1)
      <4>1. CASE i = 1
        <5>1. i - 1 = 0
          BY <4>1
        <5> QED BY <5>1, <2>0, <3>4, <3>5
      <4>2. CASE i # 1
        <5>1. i - 1 \in 1..n
          BY <4>2, <3>1, <1>1
        <5> QED BY <5>1, <1>2, <3>4, <3>5 DEF At
      <4> QED BY <4>1, <4>2
    <3>7. nxt2[r[i]] = At(r, i + 1)
      <4>1. CASE i = n
        BY <4>1, <3>4, <1>3
      <4>2. CASE i # n
        <5>1. i + 1 \in 1..n
          BY <4>2, <3>1, <1>1
        <5>2. s[i] # s[n]
          BY <4>2, <3>1, <1>0 DEF Distinct
        <5> QED BY <5>1, <5>2, <1>2, <3>4, <3>5 DEF At
      <4> QED BY <4>1, <4>2
    <3> QED BY <3>6, <3>7
  <2> QED BY <2>1, <2>2
<1>6. Chained(r, IF first = Nil THEN e ELSE first, nxt2, prv2)
  BY <1>1, <1>4, <1>5 DEF Chained
<1>7. At(r, Len(r)) = e
  BY <1>1, <1>3
<1> QED BY <1>6, <1>7 DEF r

(* The places after a removal. *)
LEMMA RemovedAt ==
  ASSUME NEW s, Distinct(s), NEW k \in 1..Len(s)
  PROVE  /\ RemoveAt(s, k) \in Seq(Elem) /\ Len(RemoveAt(s, k)) = Len(s) - 1
         /\ \A i \in 1..(Len(s) - 1) : RemoveAt(s, k)[i] = IF i < k THEN s[i] ELSE s[i + 1]
<1> DEFINE n == Len(s)
           p == SubSeq(s, 1, k - 1)
           q == SubSeq(s, k + 1, n)
<1>1. n \in Nat /\ k \in Int /\ 1 <= k /\ k <= n /\ \A i \in 1..n : s[i] \in Elem
  BY DistinctIs
<1>2. p \in Seq(Elem) /\ Len(p) = k - 1 /\ \A i \in 1..(k - 1) : p[i] = s[i]
  <2>1. 1 \in Int /\ k - 1 \in Int /\ \A i \in 1..(k - 1) : s[i] \in Elem
    BY <1>1
  <2>2. /\ p \in Seq(Elem)
        /\ Len(p) = IF 1 <= k - 1 THEN (k - 1) - 1 + 1 ELSE 0
        /\ \A i \in 1..((k - 1) - 1 + 1) : p[i] = s[1 + i - 1]
    BY <2>1, SubSeqProperties
  <2>3. (k - 1) - 1 + 1 = k - 1 /\ \A i \in 1..(k - 1) : 1 + i - 1 = i
    BY <1>1
  <2>4. ~(1 <= k - 1) => k - 1 = 0
    BY <1>1
  <2> QED BY <2>2, <2>3, <2>4
<1>3. q \in Seq(Elem) /\ Len(q) = n - k /\ \A i \in 1..(n - k) : q[i] = s[k + i]
  <2>1. k + 1 \in Int /\ n \in Int /\ \A i \in (k + 1)..n : s[i] \in Elem
    BY <1>1
  <2>2. /\ q \in Seq(Elem)
        /\ Len(q) = IF k + 1 <= n THEN n - (k + 1) + 1 ELSE 0
        /\ \A i \in 1..(n - (k + 1) + 1) : q[i] = s[(k + 1) + i - 1]
    BY <2>1, SubSeqProperties
  <2>3. n - (k + 1) + 1 = n - k /\ \A i \in 1..(n - k) : (k + 1) + i - 1 = k + i
    BY <1>1
  <2>4. ~(k + 1 <= n) => n - k = 0
    BY <1>1
  <2> QED BY <2>2, <2>3, <2>4
<1> HIDE DEF p, q
<1>4. /\ p \o q \in Seq(Elem) /\ Len(p \o q) = Len(p) + Len(q)
      /\ \A i \in 1..(Len(p) + Len(q)) : (p \o q)[i] = IF i <= Len(p) THEN p[i] ELSE q[i - Len(p)]
  BY <1>2, <1>3, ConcatProperties
<1>5. Len(p) + Len(q) = n - 1
  BY <1>1, <1>2, <1>3
<1>6. ASSUME NEW i \in 1..(n - 1) PROVE (p \o q)[i] = IF i < k THEN s[i] ELSE s[i + 1]
  <2>1. (p \o q)[i] = IF i <= Len(p) THEN p[i] ELSE q[i - Len(p)]
    BY <1>4, <1>5
  <2>2. CASE i < k
    <3>1. i \in 1..(k - 1) /\ i <= k - 1
      BY <2>2, <1>1
    <3> QED BY <3>1, <2>1, <2>2, <1>2
  <2>3. CASE ~(i < k)
    <3>1. ~(i <= k - 1) /\ i - (k - 1) \in 1..(n - k) /\ k + (i - (k - 1)) = i + 1
      BY <2>3, <1>1
    <3>2. q[i - (k - 1)] = s[k + (i - (k - 1))]
      BY <3>1, <1>3
    <3> QED BY <3>1, <3>2, <2>1, <2>3, <1>2
  <2> QED BY <2>2, <2>3
<1>7. RemoveAt(s, k) = p \o q
  BY DEF RemoveAt, p, q
<1> QED BY <1>4, <1>5, <1>6, <1>7

(* The members and the order after a removal. *)
LEMMA RemovedIs ==
  ASSUME NEW s, Distinct(s), NEW k \in 1..Len(s)
  PROVE  /\ Distinct(RemoveAt(s, k)) /\ Len(RemoveAt(s, k)) = Len(s) - 1
         /\ Members(RemoveAt(s, k)) = Members(s) \ {s[k]}
         /\ \A x, y : Before(RemoveAt(s, k), x, y) => Before(s, x, y)
         /\ \A x, y : Before(s, x, y) /\ x # s[k] /\ y # s[k] => Before(RemoveAt(s, k), x, y)
         /\ \A i \in Nat : i < k => At(RemoveAt(s, k), i) = At(s, i)
         /\ \A i \in Nat : i >= k => At(RemoveAt(s, k), i) = At(s, i + 1)
<1> DEFINE n == Len(s)
           r == RemoveAt(s, k)
           was(i) == IF i < k THEN i ELSE i + 1
           now(i) == IF i < k THEN i ELSE i - 1
<1>1. n \in Nat /\ k \in Nat /\ 1 <= k /\ k <= n
  BY DistinctIs
<1>2. /\ r \in Seq(Elem) /\ Len(r) = n - 1
      /\ \A i \in 1..(n - 1) : r[i] = IF i < k THEN s[i] ELSE s[i + 1]
  BY RemovedAt
<1> HIDE DEF r
<1>3. ASSUME NEW i \in 1..Len(r) PROVE was(i) \in 1..n /\ was(i) # k /\ r[i] = s[was(i)]
  <2>1. i \in 1..(n - 1)
    BY <1>2
  <2>2. r[i] = IF i < k THEN s[i] ELSE s[i + 1]
    BY <2>1, <1>2
  <2>3. was(i) \in 1..n /\ was(i) # k
    BY <2>1, <1>1
  <2> QED BY <2>2, <2>3
<1>4. ASSUME NEW i \in 1..n, i # k PROVE now(i) \in 1..Len(r) /\ was(now(i)) = i
  BY <1>1, <1>2, <1>4
<1>5. ASSUME NEW i \in 1..Len(r), NEW j \in 1..Len(r) PROVE i < j <=> was(i) < was(j)
  BY <1>1, <1>2
<1>6. ASSUME NEW i \in 1..n, NEW j \in 1..n, i # k, j # k, i < j PROVE now(i) < now(j)
  BY <1>1, <1>2, <1>6
<1>7. ASSUME NEW i \in 1..n, i # k PROVE r[now(i)] = s[i]
  <2>1. now(i) \in 1..Len(r) /\ was(now(i)) = i
    BY <1>4, <1>7
  <2> HIDE DEF now, was
  <2>2. r[now(i)] = s[was(now(i))]
    BY <2>1, <1>3
  <2> QED BY <2>1, <2>2
<1>8. ASSUME NEW i \in 1..Len(r), NEW j \in 1..Len(r), r[i] = r[j] PROVE i = j
  <2>1. was(i) \in 1..n /\ was(j) \in 1..n /\ s[was(i)] = s[was(j)]
    BY <1>3, <1>8
  <2>2. was(i) = was(j)
    <3> HIDE DEF was
    <3> QED BY <2>1 DEF Distinct
  <2> QED BY <2>2, <1>5, <1>1, <1>2
<1>9. Distinct(r)
  BY <1>2, <1>8 DEF Distinct
<1>10. Members(r) = Members(s) \ {s[k]}
  <2>1. ASSUME NEW x \in Members(r) PROVE x \in Members(s) \ {s[k]}
    <3>1. PICK i \in 1..Len(r) : r[i] = x
      BY DEF Members
    <3>2. was(i) \in 1..n /\ was(i) # k /\ s[was(i)] = x
      BY <3>1, <1>3
    <3> HIDE DEF was
    <3>3. s[was(i)] # s[k]
      BY <3>2 DEF Distinct
    <3> QED BY <3>2, <3>3 DEF Members
  <2>2. ASSUME NEW x \in Members(s) \ {s[k]} PROVE x \in Members(r)
    <3>1. PICK i \in 1..n : s[i] = x
      BY DEF Members
    <3>2. i # k
      BY <3>1
    <3>3. now(i) \in 1..Len(r) /\ r[now(i)] = x
      BY <3>1, <3>2, <1>4, <1>7
    <3> HIDE DEF now
    <3> QED BY <3>3 DEF Members
  <2> QED BY <2>1, <2>2
<1>11. ASSUME NEW x, NEW y, Before(r, x, y) PROVE Before(s, x, y)
  <2>1. PICK i \in 1..Len(r), j \in 1..Len(r) : i < j /\ r[i] = x /\ r[j] = y
    BY <1>11 DEF Before
  <2>2. was(i) < was(j) /\ was(i) \in 1..n /\ was(j) \in 1..n /\ s[was(i)] = x /\ s[was(j)] = y
    BY <2>1, <1>3, <1>5
  <2> HIDE DEF was
  <2> QED BY <2>2 DEF Before
<1>12. ASSUME NEW x, NEW y, Before(s, x, y), x # s[k], y # s[k] PROVE Before(r, x, y)
  <2>1. PICK i \in 1..n, j \in 1..n : i < j /\ s[i] = x /\ s[j] = y
    BY <1>12 DEF Before
  <2>2. i # k /\ j # k
    BY <2>1, <1>12
  <2>3. now(i) < now(j) /\ now(i) \in 1..Len(r) /\ now(j) \in 1..Len(r)
    BY <2>1, <2>2, <1>4, <1>6
  <2>4. r[now(i)] = x /\ r[now(j)] = y
    BY <2>1, <2>2, <1>7
  <2> HIDE DEF now
  <2> QED BY <2>3, <2>4 DEF Before
<1>13. ASSUME NEW i \in Nat, i < k PROVE At(r, i) = At(s, i)
  <2>1. CASE i = 0
    BY <2>1 DEF At
  <2>2. CASE i # 0
    <3>1. i \in 1..(n - 1) /\ i \in 1..n
      BY <2>2, <1>13, <1>1
    <3>2. r[i] = s[i]
      BY <3>1, <1>2, <1>13
    <3> QED BY <3>1, <3>2, <1>2 DEF At
  <2> QED BY <2>1, <2>2
<1>14. ASSUME NEW i \in Nat, i >= k PROVE At(r, i) = At(s, i + 1)
  <2>1. CASE i \in 1..(n - 1)
    <3>1. i + 1 \in 1..n /\ ~(i < k)
      BY <2>1, <1>14, <1>1
    <3>2. r[i] = s[i + 1]
      BY <3>1, <2>1, <1>2
    <3> QED BY <3>1, <3>2, <2>1, <1>2 DEF At
  <2>2. CASE i \notin 1..(n - 1)
    <3>1. i + 1 \notin 1..n
      BY <2>2, <1>14, <1>1
    <3> QED BY <3>1, <2>2, <1>2 DEF At
  <2> QED BY <2>1, <2>2
<1> QED BY <1>2, <1>9, <1>10, <1>11, <1>12, <1>13, <1>14 DEF r

(* The links of the neighbours of e, which it hands on, and of the others. *)
GapLinks(s, e, nxt, prv, nxt2, prv2) ==
  \A x \in Members(s) \ {e} :
    /\ nxt2[x] = IF x = prv[e] THEN nxt[e] ELSE nxt[x]
    /\ prv2[x] = IF x = nxt[e] THEN prv[e] ELSE prv[x]

(* A list s from which e is removed, rest is what is left: the head moves  *)
(* on from e, the last element is the one before it.                       *)
Gapped(s, e, rest, first, nxt, prv, nxt2, prv2) ==
  /\ Chained(rest, IF first = e THEN nxt[e] ELSE first, nxt2, prv2)
  /\ first = e <=> prv[e] = Nil
  /\ At(rest, Len(rest)) = (IF At(s, Len(s)) = e THEN prv[e] ELSE At(s, Len(s)))
  /\ nxt[e] \in (Members(s) \ {e}) \cup {Nil}
  /\ prv[e] \in (Members(s) \ {e}) \cup {Nil}

(* The links after a removal, and the last element. *)
LEMMA RemovedLinks ==
  ASSUME NEW s, NEW first, NEW nxt, NEW prv, Chained(s, first, nxt, prv),
         NEW k \in 1..Len(s), NEW nxt2, NEW prv2,
         GapLinks(s, s[k], nxt, prv, nxt2, prv2)
  PROVE  Gapped(s, s[k], RemoveAt(s, k), first, nxt, prv, nxt2, prv2)
<1> DEFINE n == Len(s)
           r == RemoveAt(s, k)
           e == s[k]
<1>0. Distinct(s) /\ first = At(s, 1) /\ nxt[e] = At(s, k + 1) /\ prv[e] = At(s, k - 1)
  BY DEF Chained
<1>1. n \in Nat /\ k \in Nat /\ 1 <= k /\ k <= n /\ \A i \in 1..n : s[i] # Nil
  BY <1>0, DistinctIs
<1>2. /\ Distinct(r) /\ Len(r) = n - 1
      /\ \A i \in Nat : i < k => At(r, i) = At(s, i)
      /\ \A i \in Nat : i >= k => At(r, i) = At(s, i + 1)
  BY <1>0, RemovedIs
<1>3. /\ r \in Seq(Elem)
      /\ \A i \in 1..(n - 1) : r[i] = IF i < k THEN s[i] ELSE s[i + 1]
  BY <1>0, RemovedAt
<1> HIDE DEF r
<1>4. \A i \in 1..n : At(s, i) = s[i]
  BY DEF At
<1>5. \A i \in 0..(n + 1) : \A j \in 1..n : At(s, i) = s[j] <=> i = j
  <2>1. ASSUME NEW i \in 0..(n + 1), NEW j \in 1..n PROVE At(s, i) = s[j] <=> i = j
    <3>1. CASE i \in 1..n
      BY <3>1, <1>0, <1>4 DEF Distinct
    <3>2. CASE i \notin 1..n
      BY <3>2, <1>1 DEF At
    <3> QED BY <3>1, <3>2
  <2> QED BY <2>1
<1>6. k - 1 \in 0..(n + 1) /\ k + 1 \in 0..(n + 1) /\ 1 \in 0..(n + 1) /\ n \in 0..(n + 1)
  BY <1>1
<1>7. first = e <=> k = 1
  BY <1>0, <1>5, <1>6, <1>1
<1>8. (IF first = e THEN nxt[e] ELSE first) = At(r, 1)
  <2>1. CASE k = 1
    <3>1. At(r, 1) = At(s, 1 + 1)
      BY <2>1, <1>2
    <3> QED BY <3>1, <2>1, <1>0, <1>7
  <2>2. CASE k # 1
    <3>1. 1 < k
      BY <2>2, <1>1
    <3>2. At(r, 1) = At(s, 1)
      BY <3>1, <1>2
    <3> QED BY <3>2, <2>2, <1>0, <1>7
  <2> QED BY <2>1, <2>2
<1>9. ASSUME NEW i \in 1..Len(r) PROVE nxt2[r[i]] = At(r, i + 1) /\ prv2[r[i]] = At(r, i - 1)
  <2>0. i \in 1..(n - 1) /\ i \in Nat /\ i + 1 \in Nat /\ i - 1 \in Nat
    BY <1>1, <1>2
  <2>1. CASE i < k
    <3>1. i \in 1..n /\ i # k /\ r[i] = s[i] /\ s[i] # e
      <4>1. i \in 1..n /\ i # k /\ r[i] = s[i]
        BY <2>0, <2>1, <1>1, <1>3
      <4> QED BY <4>1, <1>0 DEF Distinct
    <3>2. /\ nxt2[s[i]] = IF s[i] = prv[e] THEN nxt[e] ELSE nxt[s[i]]
          /\ prv2[s[i]] = IF s[i] = nxt[e] THEN prv[e] ELSE prv[s[i]]
      BY <3>1 DEF GapLinks, Members
    <3>3. nxt[s[i]] = At(s, i + 1) /\ prv[s[i]] = At(s, i - 1)
      BY <3>1 DEF Chained
    <3>4. s[i] # nxt[e]
      <4>1. k + 1 # i
        BY <2>1, <1>1, <2>0
      <4> QED BY <4>1, <3>1, <1>0, <1>5, <1>6
    <3>5. At(r, i - 1) = At(s, i - 1)
      <4>1. i - 1 < k
        BY <2>0, <2>1, <1>1
      <4> QED BY <4>1, <2>0, <1>2
    <3>6. nxt2[s[i]] = At(r, i + 1)
      <4>1. CASE i = k - 1
        <5>1. s[i] = prv[e]
          BY <4>1, <3>1, <1>0, <1>5, <1>6
        <5>2. At(r, i + 1) = At(s, i + 1 + 1)
          <6>1. i + 1 >= k
            BY <4>1, <1>1
          <6> QED BY <6>1, <2>0, <1>2
        <5>3. i + 1 + 1 = k + 1
          BY <4>1, <1>1
        <5> QED BY <5>1, <5>2, <5>3, <3>2, <1>0
      <4>2. CASE i # k - 1
        <5>1. s[i] # prv[e]
          BY <4>2, <3>1, <1>0, <1>5, <1>6
        <5>2. i + 1 < k
          BY <4>2, <2>0, <2>1, <1>1
        <5>3. At(r, i + 1) = At(s, i + 1)
          BY <5>2, <2>0, <1>2
        <5> QED BY <5>1, <5>3, <3>2, <3>3
      <4> QED BY <4>1, <4>2
    <3> QED BY <3>1, <3>2, <3>3, <3>4, <3>5, <3>6
  <2>2. CASE ~(i < k)
    <3>0. i >= k /\ i + 1 \in 1..n /\ i + 1 # k
      BY <2>0, <2>2, <1>1
    <3>1. r[i] = s[i + 1]
      BY <2>0, <2>2, <1>3
    <3>2. s[i + 1] # e
      BY <3>0, <1>0 DEF Distinct
    <3>3. /\ nxt2[s[i + 1]] = IF s[i + 1] = prv[e] THEN nxt[e] ELSE nxt[s[i + 1]]
          /\ prv2[s[i + 1]] = IF s[i + 1] = nxt[e] THEN prv[e] ELSE prv[s[i + 1]]
      BY <3>0, <3>2 DEF GapLinks, Members
    <3>4. nxt[s[i + 1]] = At(s, (i + 1) + 1) /\ prv[s[i + 1]] = At(s, (i + 1) - 1)
      BY <3>0 DEF Chained
    <3>5. s[i + 1] # prv[e]
      <4>1. k - 1 # i + 1
        BY <3>0, <1>1, <2>0
      <4> QED BY <4>1, <3>0, <1>0, <1>5, <1>6
    <3>6. At(r, i + 1) = At(s, (i + 1) + 1)
      <4>1. i + 1 >= k
        BY <3>0, <2>0, <1>1
      <4> QED BY <4>1, <2>0, <1>2
    <3>7. prv2[s[i + 1]] = At(r, i - 1)
      <4>1. CASE i = k
        <5>1. s[i + 1] = nxt[e]
          BY <4>1, <3>0, <1>0, <1>5, <1>6
        <5>2. At(r, i - 1) = At(s, i - 1)
          <6>1. i - 1 < k
            BY <4>1, <1>1
          <6> QED BY <6>1, <2>0, <1>2
        <5> QED BY <5>1, <5>2, <4>1, <3>3, <1>0
      <4>2. CASE i # k
        <5>1. s[i + 1] # nxt[e]
          <6>1. i + 1 # k + 1
            BY <4>2, <2>0, <1>1
          <6> QED BY <6>1, <3>0, <1>0, <1>5, <1>6
        <5>2. At(r, i - 1) = At(s, (i - 1) + 1)
          <6>1. i - 1 >= k
            BY <4>2, <3>0, <2>0, <1>1
          <6> QED BY <6>1, <2>0, <1>2
        <5>3. (i - 1) + 1 = (i + 1) - 1
          BY <2>0
        <5> QED BY <5>1, <5>2, <5>3, <3>3, <3>4
      <4> QED BY <4>1, <4>2
    <3> QED BY <3>1, <3>3, <3>4, <3>5, <3>6, <3>7
  <2> QED BY <2>1, <2>2
<1>10. Chained(r, IF first = e THEN nxt[e] ELSE first, nxt2, prv2)
  <2> HIDE DEF e
  <2> QED BY <1>2, <1>8, <1>9 DEF Chained
<1>11. first = e <=> prv[e] = Nil
  <2>1. CASE k = 1
    BY <2>1, <1>0, <1>7 DEF At
  <2>2. CASE k # 1
    <3>1. k - 1 \in 1..n
      BY <2>2, <1>1
    <3> QED BY <3>1, <2>2, <1>0, <1>1, <1>4, <1>7
  <2> QED BY <2>1, <2>2
<1>12. At(r, Len(r)) = IF At(s, n) = e THEN prv[e] ELSE At(s, n)
  <2>0. Len(r) \in Nat /\ Len(r) = n - 1
    BY <1>1, <1>2
  <2>1. CASE k = n
    <3>1. At(s, n) = e
      BY <2>1, <1>1, <1>4
    <3>2. n - 1 < k
      BY <2>1, <1>1
    <3>3. At(r, n - 1) = At(s, n - 1)
      BY <3>2, <2>0, <1>2
    <3> QED BY <3>1, <3>3, <2>0, <2>1, <1>0
  <2>2. CASE k # n
    <3>1. At(s, n) # e
      BY <2>2, <1>5, <1>6
    <3>2. n - 1 >= k /\ (n - 1) + 1 = n
      BY <2>2, <1>1
    <3>3. At(r, n - 1) = At(s, (n - 1) + 1)
      BY <3>2, <2>0, <1>2
    <3> QED BY <3>1, <3>2, <3>3, <2>0
  <2> QED BY <2>1, <2>2
<1>13. nxt[e] \in (Members(s) \ {e}) \cup {Nil} /\ prv[e] \in (Members(s) \ {e}) \cup {Nil}
  <2>1. nxt[e] # e /\ prv[e] # e
    BY <1>0, <1>1, <1>5, <1>6
  <2>2. nxt[e] \in Members(s) \cup {Nil} /\ prv[e] \in Members(s) \cup {Nil}
    BY <1>0 DEF At, Members
  <2> QED BY <2>1, <2>2
<1> HIDE DEF e
<1>14. Gapped(s, e, r, first, nxt, prv, nxt2, prv2)
  BY <1>10, <1>11, <1>12, <1>13 DEF Gapped
<1> QED BY <1>14 DEF r, e

-----------------------------------------------------------------------------
(* The table: its fields, its handles as links, its chains.                *)
Bucket == [first : Ptr, count : Nat, mult : Nat]
Handle == [prev : Ptr, next : Ptr, hh_prev : Ptr, hh_next : Ptr]

(* m is the number of its buckets, which in the middle of an expansion is  *)
(* not yet num_buckets.                                                    *)
Table(t, m) ==
  t \in [head : Ptr, tail : Ptr, num_items : Nat, num_buckets : Nat \ {0}, ineff : Nat,
         noexpand : BOOLEAN, bucket : [0..(m - 1) -> Bucket], hh : [Elem -> Handle]]

NextOf(t)   == [e \in Elem |-> t.hh[e].next]
PrevOf(t)   == [e \in Elem |-> t.hh[e].prev]
HhNextOf(t) == [e \in Elem |-> t.hh[e].hh_next]
HhPrevOf(t) == [e \in Elem |-> t.hh[e].hh_prev]

(* What a step that rearranges the chains leaves as it was, and what one   *)
(* does that rearranges the list.                                          *)
Kept(t, u) ==
  /\ u.head = t.head /\ u.tail = t.tail /\ u.num_items = t.num_items
  /\ u.num_buckets = t.num_buckets /\ u.ineff = t.ineff /\ u.noexpand = t.noexpand
  /\ NextOf(u) = NextOf(t) /\ PrevOf(u) = PrevOf(t)

ChainsKept(t, u) ==
  /\ u.bucket = t.bucket /\ HhNextOf(u) = HhNextOf(t) /\ HhPrevOf(u) = HhPrevOf(t)
  /\ u.num_buckets = t.num_buckets /\ u.ineff = t.ineff /\ u.noexpand = t.noexpand

(* The list of all elements is order; the elements of S are in m chains,   *)
(* each in that of its hash value.                                         *)
ListIs(t, order) ==
  /\ Chained(order, t.head, NextOf(t), PrevOf(t))
  /\ t.tail = At(order, Len(order)) /\ t.num_items = Len(order)

BktOf(e, m) == ToBkt(Hash[KeyOf[e]], m)

ChainsAre(t, chain, m, S) ==
  /\ S \subseteq Elem /\ chain \in [0..(m - 1) -> Seq(Elem)]
  /\ \A b \in 0..(m - 1) :
       /\ Chained(chain[b], t.bucket[b].first, HhNextOf(t), HhPrevOf(t))
       /\ Members(chain[b]) = {e \in S : BktOf(e, m) = b}
       /\ t.bucket[b].count = Len(chain[b])

(* The bucket of an element is a bucket. *)
LEMMA BktOfIs ==
  ASSUME NEW e \in Elem, NEW m \in Nat \ {0}
  PROVE  BktOf(e, m) \in 0..(m - 1)
<1>1. KeyOf[e] \in Key /\ Hash \in [Key -> Nat]
  BY UtHashAssumption DEF Key
<1>2. Hash[KeyOf[e]] \in Nat
  BY <1>1
<1> DEFINE h == Hash[KeyOf[e]]
<1> HIDE DEF h
<1>3. h \in Nat
  BY <1>2 DEF h
<1>4. h % m \in 0..(m - 1)
  BY <1>3
<1> QED BY <1>4 DEF BktOf, ToBkt, h

(* One field of one handle set. *)
LEMMA HandleSet ==
  ASSUME NEW m, NEW t, Table(t, m), NEW e \in Elem, NEW h \in Handle
  PROVE  LET u == [t EXCEPT !.hh = [t.hh EXCEPT ![e] = h]]
         IN  /\ Table(u, m) /\ u.bucket = t.bucket /\ u.hh[e] = h
             /\ \A x \in Elem : x # e => u.hh[x] = t.hh[x]
             /\ u.head = t.head /\ u.tail = t.tail /\ u.num_items = t.num_items
             /\ u.num_buckets = t.num_buckets /\ u.ineff = t.ineff /\ u.noexpand = t.noexpand
<1>1. [t.hh EXCEPT ![e] = h] \in [Elem -> Handle]
  BY DEF Table
<1> QED BY <1>1 DEF Table

(* A link forward in a chain set. *)
LEMMA HhNextSet ==
  ASSUME NEW m, NEW t, Table(t, m), NEW e \in Elem, NEW v \in Ptr
  PROVE  LET u == [t EXCEPT !.hh[e].hh_next = v]
         IN  /\ Table(u, m) /\ Kept(t, u) /\ u.bucket = t.bucket
             /\ HhPrevOf(u) = HhPrevOf(t) /\ HhNextOf(u)[e] = v
             /\ \A x \in Elem : x # e => HhNextOf(u)[x] = HhNextOf(t)[x]
<1> DEFINE u == [t EXCEPT !.hh[e].hh_next = v]
           h == [t.hh[e] EXCEPT !.hh_next = v]
<1>0. t.hh[e] \in Handle
  BY DEF Table
<1>1. /\ h \in Handle /\ h.hh_next = v /\ h.hh_prev = t.hh[e].hh_prev
      /\ h.next = t.hh[e].next /\ h.prev = t.hh[e].prev
  BY <1>0 DEF Handle
<1>2. u = [t EXCEPT !.hh = [t.hh EXCEPT ![e] = h]]
  OBVIOUS
<1> HIDE DEF u, h
<1>3. /\ Table(u, m) /\ u.bucket = t.bucket /\ u.hh[e] = h
      /\ \A x \in Elem : x # e => u.hh[x] = t.hh[x]
      /\ u.head = t.head /\ u.tail = t.tail /\ u.num_items = t.num_items
      /\ u.num_buckets = t.num_buckets /\ u.ineff = t.ineff /\ u.noexpand = t.noexpand
  BY <1>1, <1>2, HandleSet
<1> QED BY <1>1, <1>3 DEF Kept, ChainsKept, NextOf, PrevOf, HhNextOf, HhPrevOf, u

(* A link backward in a chain set. *)
LEMMA HhPrevSet ==
  ASSUME NEW m, NEW t, Table(t, m), NEW e \in Elem, NEW v \in Ptr
  PROVE  LET u == [t EXCEPT !.hh[e].hh_prev = v]
         IN  /\ Table(u, m) /\ Kept(t, u) /\ u.bucket = t.bucket
             /\ HhNextOf(u) = HhNextOf(t) /\ HhPrevOf(u)[e] = v
             /\ \A x \in Elem : x # e => HhPrevOf(u)[x] = HhPrevOf(t)[x]
<1> DEFINE u == [t EXCEPT !.hh[e].hh_prev = v]
           h == [t.hh[e] EXCEPT !.hh_prev = v]
<1>0. t.hh[e] \in Handle
  BY DEF Table
<1>1. /\ h \in Handle /\ h.hh_prev = v /\ h.hh_next = t.hh[e].hh_next
      /\ h.next = t.hh[e].next /\ h.prev = t.hh[e].prev
  BY <1>0 DEF Handle
<1>2. u = [t EXCEPT !.hh = [t.hh EXCEPT ![e] = h]]
  OBVIOUS
<1> HIDE DEF u, h
<1>3. /\ Table(u, m) /\ u.bucket = t.bucket /\ u.hh[e] = h
      /\ \A x \in Elem : x # e => u.hh[x] = t.hh[x]
      /\ u.head = t.head /\ u.tail = t.tail /\ u.num_items = t.num_items
      /\ u.num_buckets = t.num_buckets /\ u.ineff = t.ineff /\ u.noexpand = t.noexpand
  BY <1>1, <1>2, HandleSet
<1> QED BY <1>1, <1>3 DEF Kept, ChainsKept, NextOf, PrevOf, HhNextOf, HhPrevOf, u

(* A link forward in the list set. *)
LEMMA NextSet ==
  ASSUME NEW m, NEW t, Table(t, m), NEW e \in Elem, NEW v \in Ptr
  PROVE  LET u == [t EXCEPT !.hh[e].next = v]
         IN  /\ Table(u, m) /\ ChainsKept(t, u)
             /\ u.head = t.head /\ u.tail = t.tail /\ u.num_items = t.num_items
             /\ PrevOf(u) = PrevOf(t) /\ NextOf(u)[e] = v
             /\ \A x \in Elem : x # e => NextOf(u)[x] = NextOf(t)[x]
<1> DEFINE u == [t EXCEPT !.hh[e].next = v]
           h == [t.hh[e] EXCEPT !.next = v]
<1>0. t.hh[e] \in Handle
  BY DEF Table
<1>1. /\ h \in Handle /\ h.next = v /\ h.prev = t.hh[e].prev
      /\ h.hh_next = t.hh[e].hh_next /\ h.hh_prev = t.hh[e].hh_prev
  BY <1>0 DEF Handle
<1>2. u = [t EXCEPT !.hh = [t.hh EXCEPT ![e] = h]]
  OBVIOUS
<1> HIDE DEF u, h
<1>3. /\ Table(u, m) /\ u.bucket = t.bucket /\ u.hh[e] = h
      /\ \A x \in Elem : x # e => u.hh[x] = t.hh[x]
      /\ u.head = t.head /\ u.tail = t.tail /\ u.num_items = t.num_items
      /\ u.num_buckets = t.num_buckets /\ u.ineff = t.ineff /\ u.noexpand = t.noexpand
  BY <1>1, <1>2, HandleSet
<1> QED BY <1>1, <1>3 DEF Kept, ChainsKept, NextOf, PrevOf, HhNextOf, HhPrevOf, u

(* A link backward in the list set. *)
LEMMA PrevSet ==
  ASSUME NEW m, NEW t, Table(t, m), NEW e \in Elem, NEW v \in Ptr
  PROVE  LET u == [t EXCEPT !.hh[e].prev = v]
         IN  /\ Table(u, m) /\ ChainsKept(t, u)
             /\ u.head = t.head /\ u.tail = t.tail /\ u.num_items = t.num_items
             /\ NextOf(u) = NextOf(t) /\ PrevOf(u)[e] = v
             /\ \A x \in Elem : x # e => PrevOf(u)[x] = PrevOf(t)[x]
<1> DEFINE u == [t EXCEPT !.hh[e].prev = v]
           h == [t.hh[e] EXCEPT !.prev = v]
<1>0. t.hh[e] \in Handle
  BY DEF Table
<1>1. /\ h \in Handle /\ h.prev = v /\ h.next = t.hh[e].next
      /\ h.hh_next = t.hh[e].hh_next /\ h.hh_prev = t.hh[e].hh_prev
  BY <1>0 DEF Handle
<1>2. u = [t EXCEPT !.hh = [t.hh EXCEPT ![e] = h]]
  OBVIOUS
<1> HIDE DEF u, h
<1>3. /\ Table(u, m) /\ u.bucket = t.bucket /\ u.hh[e] = h
      /\ \A x \in Elem : x # e => u.hh[x] = t.hh[x]
      /\ u.head = t.head /\ u.tail = t.tail /\ u.num_items = t.num_items
      /\ u.num_buckets = t.num_buckets /\ u.ineff = t.ineff /\ u.noexpand = t.noexpand
  BY <1>1, <1>2, HandleSet
<1> QED BY <1>1, <1>3 DEF Kept, ChainsKept, NextOf, PrevOf, HhNextOf, HhPrevOf, u

(* A bucket set. *)
LEMMA BucketSet ==
  ASSUME NEW m, NEW t, Table(t, m), NEW b \in 0..(m - 1), NEW k \in Bucket
  PROVE  LET u == [t EXCEPT !.bucket = [t.bucket EXCEPT ![b] = k]]
         IN  /\ Table(u, m) /\ Kept(t, u)
             /\ HhNextOf(u) = HhNextOf(t) /\ HhPrevOf(u) = HhPrevOf(t)
             /\ u.bucket[b] = k /\ \A c \in 0..(m - 1) : c # b => u.bucket[c] = t.bucket[c]
<1> DEFINE u == [t EXCEPT !.bucket = [t.bucket EXCEPT ![b] = k]]
<1>1. [t.bucket EXCEPT ![b] = k] \in [0..(m - 1) -> Bucket]
  BY DEF Table
<1>2. Table(u, m)
  BY <1>1 DEF Table
<1>3. /\ u.hh = t.hh /\ u.head = t.head /\ u.tail = t.tail /\ u.num_items = t.num_items
      /\ u.num_buckets = t.num_buckets /\ u.ineff = t.ineff /\ u.noexpand = t.noexpand
      /\ u.bucket = [t.bucket EXCEPT ![b] = k]
  BY DEF Table
<1>4. u.bucket[b] = k /\ \A c \in 0..(m - 1) : c # b => u.bucket[c] = t.bucket[c]
  BY <1>3 DEF Table
<1> QED BY <1>2, <1>3, <1>4 DEF Kept, NextOf, PrevOf, HhNextOf, HhPrevOf

(* The head and the count of a bucket set. *)
LEMMA FirstSet ==
  ASSUME NEW m, NEW t, Table(t, m), NEW b \in 0..(m - 1), NEW v \in Ptr
  PROVE  LET u == [t EXCEPT !.bucket[b].first = v]
         IN  /\ Table(u, m) /\ Kept(t, u)
             /\ HhNextOf(u) = HhNextOf(t) /\ HhPrevOf(u) = HhPrevOf(t)
             /\ u.bucket[b].first = v /\ u.bucket[b].count = t.bucket[b].count
             /\ \A c \in 0..(m - 1) : c # b => u.bucket[c] = t.bucket[c]
<1> DEFINE u == [t EXCEPT !.bucket[b].first = v]
           k == [t.bucket[b] EXCEPT !.first = v]
<1>1. t.bucket[b] \in Bucket
  BY DEF Table
<1>2. k \in Bucket /\ k.first = v /\ k.count = t.bucket[b].count
  BY <1>1 DEF Bucket
<1>3. u = [t EXCEPT !.bucket = [t.bucket EXCEPT ![b] = k]]
  OBVIOUS
<1> HIDE DEF u, k
<1>4. /\ Table(u, m) /\ Kept(t, u)
      /\ HhNextOf(u) = HhNextOf(t) /\ HhPrevOf(u) = HhPrevOf(t)
      /\ u.bucket[b] = k /\ \A c \in 0..(m - 1) : c # b => u.bucket[c] = t.bucket[c]
  BY <1>2, <1>3, BucketSet
<1> QED BY <1>2, <1>4 DEF u

(* Likewise the count. *)
LEMMA CountSet ==
  ASSUME NEW m, NEW t, Table(t, m), NEW b \in 0..(m - 1), NEW v \in Nat
  PROVE  LET u == [t EXCEPT !.bucket[b].count = v]
         IN  /\ Table(u, m) /\ Kept(t, u)
             /\ HhNextOf(u) = HhNextOf(t) /\ HhPrevOf(u) = HhPrevOf(t)
             /\ u.bucket[b].first = t.bucket[b].first /\ u.bucket[b].count = v
             /\ \A c \in 0..(m - 1) : c # b => u.bucket[c] = t.bucket[c]
<1> DEFINE u == [t EXCEPT !.bucket[b].count = v]
           k == [t.bucket[b] EXCEPT !.count = v]
<1>1. t.bucket[b] \in Bucket
  BY DEF Table
<1>2. k \in Bucket /\ k.first = t.bucket[b].first /\ k.count = v
  BY <1>1 DEF Bucket
<1>3. u = [t EXCEPT !.bucket = [t.bucket EXCEPT ![b] = k]]
  OBVIOUS
<1> HIDE DEF u, k
<1>4. /\ Table(u, m) /\ Kept(t, u)
      /\ HhNextOf(u) = HhNextOf(t) /\ HhPrevOf(u) = HhPrevOf(t)
      /\ u.bucket[b] = k /\ \A c \in 0..(m - 1) : c # b => u.bucket[c] = t.bucket[c]
  BY <1>2, <1>3, BucketSet
<1> QED BY <1>2, <1>4 DEF u

(* Likewise the times its chain may be longer than ideal. *)
LEMMA MultSet ==
  ASSUME NEW m, NEW t, Table(t, m), NEW b \in 0..(m - 1), NEW v \in Nat
  PROVE  LET u == [t EXCEPT !.bucket[b].mult = v]
         IN  /\ Table(u, m) /\ Kept(t, u)
             /\ HhNextOf(u) = HhNextOf(t) /\ HhPrevOf(u) = HhPrevOf(t)
             /\ u.bucket[b].first = t.bucket[b].first /\ u.bucket[b].count = t.bucket[b].count
             /\ \A c \in 0..(m - 1) : c # b => u.bucket[c] = t.bucket[c]
<1> DEFINE u == [t EXCEPT !.bucket[b].mult = v]
           k == [t.bucket[b] EXCEPT !.mult = v]
<1>1. t.bucket[b] \in Bucket
  BY DEF Table
<1>2. k \in Bucket /\ k.first = t.bucket[b].first /\ k.count = t.bucket[b].count
  BY <1>1 DEF Bucket
<1>3. u = [t EXCEPT !.bucket = [t.bucket EXCEPT ![b] = k]]
  OBVIOUS
<1> HIDE DEF u, k
<1>4. /\ Table(u, m) /\ Kept(t, u)
      /\ HhNextOf(u) = HhNextOf(t) /\ HhPrevOf(u) = HhPrevOf(t)
      /\ u.bucket[b] = k /\ \A c \in 0..(m - 1) : c # b => u.bucket[c] = t.bucket[c]
  BY <1>2, <1>3, BucketSet
<1> QED BY <1>2, <1>4 DEF u

(* What is kept twice is kept. *)
LEMMA KeptTwice ==
  ASSUME NEW t, NEW u, NEW v, Kept(t, u), Kept(u, v)
  PROVE  Kept(t, v)
BY DEF Kept

(* What HASH_ADD_TO_BKT changes. *)
LEMMA PushedIs ==
  ASSUME NEW m, NEW t, Table(t, m), NEW e \in Elem, NEW b \in 0..(m - 1),
         t.bucket[b].first # e
  PROVE  LET p     == Pushed(t, e, b)
             first == t.bucket[b].first
         IN  /\ Table(p, m) /\ Kept(t, p)
             /\ p.bucket[b].first = e /\ p.bucket[b].count = t.bucket[b].count + 1
             /\ \A c \in 0..(m - 1) : c # b => p.bucket[c] = t.bucket[c]
             /\ HhNextOf(p)[e] = first /\ HhPrevOf(p)[e] = Nil
             /\ \A x \in Elem : x # e => HhNextOf(p)[x] = HhNextOf(t)[x]
             /\ \A x \in Elem : x # e => HhPrevOf(p)[x] = IF x = first THEN e ELSE HhPrevOf(t)[x]
<1> DEFINE first == t.bucket[b].first
           back  == IF first = Nil THEN t ELSE [t EXCEPT !.hh[first].hh_prev = e]
           p1    == [back EXCEPT !.hh[e].hh_next = first]
           p2    == [p1 EXCEPT !.hh[e].hh_prev = Nil]
           p3    == [p2 EXCEPT !.bucket[b].first = e]
           n     == t.bucket[b].count + 1
           p4    == [p3 EXCEPT !.bucket[b].count = n]
           p     == Pushed(t, e, b)
<1>0. Nil \notin Elem /\ Nil \in Ptr /\ e \in Ptr
  BY UtHashAssumption DEF Ptr
<1>1. first \in Ptr /\ first # e /\ n \in Nat
  <2>1. t.bucket[b] \in Bucket
    BY DEF Table
  <2> QED BY <2>1 DEF Bucket
<1>2. /\ Table(back, m) /\ Kept(t, back) /\ back.bucket = t.bucket
      /\ HhNextOf(back) = HhNextOf(t)
      /\ \A x \in Elem : HhPrevOf(back)[x] = IF x = first THEN e ELSE HhPrevOf(t)[x]
  <2>1. CASE first = Nil
    BY <2>1, <1>0 DEF Kept
  <2>2. CASE first # Nil
    <3>1. first \in Elem
      BY <2>2, <1>1 DEF Ptr
    <3>2. back = [t EXCEPT !.hh[first].hh_prev = e]
      BY <2>2
    <3> HIDE DEF first, back
    <3>3. /\ Table(back, m) /\ Kept(t, back) /\ back.bucket = t.bucket
          /\ HhNextOf(back) = HhNextOf(t) /\ HhPrevOf(back)[first] = e
          /\ \A x \in Elem : x # first => HhPrevOf(back)[x] = HhPrevOf(t)[x]
      BY <3>1, <3>2, <1>0, HhPrevSet
    <3> QED BY <3>3
  <2> QED BY <2>1, <2>2
<1> HIDE DEF first, back
<1>e1. p1 = [back EXCEPT !.hh[e].hh_next = first]
  OBVIOUS
<1>e2. p2 = [p1 EXCEPT !.hh[e].hh_prev = Nil]
  OBVIOUS
<1> HIDE DEF p1, p2
<1>3. /\ Table(p1, m) /\ Kept(back, p1) /\ p1.bucket = back.bucket
      /\ HhPrevOf(p1) = HhPrevOf(back) /\ HhNextOf(p1)[e] = first
      /\ \A x \in Elem : x # e => HhNextOf(p1)[x] = HhNextOf(back)[x]
  <2>1. Table(back, m) /\ first \in Ptr
    BY <1>1, <1>2
  <2> QED BY <2>1, <1>e1, HhNextSet
<1>4. /\ Table(p2, m) /\ Kept(p1, p2) /\ p2.bucket = p1.bucket
      /\ HhNextOf(p2) = HhNextOf(p1) /\ HhPrevOf(p2)[e] = Nil
      /\ \A x \in Elem : x # e => HhPrevOf(p2)[x] = HhPrevOf(p1)[x]
  <2>1. Table(p1, m) /\ Nil \in Ptr
    BY <1>0, <1>3
  <2> QED BY <2>1, <1>e2, HhPrevSet
<1>5. /\ Table(p3, m) /\ Kept(p2, p3)
      /\ HhNextOf(p3) = HhNextOf(p2) /\ HhPrevOf(p3) = HhPrevOf(p2)
      /\ p3.bucket[b].first = e /\ p3.bucket[b].count = p2.bucket[b].count
      /\ \A c \in 0..(m - 1) : c # b => p3.bucket[c] = p2.bucket[c]
  BY <1>0, <1>4, FirstSet
<1> HIDE DEF p3, n
<1>6. /\ Table(p4, m) /\ Kept(p3, p4)
      /\ HhNextOf(p4) = HhNextOf(p3) /\ HhPrevOf(p4) = HhPrevOf(p3)
      /\ p4.bucket[b].first = p3.bucket[b].first /\ p4.bucket[b].count = n
      /\ \A c \in 0..(m - 1) : c # b => p4.bucket[c] = p3.bucket[c]
  BY <1>1, <1>5, CountSet
<1>7. p = p4
  <2>1. p = [back EXCEPT !.hh[e].hh_next = first, !.hh[e].hh_prev = Nil,
                         !.bucket[b].first = e, !.bucket[b].count = @ + 1]
    BY DEF Pushed, first, back
  <2> HIDE DEF p
  <2>2. p = [p3 EXCEPT !.bucket[b].count = @ + 1]
    BY <2>1 DEF p1, p2, p3
  <2>3. p3.bucket[b].count + 1 = n
    BY <1>2, <1>3, <1>4, <1>5 DEF n
  <2> QED BY <2>2, <2>3
<1> HIDE DEF p4
<1>8. Kept(t, p4)
  BY <1>2, <1>3, <1>4, <1>5, <1>6, KeptTwice
<1>9. p4.bucket[b].first = e /\ p4.bucket[b].count = t.bucket[b].count + 1
  BY <1>5, <1>6 DEF n
<1>10. \A c \in 0..(m - 1) : c # b => p4.bucket[c] = t.bucket[c]
  BY <1>2, <1>3, <1>4, <1>5, <1>6
<1>11. /\ HhNextOf(p4)[e] = first /\ HhPrevOf(p4)[e] = Nil
       /\ \A x \in Elem : x # e => HhNextOf(p4)[x] = HhNextOf(t)[x]
       /\ \A x \in Elem : x # e => HhPrevOf(p4)[x] = IF x = first THEN e ELSE HhPrevOf(t)[x]
  BY <1>2, <1>3, <1>4, <1>5, <1>6
<1> HIDE DEF p
<1> QED BY <1>6, <1>7, <1>8, <1>9, <1>10, <1>11 DEF p, first

(* An element pushed to its bucket is in the chains with the others. *)
LEMMA PushKeeps ==
  ASSUME NEW m \in Nat \ {0}, NEW t, Table(t, m), NEW chain, NEW S, ChainsAre(t, chain, m, S),
         NEW e \in Elem, e \notin S
  PROVE  LET b == BktOf(e, m)
             p == Pushed(t, e, b)
         IN  /\ Table(p, m) /\ Kept(t, p) /\ b \in 0..(m - 1)
             /\ e \notin Members(chain[b])
             /\ ChainsAre(p, [chain EXCEPT ![b] = <<e>> \o chain[b]], m, S \cup {e})
<1> DEFINE b == BktOf(e, m)
           p == Pushed(t, e, b)
           first == t.bucket[b].first
           new == [chain EXCEPT ![b] = <<e>> \o chain[b]]
<1>1. b \in 0..(m - 1)
  BY BktOfIs
<1> HIDE DEF b
<1>2. /\ Chained(chain[b], first, HhNextOf(t), HhPrevOf(t))
      /\ Members(chain[b]) = {x \in S : BktOf(x, m) = b}
      /\ t.bucket[b].count = Len(chain[b])
  BY <1>1 DEF ChainsAre
<1>3. e \notin Members(chain[b]) /\ Distinct(chain[b]) /\ first = At(chain[b], 1)
  BY <1>2 DEF Chained
<1>4. first # e
  <2>1. CASE 1 \in 1..Len(chain[b])
    <3>1. first \in Members(chain[b])
      BY <2>1, <1>3 DEF At, Members
    <3> QED BY <3>1, <1>3
  <2>2. CASE 1 \notin 1..Len(chain[b])
    <3>1. first = Nil
      BY <2>2, <1>3 DEF At
    <3> QED BY <3>1, UtHashAssumption
  <2> QED BY <2>1, <2>2
<1>5. /\ Table(p, m) /\ Kept(t, p)
      /\ p.bucket[b].first = e /\ p.bucket[b].count = t.bucket[b].count + 1
      /\ \A c \in 0..(m - 1) : c # b => p.bucket[c] = t.bucket[c]
      /\ HhNextOf(p)[e] = first /\ HhPrevOf(p)[e] = Nil
      /\ \A x \in Elem : x # e => HhNextOf(p)[x] = HhNextOf(t)[x]
      /\ \A x \in Elem : x # e => HhPrevOf(p)[x] = IF x = first THEN e ELSE HhPrevOf(t)[x]
  BY <1>1, <1>4, PushedIs
<1> HIDE DEF p, first
<1>6. /\ S \subseteq Elem /\ chain \in [0..(m - 1) -> Seq(Elem)]
      /\ \A c \in 0..(m - 1) : Members(chain[c]) \subseteq S
      /\ Len(chain[b]) \in Nat
  BY <1>3, DistinctIs DEF ChainsAre
<1>7. Chained(<<e>> \o chain[b], e, HhNextOf(p), HhPrevOf(p))
  <2>1. HeadLinks(chain[b], e, first, HhNextOf(t), HhPrevOf(t), HhNextOf(p), HhPrevOf(p))
    <3>1. \A x \in Members(chain[b]) : x \in Elem /\ x # e
      BY <1>1, <1>3, <1>6
    <3> QED BY <3>1, <1>5 DEF HeadLinks
  <2> QED BY <2>1, <1>2, <1>3, PushedLinks
<1>8. /\ Distinct(<<e>> \o chain[b]) /\ Len(<<e>> \o chain[b]) = Len(chain[b]) + 1
      /\ Members(<<e>> \o chain[b]) = Members(chain[b]) \cup {e}
  BY <1>3, PushedAt, PushedMembers
<1>9. ASSUME NEW c \in 0..(m - 1), c # b
      PROVE  Chained(chain[c], p.bucket[c].first, HhNextOf(p), HhPrevOf(p))
  <2>1. Chained(chain[c], p.bucket[c].first, HhNextOf(t), HhPrevOf(t))
    BY <1>5, <1>9 DEF ChainsAre
  <2>2. \A x \in Members(chain[c]) : x \in Elem /\ x # e
    BY <1>6
  <2>3. \A x \in Members(chain[c]) : x # first
    <3>1. \A x \in Members(chain[c]) : x \notin Members(chain[b])
      <4>1. Members(chain[c]) = {x \in S : BktOf(x, m) = c}
        BY <1>9 DEF ChainsAre
      <4> QED BY <4>1, <1>2, <1>9
    <3>2. first \in Members(chain[b]) \cup {Nil}
      BY <1>3 DEF At, Members
    <3>3. Nil \notin Elem
      BY UtHashAssumption
    <3> QED BY <3>1, <3>2, <3>3, <2>2
  <2>4. \A x \in Members(chain[c]) : HhNextOf(p)[x] = HhNextOf(t)[x] /\ HhPrevOf(p)[x] = HhPrevOf(t)[x]
    BY <2>2, <2>3, <1>5
  <2> QED BY <2>1, <2>4, SameLinks
<1>10. new \in [0..(m - 1) -> Seq(Elem)]
  <2>1. <<e>> \o chain[b] \in Seq(Elem)
    BY <1>8 DEF Distinct
  <2> QED BY <2>1, <1>6
<1>11. ASSUME NEW c \in 0..(m - 1)
       PROVE  /\ Chained(new[c], p.bucket[c].first, HhNextOf(p), HhPrevOf(p))
              /\ Members(new[c]) = {x \in S \cup {e} : BktOf(x, m) = c}
              /\ p.bucket[c].count = Len(new[c])
  <2>1. CASE c = b
    <3>1. new[c] = <<e>> \o chain[b]
      BY <2>1, <1>1, <1>6
    <3>2. {x \in S \cup {e} : BktOf(x, m) = b} = {x \in S : BktOf(x, m) = b} \cup {e}
      BY DEF b
    <3> HIDE DEF new
    <3> QED BY <3>1, <3>2, <2>1, <1>2, <1>5, <1>7, <1>8
  <2>2. CASE c # b
    <3>1. new[c] = chain[c]
      BY <2>2, <1>6
    <3>2. {x \in S \cup {e} : BktOf(x, m) = c} = {x \in S : BktOf(x, m) = c}
      BY <2>2 DEF b
    <3>3. Members(chain[c]) = {x \in S : BktOf(x, m) = c} /\ t.bucket[c].count = Len(chain[c])
      BY DEF ChainsAre
    <3> HIDE DEF new
    <3> QED BY <3>1, <3>2, <3>3, <2>2, <1>5, <1>9
  <2> QED BY <2>1, <2>2
<1> HIDE DEF new
<1>12. S \cup {e} \subseteq Elem
  BY <1>6
<1>13. ChainsAre(p, new, m, S \cup {e})
  BY <1>10, <1>11, <1>12 DEF ChainsAre
<1> QED BY <1>1, <1>3, <1>5, <1>13 DEF b, p, new

-----------------------------------------------------------------------------
(* HASH_EXPAND_BUCKETS.  u is t with the elements of S in m new chains.    *)
Moving(t, u, m, S) ==
  /\ Table(u, m) /\ Kept(t, u)
  /\ \E chain : ChainsAre(u, chain, m, S)

(* The body of its loop moves one element more.                            *)
LEMMA MovedIs ==
  ASSUME NEW m \in Nat \ {0}, NEW t, m = 2 * t.num_buckets, NEW u, NEW S, Moving(t, u, m, S),
         NEW e \in Elem, e \notin S, NEW ideal
  PROVE  Moving(t, Moved(u, e, ideal), m, S \cup {e})
<1> DEFINE b == BktOf(e, m)
           p == Pushed(u, e, b)
           k == p.bucket[b].mult + 1
           q == [p EXCEPT !.bucket[b].mult = k]
<1>1. PICK chain : ChainsAre(u, chain, m, S)
  BY DEF Moving
<1>2. Table(u, m) /\ Kept(t, u) /\ u.num_buckets = t.num_buckets
  BY DEF Moving, Kept
<1>3. /\ Table(p, m) /\ Kept(u, p) /\ b \in 0..(m - 1)
      /\ ChainsAre(p, [chain EXCEPT ![b] = <<e>> \o chain[b]], m, S \cup {e})
  BY <1>1, <1>2, PushKeeps
<1> DEFINE new == [chain EXCEPT ![b] = <<e>> \o chain[b]]
<1> HIDE DEF new, p
<1>4. ChainsAre(p, new, m, S \cup {e})
  BY <1>3 DEF new
<1>5. Kept(t, p)
  BY <1>2, <1>3, KeptTwice
<1>6. Moving(t, p, m, S \cup {e})
  BY <1>3, <1>4, <1>5 DEF Moving
<1>7. Moving(t, q, m, S \cup {e})
  <2>1. k \in Nat
    <3>1. p.bucket[b] \in Bucket
      BY <1>3 DEF Table
    <3> QED BY <3>1 DEF Bucket
  <2> HIDE DEF k
  <2>2. q = [p EXCEPT !.bucket[b].mult = k]
    OBVIOUS
  <2> HIDE DEF q, b
  <2>3. Table(p, m) /\ b \in 0..(m - 1)
    BY <1>3
  <2>4. /\ Table(q, m) /\ Kept(p, q)
        /\ HhNextOf(q) = HhNextOf(p) /\ HhPrevOf(q) = HhPrevOf(p)
        /\ q.bucket[b].first = p.bucket[b].first /\ q.bucket[b].count = p.bucket[b].count
        /\ \A c \in 0..(m - 1) : c # b => q.bucket[c] = p.bucket[c]
    BY <2>1, <2>2, <2>3, MultSet
  <2>5. \A c \in 0..(m - 1) : q.bucket[c].first = p.bucket[c].first /\ q.bucket[c].count = p.bucket[c].count
    BY <2>4
  <2>6. ChainsAre(q, new, m, S \cup {e})
    BY <1>4, <2>4, <2>5 DEF ChainsAre
  <2>7. Kept(t, q)
    BY <1>5, <2>4, KeptTwice
  <2> QED BY <2>4, <2>6, <2>7 DEF Moving
<1>8. Moved(u, e, ideal) \in {p, q}
  <2>1. ToBkt(Hash[KeyOf[e]], 2 * u.num_buckets) = b
    BY <1>2 DEF BktOf
  <2>2. Moved(u, e, ideal) = IF p.bucket[b].count > p.bucket[b].mult * ideal /\ p.bucket[b].count > ideal
                             THEN [p EXCEPT !.bucket[b].mult = @ + 1] ELSE p
    BY <2>1 DEF Moved, p
  <2> QED BY <2>2
<1> QED BY <1>6, <1>7, <1>8

(* The loop along one chain, as the function Rehashed is the last value of.*)
Rehashing(t, chain, ideal, f) ==
  f = [n \in 0..Len(chain) |-> IF n = 0 THEN t ELSE Moved(f[n - 1], chain[n], ideal)]

(* There is that function. *)
LEMMA RehashingExists ==
  ASSUME NEW t, NEW chain, Len(chain) \in Nat, NEW ideal
  PROVE  \E f : Rehashing(t, chain, ideal, f)
<1> DEFINE N == Len(chain)
           Is(n, f) == f = [i \in 0..n |-> IF i = 0 THEN t ELSE Moved(f[i - 1], chain[i], ideal)]
           M == {n \in 0..N : \E f : Is(n, f)}
<1>1. 0 \in M
  <2> DEFINE f == [i \in 0..0 |-> t]
  <2>1. Is(0, f)
    OBVIOUS
  <2>2. 0 \in 0..N
    OBVIOUS
  <2> HIDE DEF f, Is
  <2> QED BY <2>1, <2>2
<1>2. ASSUME NEW n \in 0..N, n > 0, n - 1 \in M PROVE n \in M
  <2>1. PICK f : Is(n - 1, f)
    BY <1>2
  <2> DEFINE g == [i \in 0..n |-> IF i = n THEN Moved(f[n - 1], chain[n], ideal) ELSE f[i]]
  <2>2. \A i \in 0..(n - 1) : f[i] = IF i = 0 THEN t ELSE Moved(f[i - 1], chain[i], ideal)
    BY <2>1
  <2>3. ASSUME NEW i \in 0..n PROVE g[i] = IF i = 0 THEN t ELSE Moved(g[i - 1], chain[i], ideal)
    <3>1. CASE i = n
      <4>1. n - 1 \in 0..n /\ n - 1 # n /\ i # 0
        BY <3>1, <1>2
      <4>2. g[n - 1] = f[n - 1] /\ g[n] = Moved(f[n - 1], chain[n], ideal)
        BY <4>1
      <4> HIDE DEF g
      <4> QED BY <3>1, <4>1, <4>2
    <3>2. CASE i # n
      <4>1. i \in 0..(n - 1) /\ (i # 0 => i - 1 \in 0..n /\ i - 1 # n)
        BY <3>2, <1>2
      <4>2. g[i] = f[i] /\ (i # 0 => g[i - 1] = f[i - 1])
        BY <4>1, <3>2
      <4> HIDE DEF g
      <4> QED BY <4>1, <4>2, <2>2
    <3> QED BY <3>1, <3>2
  <2>4. g = [i \in 0..n |-> g[i]]
    OBVIOUS
  <2> HIDE DEF g
  <2>5. Is(n, g)
    BY <2>3, <2>4
  <2> QED BY <2>5
<1>3. N \in 0..N /\ N \in Nat
  OBVIOUS
<1> HIDE DEF M
<1>4. N \in M
  BY <1>1, <1>2, <1>3, Upwards
<1> QED BY <1>4 DEF M, Rehashing

(* The first n of a list. *)
Firsts(s, n) == {s[i] : i \in 1..n}

(* The loop along one chain moves its elements. *)
LEMMA RehashedIs ==
  ASSUME NEW m \in Nat \ {0}, NEW t, m = 2 * t.num_buckets, NEW u, NEW S, Moving(t, u, m, S),
         NEW chain, Distinct(chain), Members(chain) \cap S = {}, NEW ideal
  PROVE  Moving(t, Rehashed(u, chain, ideal), m, S \cup Members(chain))
<1> DEFINE N == Len(chain)
           f == CHOOSE f : Rehashing(u, chain, ideal, f)
<1>1. N \in Nat /\ \A i \in 1..N : chain[i] \in Elem
  BY DistinctIs
<1>2. Rehashing(u, chain, ideal, f)
  BY <1>1, RehashingExists
<1>3. Rehashed(u, chain, ideal) = f[N]
  BY DEF Rehashed, Rehashing
<1> HIDE DEF f
<1>4. \A n \in 0..N : f[n] = IF n = 0 THEN u ELSE Moved(f[n - 1], chain[n], ideal)
  BY <1>2 DEF Rehashing
<1> DEFINE M == {n \in 0..N : Moving(t, f[n], m, S \cup Firsts(chain, n))}
<1>5. 0 \in M
  <2>1. S \cup Firsts(chain, 0) = S
    BY DEF Firsts
  <2>2. 0 \in 0..N /\ f[0] = u
    BY <1>1, <1>4
  <2> QED BY <2>1, <2>2
<1>6. ASSUME NEW n \in 0..N, n > 0, n - 1 \in M PROVE n \in M
  <2> DEFINE T == S \cup Firsts(chain, n - 1)
             e == chain[n]
  <2>1. n \in 1..N /\ e \in Elem /\ e \in Members(chain)
    BY <1>1, <1>6 DEF Members
  <2>2. e \notin T
    <3>1. \A i \in 1..(n - 1) : chain[i] # e
      BY <2>1, <1>1 DEF Distinct
    <3> QED BY <3>1, <2>1 DEF Firsts
  <2>3. S \cup Firsts(chain, n) = T \cup {e}
    <3>1. \A i : i \in 1..n <=> i \in 1..(n - 1) \/ i = n
      BY <2>1, <1>1
    <3>2. Firsts(chain, n) = Firsts(chain, n - 1) \cup {e}
      BY <3>1 DEF Firsts
    <3> QED BY <3>2
  <2>4. Moving(t, f[n - 1], m, T)
    BY <1>6
  <2>5. f[n] = Moved(f[n - 1], e, ideal)
    BY <2>1, <1>4
  <2> HIDE DEF T, e
  <2>6. Moving(t, Moved(f[n - 1], e, ideal), m, T \cup {e})
    BY <2>1, <2>2, <2>4, MovedIs
  <2> QED BY <2>3, <2>5, <2>6
<1>7. N \in 0..N
  BY <1>1
<1> HIDE DEF M
<1>8. N \in M
  BY <1>1, <1>5, <1>6, <1>7, Upwards
<1>9. Firsts(chain, N) = Members(chain)
  BY DEF Firsts, Members
<1> QED BY <1>3, <1>8, <1>9 DEF M

(* The loop over the old buckets, as the function Expanded is made from.   *)
Expanding(t, f) ==
  f = [n \in 0..t.num_buckets |->
         IF n = 0 THEN Emptied(t) ELSE Rehashed(f[n - 1], Chain(t, n - 1), Ideal(t))]

(* There is that function. *)
LEMMA ExpandingExists ==
  ASSUME NEW t, t.num_buckets \in Nat
  PROVE  \E f : Expanding(t, f)
<1> DEFINE N == t.num_buckets
           Is(n, f) == f = [i \in 0..n |-> IF i = 0 THEN Emptied(t)
                                           ELSE Rehashed(f[i - 1], Chain(t, i - 1), Ideal(t))]
           M == {n \in 0..N : \E f : Is(n, f)}
<1>1. 0 \in M
  <2> DEFINE f == [i \in 0..0 |-> Emptied(t)]
  <2>1. Is(0, f)
    OBVIOUS
  <2>2. 0 \in 0..N
    OBVIOUS
  <2> HIDE DEF f, Is
  <2> QED BY <2>1, <2>2
<1>2. ASSUME NEW n \in 0..N, n > 0, n - 1 \in M PROVE n \in M
  <2>1. PICK f : Is(n - 1, f)
    BY <1>2
  <2> DEFINE g == [i \in 0..n |-> IF i = n THEN Rehashed(f[n - 1], Chain(t, n - 1), Ideal(t))
                                  ELSE f[i]]
  <2>2. \A i \in 0..(n - 1) : f[i] = IF i = 0 THEN Emptied(t)
                                     ELSE Rehashed(f[i - 1], Chain(t, i - 1), Ideal(t))
    BY <2>1
  <2>3. ASSUME NEW i \in 0..n
        PROVE  g[i] = IF i = 0 THEN Emptied(t)
                      ELSE Rehashed(g[i - 1], Chain(t, i - 1), Ideal(t))
    <3>1. CASE i = n
      <4>1. n - 1 \in 0..n /\ n - 1 # n /\ i # 0
        BY <3>1, <1>2
      <4>2. g[n - 1] = f[n - 1] /\ g[n] = Rehashed(f[n - 1], Chain(t, n - 1), Ideal(t))
        BY <4>1
      <4> HIDE DEF g
      <4> QED BY <3>1, <4>1, <4>2
    <3>2. CASE i # n
      <4>1. i \in 0..(n - 1) /\ (i # 0 => i - 1 \in 0..n /\ i - 1 # n)
        BY <3>2, <1>2
      <4>2. g[i] = f[i] /\ (i # 0 => g[i - 1] = f[i - 1])
        BY <4>1, <3>2
      <4> HIDE DEF g
      <4> QED BY <4>1, <4>2, <2>2
    <3> QED BY <3>1, <3>2
  <2>4. g = [i \in 0..n |-> g[i]]
    OBVIOUS
  <2> HIDE DEF g
  <2>5. Is(n, g)
    BY <2>3, <2>4
  <2> QED BY <2>5
<1>3. N \in 0..N /\ N \in Nat
  OBVIOUS
<1> HIDE DEF M
<1>4. N \in M
  BY <1>1, <1>2, <1>3, Upwards
<1> QED BY <1>4 DEF M, Expanding

(* The new buckets are twice as many and empty. *)
LEMMA EmptiedIs ==
  ASSUME NEW t, Table(t, t.num_buckets)
  PROVE  Moving(t, Emptied(t), 2 * t.num_buckets, {})
<1> DEFINE m == 2 * t.num_buckets
           u == Emptied(t)
<1>1. t.num_buckets \in Nat \ {0}
  BY DEF Table
<1>2. NoBucket \in Bucket /\ NoBucket.first = Nil /\ NoBucket.count = 0
  BY DEF NoBucket, Bucket, Ptr
<1>3. u = [t EXCEPT !.bucket = [b \in 0..(m - 1) |-> NoBucket]]
  BY DEF Emptied
<1> HIDE DEF m, u
<1>4. Table(u, m)
  BY <1>2, <1>3 DEF Table
<1>5. u.hh = t.hh /\ u.bucket = [b \in 0..(m - 1) |-> NoBucket] /\ Kept(t, u)
  BY <1>3 DEF Table, Kept, NextOf, PrevOf
<1> DEFINE none == [b \in 0..(m - 1) |-> <<>>]
<1>6. /\ Len(<<>>) = 0 /\ Distinct(<<>>) /\ At(<<>>, 1) = Nil /\ Members(<<>>) = {}
      /\ <<>> \in Seq(Elem)
  BY EmptySeq DEF Distinct, At, Members
<1>7. ChainsAre(u, none, m, {})
  <2>1. none \in [0..(m - 1) -> Seq(Elem)]
    BY <1>6
  <2>2. ASSUME NEW b \in 0..(m - 1)
        PROVE  /\ Chained(none[b], u.bucket[b].first, HhNextOf(u), HhPrevOf(u))
               /\ Members(none[b]) = {e \in {} : BktOf(e, m) = b}
               /\ u.bucket[b].count = Len(none[b])
    <3>1. none[b] = <<>> /\ u.bucket[b] = NoBucket
      BY <1>5
    <3>2. Chained(<<>>, Nil, HhNextOf(u), HhPrevOf(u))
      BY <1>6 DEF Chained
    <3> HIDE DEF none
    <3> QED BY <3>1, <3>2, <1>2, <1>6
  <2> HIDE DEF none
  <2> QED BY <2>1, <2>2 DEF ChainsAre
<1>8. Moving(t, u, m, {})
  BY <1>4, <1>5, <1>7 DEF Moving
<1> QED BY <1>8 DEF u, m

(* What is found by following the links of a bucket is its chain. *)
LEMMA ChainIs ==
  ASSUME NEW m, NEW t, NEW chain, NEW S, ChainsAre(t, chain, m, S), NEW b \in 0..(m - 1)
  PROVE  /\ Chain(t, b) = chain[b] /\ Distinct(chain[b])
         /\ Members(chain[b]) = {e \in S : BktOf(e, m) = b}
<1>1. /\ Chained(chain[b], t.bucket[b].first, HhNextOf(t), HhPrevOf(t))
      /\ Members(chain[b]) = {e \in S : BktOf(e, m) = b}
  BY DEF ChainsAre
<1>2. Path(t.bucket[b].first, HhNextOf(t)) = chain[b]
  BY <1>1, PathIs
<1>3. Chain(t, b) = Path(t.bucket[b].first, HhNextOf(t))
  BY DEF Chain, HhNextOf
<1>4. Distinct(chain[b])
  BY <1>1 DEF Chained
<1> QED BY <1>1, <1>2, <1>3, <1>4

(* The loop over all buckets moves all elements. *)
LEMMA AllRehashed ==
  ASSUME NEW t, Table(t, t.num_buckets), NEW chain, NEW S,
         ChainsAre(t, chain, t.num_buckets, S), NEW f, Expanding(t, f)
  PROVE  Moving(t, f[t.num_buckets], 2 * t.num_buckets, S)
<1> DEFINE N == t.num_buckets
           m == 2 * t.num_buckets
           Upto(n) == {e \in S : BktOf(e, N) < n}
<1>1. N \in Nat \ {0} /\ m \in Nat \ {0} /\ S \subseteq Elem
  BY DEF Table, ChainsAre
<1>2. \A n \in 0..N : f[n] = IF n = 0 THEN Emptied(t)
                             ELSE Rehashed(f[n - 1], Chain(t, n - 1), Ideal(t))
  BY DEF Expanding
<1>3. \A e \in S : BktOf(e, N) \in 0..(N - 1)
  BY <1>1, BktOfIs
<1> DEFINE M == {n \in 0..N : Moving(t, f[n], m, Upto(n))}
<1>4. 0 \in M
  <2>1. Upto(0) = {}
    BY <1>1, <1>3
  <2>2. 0 \in 0..N /\ f[0] = Emptied(t)
    BY <1>1, <1>2
  <2>3. Moving(t, Emptied(t), m, {})
    BY EmptiedIs
  <2> HIDE DEF Upto
  <2> QED BY <2>1, <2>2, <2>3
<1>5. ASSUME NEW n \in 0..N, n > 0, n - 1 \in M PROVE n \in M
  <2> DEFINE T == Upto(n - 1)
             c == chain[n - 1]
  <2>1. n - 1 \in 0..(N - 1) /\ n \in Nat
    BY <1>1, <1>5
  <2>2. Chain(t, n - 1) = c /\ Distinct(c) /\ Members(c) = {e \in S : BktOf(e, N) = n - 1}
    BY <2>1, ChainIs
  <2>3. Upto(n) = T \cup Members(c)
    <3>1. \A e \in S : BktOf(e, N) < n <=> BktOf(e, N) < n - 1 \/ BktOf(e, N) = n - 1
      BY <2>1, <1>1, <1>3
    <3> QED BY <3>1, <2>2
  <2>4. Members(c) \cap T = {}
    <3>1. \A e \in S : ~(BktOf(e, N) < n - 1 /\ BktOf(e, N) = n - 1)
      BY <2>1, <1>1, <1>3
    <3> QED BY <3>1, <2>2
  <2>5. Moving(t, f[n - 1], m, T)
    BY <1>5
  <2>6. f[n] = Rehashed(f[n - 1], c, Ideal(t))
    BY <1>2, <1>5, <2>2
  <2> HIDE DEF T, c, Upto
  <2>7. Moving(t, Rehashed(f[n - 1], c, Ideal(t)), m, T \cup Members(c))
    BY <1>1, <2>2, <2>4, <2>5, RehashedIs
  <2> QED BY <2>3, <2>6, <2>7
<1>6. N \in 0..N /\ N \in Nat
  BY <1>1
<1> HIDE DEF M
<1>7. N \in M
  BY <1>4, <1>5, <1>6, Upwards
<1>8. Upto(N) = S
  <2>1. \A e \in S : BktOf(e, N) < N
    BY <1>1, <1>3
  <2> QED BY <2>1
<1> HIDE DEF Upto
<1> QED BY <1>7, <1>8 DEF M

(* An expansion keeps the list and puts all elements into twice as many    *)
(* chains, each into that of its hash value.                               *)
LEMMA ExpandedIs ==
  ASSUME NEW t, Table(t, t.num_buckets), NEW chain, NEW S,
         ChainsAre(t, chain, t.num_buckets, S), t.ineff \in 0..1
  PROVE  LET x == Expanded(t)
         IN  /\ Table(x, x.num_buckets) /\ \E new : ChainsAre(x, new, x.num_buckets, S)
             /\ x.ineff \in 0..2 /\ x.noexpand = (x.ineff > 1)
             /\ x.head = t.head /\ x.tail = t.tail /\ x.num_items = t.num_items
             /\ NextOf(x) = NextOf(t) /\ PrevOf(x) = PrevOf(t)
<1> DEFINE N == t.num_buckets
           f == CHOOSE f : Expanding(t, f)
           moved == f[N]
           ineff == IF NonIdeal(moved, Ideal(t)) > t.num_items \div 2 THEN t.ineff + 1 ELSE 0
           x == [moved EXCEPT !.num_buckets = 2 * @, !.ineff = ineff, !.noexpand = ineff > 1]
<1>1. N \in Nat \ {0} /\ 2 * N \in Nat \ {0}
  BY DEF Table
<1>2. Expanding(t, f)
  BY <1>1, ExpandingExists
<1>3. Expanded(t) = x
  BY DEF Expanded, Expanding
<1>4. Moving(t, moved, 2 * N, S)
  <2> HIDE DEF f
  <2> QED BY <1>2, AllRehashed
<1>5. ineff \in 0..2
  <2> HIDE DEF moved
  <2> QED OBVIOUS
<1> HIDE DEF f, ineff, moved
<1>6. PICK new : ChainsAre(moved, new, 2 * N, S)
  BY <1>4 DEF Moving
<1>7. Table(moved, 2 * N) /\ Kept(t, moved)
  BY <1>4 DEF Moving
<1>8. moved.num_buckets = N /\ (ineff > 1) \in BOOLEAN /\ ineff \in Nat
  BY <1>5, <1>7 DEF Kept
<1>9. /\ x.num_buckets = 2 * N /\ x.ineff = ineff /\ x.noexpand = (ineff > 1)
      /\ x.bucket = moved.bucket /\ x.hh = moved.hh /\ x.head = moved.head
      /\ x.tail = moved.tail /\ x.num_items = moved.num_items
  BY <1>7, <1>8 DEF Table
<1>10. Table(x, 2 * N)
  BY <1>1, <1>7, <1>8 DEF Table
<1> HIDE DEF x, N
<1>11. ChainsAre(x, new, 2 * N, S)
  BY <1>6, <1>9 DEF ChainsAre, HhNextOf, HhPrevOf
<1>12. /\ x.head = t.head /\ x.tail = t.tail /\ x.num_items = t.num_items
       /\ NextOf(x) = NextOf(t) /\ PrevOf(x) = PrevOf(t)
  <2>1. NextOf(x) = NextOf(moved) /\ PrevOf(x) = PrevOf(moved)
    BY <1>9 DEF NextOf, PrevOf
  <2> QED BY <2>1, <1>7, <1>9 DEF Kept
<1> QED BY <1>3, <1>5, <1>9, <1>10, <1>11, <1>12

-----------------------------------------------------------------------------
(* The inductive invariant.  The list has all elements; those added since  *)
(* the buckets were last rearranged are its last, and in each chain they   *)
(* are before the others, the newest first.                                *)
SinceIs(order, chain, m, news) ==
  /\ news \subseteq Members(order)
  /\ \A x, y \in Elem : x \in news /\ Before(order, x, y) => y \in news
  /\ \A b \in 0..(m - 1) : \A x, y \in Elem :
       Before(chain[b], x, y) /\ y \in news => Before(order, y, x)

Sound(t, order, chain, news) ==
  /\ Table(t, t.num_buckets) /\ t.ineff \in 0..2 /\ t.noexpand = (t.ineff > 1)
  /\ ListIs(t, order)
  /\ ChainsAre(t, chain, t.num_buckets, Members(order))
  /\ SinceIs(order, chain, t.num_buckets, news)

HInv == Sound(table, AppOrder(table), [b \in DOMAIN table.bucket |-> Chain(table, b)], since)

(* The links of a sound table are those of one list and of one family of   *)
(* chains: those that are found by following them.                         *)
LEMMA SoundIs ==
  ASSUME NEW t, NEW order, NEW chain, NEW news, Sound(t, order, chain, news)
  PROVE  /\ AppOrder(t) = order /\ DOMAIN t.bucket = 0..(t.num_buckets - 1)
         /\ [b \in DOMAIN t.bucket |-> Chain(t, b)] = chain
<1>1. Chained(order, t.head, NextOf(t), PrevOf(t))
  BY DEF Sound, ListIs
<1>2. Path(t.head, NextOf(t)) = order
  BY <1>1, PathIs
<1>3. AppOrder(t) = Path(t.head, NextOf(t))
  BY DEF AppOrder, NextOf
<1>4. DOMAIN t.bucket = 0..(t.num_buckets - 1)
  BY DEF Sound, Table
<1>5. ChainsAre(t, chain, t.num_buckets, Members(order))
  BY DEF Sound
<1>6. \A b \in 0..(t.num_buckets - 1) : Chain(t, b) = chain[b]
  BY <1>5, ChainIs
<1>7. chain = [b \in 0..(t.num_buckets - 1) |-> chain[b]]
  BY <1>5 DEF ChainsAre
<1> QED BY <1>2, <1>3, <1>4, <1>6, <1>7

(* What is before another is in the list with it. *)
LEMMA BeforeIs ==
  ASSUME NEW s, NEW x, NEW y, Before(s, x, y)
  PROVE  x \in Members(s) /\ y \in Members(s)
BY DEF Before, Members

(* The empty list, and a head that is NULL. *)
LEMMA EmptyList ==
  /\ Len(<<>>) = 0 /\ Distinct(<<>>) /\ \A i : At(<<>>, i) = Nil
  /\ Members(<<>>) = {} /\ <<>> \in Seq(Elem)
  /\ \A x, y : ~Before(<<>>, x, y)
  /\ \A s : Distinct(s) /\ At(s, 1) = Nil => s = <<>>
<1>1. <<>> \in Seq(Elem) /\ Len(<<>>) = 0
  BY EmptySeq
<1>2. ASSUME NEW s, Distinct(s), At(s, 1) = Nil PROVE s = <<>>
  <2>1. s \in Seq(Elem) /\ Len(s) \in Nat /\ \A i \in 1..Len(s) : s[i] # Nil
    BY <1>2, DistinctIs
  <2>2. 1 \notin 1..Len(s)
    BY <1>2, <2>1 DEF At
  <2>3. Len(s) = 0
    BY <2>1, <2>2
  <2> QED BY <2>1, <2>3, EmptySeq
<1>3. \A i : i \notin 1..0
  OBVIOUS
<1> QED BY <1>1, <1>2, <1>3 DEF Distinct, At, Members, Before

(* What HASH_MAKE_TABLE makes has the list of a head that is set, and no   *)
(* chains yet; so has no table.                                            *)
LEMMA NoTableIs ==
  /\ NoTable.num_buckets = InitBuckets /\ InitBuckets \in Nat \ {0}
  /\ Table(NoTable, InitBuckets) /\ NoTable.ineff = 0 /\ NoTable.noexpand = FALSE
  /\ NoTable.head = Nil /\ NoTable.tail = Nil /\ NoTable.num_items = 0
  /\ \A e \in Elem : NextOf(NoTable)[e] = Nil /\ PrevOf(NoTable)[e] = Nil
  /\ \E chain : /\ ChainsAre(NoTable, chain, InitBuckets, {})
                /\ SinceIs(<<>>, chain, InitBuckets, {})
<1>1. InitBuckets \in Nat \ {0}
  BY UtHashAssumption DEF PowersOfTwo
<1>2. NoBucket \in Bucket /\ NoBucket.first = Nil /\ NoBucket.count = 0
  BY DEF NoBucket, Bucket, Ptr
<1>3. NoHandle \in Handle /\ NoHandle.next = Nil /\ NoHandle.prev = Nil
  BY DEF NoHandle, Handle, Ptr
<1>4. /\ NoTable.num_buckets = InitBuckets /\ NoTable.ineff = 0 /\ NoTable.noexpand = FALSE
      /\ NoTable.head = Nil /\ NoTable.tail = Nil /\ NoTable.num_items = 0
      /\ NoTable.bucket = [b \in 0..(InitBuckets - 1) |-> NoBucket]
      /\ NoTable.hh = [e \in Elem |-> NoHandle]
  BY DEF NoTable
<1>5. Table(NoTable, InitBuckets)
  <2>1. Nil \in Ptr
    BY DEF Ptr
  <2> QED BY <1>1, <1>2, <1>3, <2>1 DEF NoTable, Table
<1>6. \A e \in Elem : NextOf(NoTable)[e] = Nil /\ PrevOf(NoTable)[e] = Nil
  BY <1>3, <1>4 DEF NextOf, PrevOf
<1> DEFINE none == [b \in 0..(InitBuckets - 1) |-> <<>>]
<1>7. none \in [0..(InitBuckets - 1) -> Seq(Elem)]
  BY EmptyList
<1>8. \A b \in 0..(InitBuckets - 1) : none[b] = <<>>
  OBVIOUS
<1> HIDE DEF none
<1>9. Chained(<<>>, Nil, HhNextOf(NoTable), HhPrevOf(NoTable))
  BY EmptyList DEF Chained
<1>10. ASSUME NEW b \in 0..(InitBuckets - 1)
       PROVE  /\ Chained(none[b], NoTable.bucket[b].first, HhNextOf(NoTable), HhPrevOf(NoTable))
              /\ Members(none[b]) = {e \in {} : BktOf(e, InitBuckets) = b}
              /\ NoTable.bucket[b].count = Len(none[b])
  <2>1. none[b] = <<>> /\ NoTable.bucket[b] = NoBucket
    BY <1>4, <1>8
  <2> QED BY <2>1, <1>2, <1>9, EmptyList
<1>11. ChainsAre(NoTable, none, InitBuckets, {})
  BY <1>7, <1>10 DEF ChainsAre
<1>12. SinceIs(<<>>, none, InitBuckets, {})
  BY EmptyList DEF SinceIs
<1> QED BY <1>1, <1>4, <1>5, <1>6, <1>11, <1>12

-----------------------------------------------------------------------------
(* HASH_ADD.  After HASH_APPEND_LIST the new element is in the list and    *)
(* not yet in a chain.                                                     *)
Listing(l, order, e, chain, news) ==
  /\ Table(l, l.num_buckets) /\ l.ineff \in 0..2 /\ l.noexpand = (l.ineff > 1)
  /\ ListIs(l, Append(order, e))
  /\ ChainsAre(l, chain, l.num_buckets, Members(order))
  /\ SinceIs(order, chain, l.num_buckets, news)

(* The first element makes the table. *)
LEMMA FirstListed ==
  ASSUME NEW t, NEW order, NEW chain, NEW news, Sound(t, order, chain, news),
         NEW e \in Elem, e \notin Members(order), t.head = Nil
  PROVE  \E ch : Listing(Listed(t, e), order, e, ch, news)
<1> DEFINE l == [NoTable EXCEPT !.head = e, !.tail = e, !.num_items = 1]
<1>1. Listed(t, e) = l
  BY DEF Listed
<1>2. order = <<>>
  <2>1. Distinct(order) /\ At(order, 1) = Nil
    BY DEF Sound, ListIs, Chained
  <2> QED BY <2>1, EmptyList
<1>3. Members(order) = {} /\ news = {} /\ Len(order) = 0 /\ Distinct(order)
      /\ \A i : At(order, i) = Nil
  BY <1>2, EmptyList DEF Sound, SinceIs
<1>4. e \in Ptr /\ e # Nil
  BY UtHashAssumption DEF Ptr
<1>5. Table(NoTable, InitBuckets)
  BY NoTableIs
<1>6. /\ l.head = e /\ l.tail = e /\ l.num_items = 1
      /\ l.num_buckets = InitBuckets /\ l.ineff = 0 /\ l.noexpand = FALSE
      /\ l.bucket = NoTable.bucket /\ l.hh = NoTable.hh
  BY <1>5, NoTableIs DEF Table
<1>7. Table(l, InitBuckets)
  BY <1>4, <1>5 DEF Table
<1> HIDE DEF l
<1>8. /\ NextOf(l) = NextOf(NoTable) /\ PrevOf(l) = PrevOf(NoTable)
      /\ HhNextOf(l) = HhNextOf(NoTable) /\ HhPrevOf(l) = HhPrevOf(NoTable)
  BY <1>6 DEF NextOf, PrevOf, HhNextOf, HhPrevOf
<1>9. ListIs(l, Append(order, e))
  <2>1. Chained(order, Nil, NextOf(l), PrevOf(l))
    BY <1>3 DEF Chained
  <2>2. TailLinks(order, e, At(order, Len(order)), NextOf(l), PrevOf(l), NextOf(l), PrevOf(l))
    <3>1. NextOf(l)[e] = Nil /\ PrevOf(l)[e] = Nil
      BY <1>8, NoTableIs
    <3> QED BY <3>1, <1>3 DEF TailLinks
  <2>3. /\ Chained(Append(order, e), IF Nil = Nil THEN e ELSE Nil, NextOf(l), PrevOf(l))
        /\ At(Append(order, e), Len(Append(order, e))) = e
    BY <2>1, <2>2, AppendedLinks
  <2>4. Len(Append(order, e)) = 1
    BY <1>3, AppendedIs
  <2> QED BY <2>3, <2>4, <1>6 DEF ListIs
<1>10. PICK ch : /\ ChainsAre(NoTable, ch, InitBuckets, {})
                 /\ SinceIs(<<>>, ch, InitBuckets, {})
  BY NoTableIs
<1>11. ChainsAre(l, ch, InitBuckets, Members(order))
  BY <1>3, <1>6, <1>8, <1>10 DEF ChainsAre
<1>12. SinceIs(order, ch, InitBuckets, news)
  BY <1>2, <1>3, <1>10
<1>13. l.ineff \in 0..2 /\ l.noexpand = (l.ineff > 1)
  <2>1. 0 \in 0..2 /\ (0 > 1) = FALSE
    OBVIOUS
  <2>2. l.ineff = 0 /\ l.noexpand = FALSE
    BY <1>6
  <2> QED BY <2>1, <2>2, Zenon
<1>14. Listing(l, order, e, ch, news)
  BY <1>6, <1>7, <1>9, <1>11, <1>12, <1>13 DEF Listing
<1> QED BY <1>1, <1>14

(* Another is appended. *)
LEMMA NextListed ==
  ASSUME NEW t, NEW order, NEW chain, NEW news, Sound(t, order, chain, news),
         NEW e \in Elem, e \notin Members(order), t.head # Nil
  PROVE  Listing(Listed(t, e), order, e, chain, news)
<1> DEFINE m  == t.num_buckets
           h  == [NoHandle EXCEPT !.prev = t.tail]
           l1 == [t EXCEPT !.hh = [t.hh EXCEPT ![e] = h]]
           l2 == [l1 EXCEPT !.hh[t.tail].next = e]
           n  == t.num_items + 1
           l  == [l2 EXCEPT !.tail = e, !.num_items = n]
<1>0. /\ Table(t, m) /\ t.ineff \in 0..2 /\ t.noexpand = (t.ineff > 1)
      /\ ListIs(t, order) /\ ChainsAre(t, chain, m, Members(order))
      /\ SinceIs(order, chain, m, news)
  BY DEF Sound
<1>1. /\ Chained(order, t.head, NextOf(t), PrevOf(t)) /\ Distinct(order)
      /\ t.tail = At(order, Len(order)) /\ t.num_items = Len(order)
      /\ t.head = At(order, 1) /\ Len(order) \in Nat
  BY <1>0, DistinctIs DEF ListIs, Chained
<1>2. t.tail \in Members(order) /\ t.tail \in Elem /\ t.tail # e
  <2>1. 1 \in 1..Len(order)
    BY <1>1 DEF At
  <2>2. Len(order) \in 1..Len(order)
    BY <2>1, <1>1
  <2>3. t.tail \in Members(order)
    BY <2>2, <1>1 DEF At, Members
  <2>4. Members(order) \subseteq Elem
    BY <1>1, DistinctIs
  <2> QED BY <2>3, <2>4
<1>3. e \in Ptr /\ e # Nil /\ Nil \in Ptr /\ t.tail \in Ptr
  BY <1>2, UtHashAssumption DEF Ptr
<1>4. /\ h \in Handle /\ h.prev = t.tail /\ h.next = Nil
  BY <1>3 DEF NoHandle, Handle
<1> HIDE DEF h
<1>5. /\ Table(l1, m) /\ l1.bucket = t.bucket /\ l1.hh[e] = h
      /\ \A x \in Elem : x # e => l1.hh[x] = t.hh[x]
      /\ l1.head = t.head /\ l1.tail = t.tail /\ l1.num_items = t.num_items
      /\ l1.num_buckets = t.num_buckets /\ l1.ineff = t.ineff /\ l1.noexpand = t.noexpand
  BY <1>0, <1>4, HandleSet
<1> DEFINE tail == t.tail
<1>6. Listed(t, e) = [t EXCEPT !.hh[e] = h, !.hh[tail].next = e, !.tail = e, !.num_items = @ + 1]
  BY DEF Listed, h
<1>7. l2 = [l1 EXCEPT !.hh[tail].next = e]
  OBVIOUS
<1>8. l1 = [t EXCEPT !.hh[e] = h]
  OBVIOUS
<1>9. tail \in Elem
  BY <1>2
<1>10. tail = t.tail
  OBVIOUS
<1> HIDE DEF l1, l2, tail
<1>11. /\ Table(l2, m) /\ ChainsKept(l1, l2)
       /\ l2.head = l1.head /\ l2.tail = l1.tail /\ l2.num_items = l1.num_items
       /\ PrevOf(l2) = PrevOf(l1) /\ NextOf(l2)[tail] = e
       /\ \A x \in Elem : x # tail => NextOf(l2)[x] = NextOf(l1)[x]
  <2>1. Table(l1, m)
    BY <1>5
  <2>2. e \in Ptr
    BY <1>3
  <2> QED BY <2>1, <2>2, <1>7, <1>9, NextSet
<1>12. Listed(t, e) = l
  <2>1. Listed(t, e) = [l2 EXCEPT !.tail = e, !.num_items = @ + 1]
    BY <1>6, <1>7, <1>8
  <2>2. [l2 EXCEPT !.tail = e].num_items = t.num_items
    BY <1>5, <1>11 DEF Table
  <2>3. [l2 EXCEPT !.tail = e, !.num_items = @ + 1] = [l2 EXCEPT !.tail = e, !.num_items = n]
    BY <1>5, <1>11 DEF Table
  <2> QED BY <2>1, <2>3
<1>13. n \in Nat /\ n = Len(order) + 1
  BY <1>1
<1> HIDE DEF n
<1>14. /\ Table(l, m) /\ l.tail = e /\ l.num_items = n /\ l.head = l2.head
       /\ l.hh = l2.hh /\ l.bucket = l2.bucket /\ l.num_buckets = l2.num_buckets
       /\ l.ineff = l2.ineff /\ l.noexpand = l2.noexpand
  BY <1>3, <1>11, <1>13 DEF Table
<1> HIDE DEF l
<1>15. /\ NextOf(l) = NextOf(l2) /\ PrevOf(l) = PrevOf(l2)
       /\ HhNextOf(l) = HhNextOf(l2) /\ HhPrevOf(l) = HhPrevOf(l2)
  BY <1>14 DEF NextOf, PrevOf, HhNextOf, HhPrevOf
<1>16. /\ NextOf(l1)[e] = Nil /\ PrevOf(l1)[e] = tail
       /\ \A x \in Elem : x # e => /\ NextOf(l1)[x] = NextOf(t)[x] /\ PrevOf(l1)[x] = PrevOf(t)[x]
                                   /\ HhNextOf(l1)[x] = HhNextOf(t)[x]
                                   /\ HhPrevOf(l1)[x] = HhPrevOf(t)[x]
  BY <1>4, <1>5, <1>10 DEF NextOf, PrevOf, HhNextOf, HhPrevOf
<1>17. Members(order) \subseteq Elem /\ \A x \in Members(order) : x # e
  BY <1>1, DistinctIs
<1>18. TailLinks(order, e, At(order, Len(order)), NextOf(t), PrevOf(t), NextOf(l), PrevOf(l))
  <2>1. NextOf(l)[e] = Nil /\ PrevOf(l)[e] = tail
    BY <1>2, <1>10, <1>11, <1>15, <1>16
  <2>2. \A x \in Members(order) : /\ PrevOf(l)[x] = PrevOf(t)[x]
                                  /\ NextOf(l)[x] = IF x = tail THEN e ELSE NextOf(t)[x]
    BY <1>11, <1>15, <1>16, <1>17
  <2> QED BY <2>1, <2>2, <1>1, <1>10 DEF TailLinks
<1>19. ListIs(l, Append(order, e))
  <2>1. /\ Chained(Append(order, e), IF t.head = Nil THEN e ELSE t.head, NextOf(l), PrevOf(l))
        /\ At(Append(order, e), Len(Append(order, e))) = e
    BY <1>1, <1>18, AppendedLinks
  <2>2. Len(Append(order, e)) = Len(order) + 1
    BY <1>1, AppendedIs
  <2>3. l.head = t.head
    BY <1>5, <1>11, <1>14
  <2> QED BY <2>1, <2>2, <2>3, <1>13, <1>14 DEF ListIs
<1>20. /\ l.num_buckets = m /\ l.ineff = t.ineff /\ l.noexpand = t.noexpand
       /\ l.bucket = t.bucket
       /\ \A x \in Members(order) : HhNextOf(l)[x] = HhNextOf(t)[x] /\ HhPrevOf(l)[x] = HhPrevOf(t)[x]
  BY <1>5, <1>11, <1>14, <1>15, <1>16, <1>17 DEF ChainsKept
<1>21. ChainsAre(l, chain, m, Members(order))
  <2>1. ASSUME NEW b \in 0..(m - 1)
        PROVE  Chained(chain[b], l.bucket[b].first, HhNextOf(l), HhPrevOf(l))
    <3>1. Chained(chain[b], l.bucket[b].first, HhNextOf(t), HhPrevOf(t))
      BY <1>0, <1>20 DEF ChainsAre
    <3>2. Members(chain[b]) \subseteq Members(order)
      BY <1>0 DEF ChainsAre
    <3>3. \A x \in Members(chain[b]) : HhNextOf(l)[x] = HhNextOf(t)[x] /\ HhPrevOf(l)[x] = HhPrevOf(t)[x]
      BY <3>2, <1>20
    <3> QED BY <3>1, <3>3, SameLinks
  <2> QED BY <2>1, <1>0, <1>20 DEF ChainsAre
<1>22. Listing(l, order, e, chain, news)
  <2> HIDE DEF m
  <2>1. Table(l, l.num_buckets) /\ ChainsAre(l, chain, l.num_buckets, Members(order))
        /\ SinceIs(order, chain, l.num_buckets, news)
    BY <1>0, <1>14, <1>20, <1>21
  <2> QED BY <2>1, <1>0, <1>19, <1>20 DEF Listing
<1> QED BY <1>12, <1>22

(* Then it is pushed to the head of its chain: of all that were added      *)
(* since the buckets were rearranged it is the newest.                     *)
LEMMA PushedSound ==
  ASSUME NEW l, NEW order, NEW e \in Elem, NEW chain, NEW news, Listing(l, order, e, chain, news),
         Distinct(order), e \notin Members(order)
  PROVE  \E new : Sound(Pushed(l, e, BktOf(e, l.num_buckets)), Append(order, e), new, news \cup {e})
<1> DEFINE m == l.num_buckets
           b == BktOf(e, m)
           p == Pushed(l, e, b)
           new == [chain EXCEPT ![b] = <<e>> \o chain[b]]
           S == Members(order)
           after == Append(order, e)
<1>0. /\ Table(l, m) /\ l.ineff \in 0..2 /\ l.noexpand = (l.ineff > 1)
      /\ ListIs(l, after) /\ ChainsAre(l, chain, m, S) /\ SinceIs(order, chain, m, news)
  BY DEF Listing
<1>1. m \in Nat \ {0}
  BY <1>0 DEF Table
<1>2. /\ Table(p, m) /\ Kept(l, p) /\ b \in 0..(m - 1) /\ e \notin Members(chain[b])
      /\ ChainsAre(p, new, m, S \cup {e})
  BY <1>0, <1>1, PushKeeps
<1> HIDE DEF p
<1>3. p.num_buckets = m /\ p.ineff = l.ineff /\ p.noexpand = l.noexpand
  BY <1>2 DEF Kept
<1>4. ListIs(p, after)
  BY <1>0, <1>2 DEF ListIs, Kept
<1>5. /\ Members(after) = S \cup {e}
      /\ \A x, y : Before(after, x, y) => Before(order, x, y) \/ (x \in S /\ y = e)
      /\ \A x, y : Before(order, x, y) => Before(after, x, y)
      /\ \A x \in S : Before(after, x, e)
  BY AppendedIs
<1>6. \A c \in 0..(m - 1) : Members(chain[c]) \subseteq S /\ Distinct(chain[c])
  BY <1>0 DEF ChainsAre, Chained
<1>7. chain \in [0..(m - 1) -> Seq(Elem)]
  BY <1>0 DEF ChainsAre
<1>8. news \subseteq S /\ e \notin S
  BY <1>0 DEF SinceIs
<1>9. ASSUME NEW x \in Elem, NEW y \in Elem, x \in news \cup {e}, Before(after, x, y)
      PROVE  y \in news \cup {e}
  <2>1. CASE y = e
    BY <2>1
  <2>2. CASE y # e
    <3>1. Before(order, x, y)
      BY <2>2, <1>5, <1>9
    <3>2. x \in S
      BY <3>1, BeforeIs
    <3>3. x \in news
      BY <3>2, <1>8, <1>9
    <3> QED BY <3>1, <3>3, <1>0 DEF SinceIs
  <2> QED BY <2>1, <2>2
<1>10. ASSUME NEW c \in 0..(m - 1), NEW x \in Elem, NEW y \in Elem,
              Before(chain[c], x, y), y \in news \cup {e}
       PROVE  Before(after, y, x)
  <2>1. y \in S
    BY <1>6, <1>10, BeforeIs
  <2>2. y \in news
    BY <2>1, <1>8, <1>10
  <2>3. Before(order, y, x)
    BY <2>2, <1>0, <1>10 DEF SinceIs
  <2> QED BY <2>3, <1>5
<1>11. ASSUME NEW c \in 0..(m - 1), NEW x \in Elem, NEW y \in Elem,
              Before(new[c], x, y), y \in news \cup {e}
       PROVE  Before(after, y, x)
  <2>1. CASE c = b
    <3>1. new[c] = <<e>> \o chain[b]
      BY <2>1, <1>2, <1>7
    <3>2. Before(chain[b], x, y) \/ (x = e /\ y \in Members(chain[b]))
      <4>1. Distinct(chain[b]) /\ e \notin Members(chain[b])
        BY <1>2, <1>6
      <4>2. Before(<<e>> \o chain[b], x, y)
        BY <3>1, <1>11
      <4> HIDE DEF b, new
      <4> QED BY <4>1, <4>2, PushedMembers
    <3>3. CASE Before(chain[b], x, y)
      BY <3>3, <1>2, <1>10, <1>11
    <3>4. CASE x = e /\ y \in Members(chain[b])
      BY <3>4, <1>2, <1>5, <1>6
    <3> QED BY <3>2, <3>3, <3>4
  <2>2. CASE c # b
    <3>1. new[c] = chain[c]
      BY <2>2, <1>7
    <3> HIDE DEF new
    <3> QED BY <3>1, <1>10, <1>11
  <2> QED BY <2>1, <2>2
<1> HIDE DEF new, after, S, m
<1>12. SinceIs(after, new, m, news \cup {e})
  BY <1>5, <1>8, <1>9, <1>11 DEF SinceIs
<1>13. Table(p, p.num_buckets) /\ ChainsAre(p, new, p.num_buckets, Members(after))
       /\ SinceIs(after, new, p.num_buckets, news \cup {e})
  BY <1>2, <1>3, <1>5, <1>12
<1>14. Sound(p, after, new, news \cup {e})
  BY <1>0, <1>3, <1>4, <1>13 DEF Sound
<1> QED BY <1>14 DEF p, after, m

(* An expansion leaves none that was added since.                          *)
LEMMA ExpandedSound ==
  ASSUME NEW t, NEW order, NEW chain, NEW news, Sound(t, order, chain, news), ~t.noexpand
  PROVE  \E new : Sound(Expanded(t), order, new, {})
<1> DEFINE x == Expanded(t)
<1>0. /\ Table(t, t.num_buckets) /\ t.ineff \in 0..2 /\ t.noexpand = (t.ineff > 1)
      /\ ListIs(t, order) /\ ChainsAre(t, chain, t.num_buckets, Members(order))
  BY DEF Sound
<1>1. t.ineff \in 0..1
  <2>1. ~(t.ineff > 1)
    BY <1>0
  <2> QED BY <2>1, <1>0
<1>2. /\ Table(x, x.num_buckets) /\ \E new : ChainsAre(x, new, x.num_buckets, Members(order))
      /\ x.ineff \in 0..2 /\ x.noexpand = (x.ineff > 1)
      /\ x.head = t.head /\ x.tail = t.tail /\ x.num_items = t.num_items
      /\ NextOf(x) = NextOf(t) /\ PrevOf(x) = PrevOf(t)
  BY <1>0, <1>1, ExpandedIs
<1> HIDE DEF x
<1>3. PICK new : ChainsAre(x, new, x.num_buckets, Members(order))
  BY <1>2
<1>4. ListIs(x, order)
  BY <1>0, <1>2 DEF ListIs
<1>5. SinceIs(order, new, x.num_buckets, {})
  BY DEF SinceIs
<1>6. Sound(x, order, new, {})
  BY <1>2, <1>3, <1>4, <1>5 DEF Sound
<1> QED BY <1>6 DEF x

(* What HASH_ADD leaves is sound, with the element last. *)
LEMMA AddKeeps ==
  ASSUME HInv, NEW e \in Elem, Add(e)
  PROVE  /\ HInv' /\ AppOrder(table') = Append(AppOrder(table), e)
         /\ e \notin ToSet(AppOrder(table))
         /\ table'.num_items = table.num_items + 1
<1> DEFINE order  == AppOrder(table)
           chain  == [b \in DOMAIN table.bucket |-> Chain(table, b)]
           listed == Listed(table, e)
           b      == BktOf(e, listed.num_buckets)
           pushed == Pushed(listed, e, b)
<1>1. Sound(table, order, chain, since)
  BY DEF HInv
<1>2. /\ e \notin Present
      /\ IF TooLong(pushed, b)
         THEN table' = Expanded(pushed) /\ since' = {}
         ELSE table' = pushed /\ since' = since \cup {e}
  BY DEF Add, BktOf
<1> HIDE DEF order, chain
<1>3. Distinct(order) /\ table.num_items = Len(order)
  BY <1>1 DEF Sound, ListIs, Chained
<1>4. e \notin Members(order) /\ e \notin ToSet(order)
  <2>1. Present = ToSet(order)
    BY DEF Present, order
  <2>2. DOMAIN order = 1..Len(order)
    BY <1>3, DistinctIs
  <2>3. ToSet(order) = Members(order)
    BY <2>2 DEF ToSet, Members
  <2> QED BY <2>1, <2>3, <1>2
<1>5. PICK ch : Listing(listed, order, e, ch, since)
  <2>1. CASE table.head = Nil
    BY <2>1, <1>1, <1>4, FirstListed
  <2>2. CASE table.head # Nil
    BY <2>2, <1>1, <1>4, NextListed
  <2> QED BY <2>1, <2>2
<1>6. PICK mid : Sound(pushed, Append(order, e), mid, since \cup {e})
  <2> HIDE DEF listed
  <2> QED BY <1>3, <1>4, <1>5, PushedSound
<1> HIDE DEF pushed, b, listed
<1>7. \E new : Sound(table', Append(order, e), new, since')
  <2>1. CASE TooLong(pushed, b)
    <3>1. ~pushed.noexpand
      BY <2>1 DEF TooLong
    <3>2. table' = Expanded(pushed) /\ since' = {}
      BY <2>1, <1>2
    <3>3. \E new : Sound(Expanded(pushed), Append(order, e), new, {})
      BY <3>1, <1>6, ExpandedSound
    <3> QED BY <3>2, <3>3
  <2>2. CASE ~TooLong(pushed, b)
    BY <2>2, <1>2, <1>6
  <2> QED BY <2>1, <2>2
<1>8. PICK new : Sound(table', Append(order, e), new, since')
  BY <1>7
<1>9. AppOrder(table') = Append(order, e) /\ [c \in DOMAIN table'.bucket |-> Chain(table', c)] = new
  BY <1>8, SoundIs
<1>10. HInv'
  BY <1>8, <1>9 DEF HInv
<1>11. table'.num_items = table.num_items + 1
  <2>1. table'.num_items = Len(Append(order, e))
    BY <1>8 DEF Sound, ListIs
  <2> QED BY <2>1, <1>3, <1>4, AppendedIs
<1> QED BY <1>4, <1>9, <1>10, <1>11 DEF order

-----------------------------------------------------------------------------
(* HASH_DELETE_HH.  Its two halves take an element out of the list and out *)
(* of its chain: the neighbours are linked to each other.                  *)
LEMMA UnlinkedIs ==
  ASSUME NEW m, NEW t, Table(t, m), NEW e \in Elem
  PROVE  LET u == Unlinked(t, e)
             n == NextOf(t)[e]
             p == PrevOf(t)[e]
         IN  /\ Table(u, m) /\ ChainsKept(t, u) /\ u.tail = t.tail /\ u.num_items = t.num_items
             /\ u.head = IF p = Nil THEN n ELSE t.head
             /\ \A x \in Elem : NextOf(u)[x] = IF x = p THEN n ELSE NextOf(t)[x]
             /\ \A x \in Elem : PrevOf(u)[x] = IF x = n THEN p ELSE PrevOf(t)[x]
<1> DEFINE n == NextOf(t)[e]
           p == PrevOf(t)[e]
           f == IF p = Nil THEN [t EXCEPT !.head = n] ELSE [t EXCEPT !.hh[p].next = n]
           u == IF n = Nil THEN f ELSE [f EXCEPT !.hh[n].prev = p]
<1>0. Nil \notin Elem
  BY UtHashAssumption
<1>1. t.hh[e].next = n /\ t.hh[e].prev = p
  BY DEF NextOf, PrevOf
<1>2. n \in Ptr /\ p \in Ptr
  <2>1. t.hh[e] \in Handle
    BY DEF Table
  <2> QED BY <2>1, <1>1 DEF Handle
<1>3. Unlinked(t, e) = u
  BY <1>1 DEF Unlinked
<1> HIDE DEF n, p
<1>4. /\ Table(f, m) /\ ChainsKept(t, f) /\ f.tail = t.tail /\ f.num_items = t.num_items
      /\ f.head = IF p = Nil THEN n ELSE t.head
      /\ \A x \in Elem : NextOf(f)[x] = IF x = p THEN n ELSE NextOf(t)[x]
      /\ PrevOf(f) = PrevOf(t)
  <2>1. CASE p = Nil
    <3>1. f = [t EXCEPT !.head = n]
      BY <2>1
    <3> HIDE DEF f
    <3>2. Table(f, m)
      BY <3>1, <1>2 DEF Table
    <3>3. /\ f.head = n /\ f.tail = t.tail /\ f.num_items = t.num_items
          /\ f.hh = t.hh /\ f.bucket = t.bucket /\ f.num_buckets = t.num_buckets
          /\ f.ineff = t.ineff /\ f.noexpand = t.noexpand
      BY <3>1 DEF Table
    <3>4. /\ NextOf(f) = NextOf(t) /\ PrevOf(f) = PrevOf(t)
          /\ HhNextOf(f) = HhNextOf(t) /\ HhPrevOf(f) = HhPrevOf(t)
      BY <3>3 DEF NextOf, PrevOf, HhNextOf, HhPrevOf
    <3> QED BY <3>2, <3>3, <3>4, <2>1, <1>0 DEF ChainsKept
  <2>2. CASE p # Nil
    <3>1. f = [t EXCEPT !.hh[p].next = n]
      BY <2>2
    <3>2. p \in Elem
      BY <2>2, <1>2 DEF Ptr
    <3> HIDE DEF f
    <3>3. /\ Table(f, m) /\ ChainsKept(t, f)
          /\ f.head = t.head /\ f.tail = t.tail /\ f.num_items = t.num_items
          /\ PrevOf(f) = PrevOf(t) /\ NextOf(f)[p] = n
          /\ \A x \in Elem : x # p => NextOf(f)[x] = NextOf(t)[x]
      BY <3>1, <3>2, <1>2, NextSet
    <3> QED BY <3>3, <2>2
  <2> QED BY <2>1, <2>2
<1> HIDE DEF f
<1>5. /\ Table(u, m) /\ ChainsKept(t, u) /\ u.tail = t.tail /\ u.num_items = t.num_items
      /\ u.head = f.head /\ NextOf(u) = NextOf(f)
      /\ \A x \in Elem : PrevOf(u)[x] = IF x = n THEN p ELSE PrevOf(t)[x]
  <2>1. CASE n = Nil
    <3>1. u = f
      BY <2>1
    <3> HIDE DEF u
    <3> QED BY <3>1, <2>1, <1>0, <1>4
  <2>2. CASE n # Nil
    <3>1. u = [f EXCEPT !.hh[n].prev = p]
      BY <2>2
    <3>2. n \in Elem /\ Table(f, m)
      BY <2>2, <1>2, <1>4 DEF Ptr
    <3> HIDE DEF u
    <3>3. /\ Table(u, m) /\ ChainsKept(f, u)
          /\ u.head = f.head /\ u.tail = f.tail /\ u.num_items = f.num_items
          /\ NextOf(u) = NextOf(f) /\ PrevOf(u)[n] = p
          /\ \A x \in Elem : x # n => PrevOf(u)[x] = PrevOf(f)[x]
      BY <3>1, <3>2, <1>2, PrevSet
    <3>4. ChainsKept(t, u)
      BY <3>3, <1>4 DEF ChainsKept
    <3> QED BY <3>3, <3>4, <2>2, <1>4
  <2> QED BY <2>1, <2>2
<1> HIDE DEF u
<1> QED BY <1>3, <1>4, <1>5 DEF n, p

(* The number of items and the tail after that. *)
LEMMA UnlistedIs ==
  ASSUME NEW m, NEW t, Table(t, m), NEW e \in Elem, t.num_items > 0
  PROVE  LET u == Unlisted(t, e)
             n == NextOf(t)[e]
             p == PrevOf(t)[e]
         IN  /\ Table(u, m) /\ ChainsKept(t, u)
             /\ u.head = (IF p = Nil THEN n ELSE t.head)
             /\ u.tail = (IF t.tail = e THEN p ELSE t.tail)
             /\ u.num_items = t.num_items - 1
             /\ \A x \in Elem : NextOf(u)[x] = IF x = p THEN n ELSE NextOf(t)[x]
             /\ \A x \in Elem : PrevOf(u)[x] = IF x = n THEN p ELSE PrevOf(t)[x]
<1> DEFINE n == NextOf(t)[e]
           p == PrevOf(t)[e]
           f == Unlinked(t, e)
           last == IF t.tail = e THEN p ELSE t.tail
           num == t.num_items - 1
           u == [f EXCEPT !.num_items = num, !.tail = last]
<1>1. /\ Table(f, m) /\ ChainsKept(t, f) /\ f.tail = t.tail /\ f.num_items = t.num_items
      /\ f.head = (IF p = Nil THEN n ELSE t.head)
      /\ \A x \in Elem : NextOf(f)[x] = IF x = p THEN n ELSE NextOf(t)[x]
      /\ \A x \in Elem : PrevOf(f)[x] = IF x = n THEN p ELSE PrevOf(t)[x]
  BY UnlinkedIs
<1>2. last \in Ptr /\ num \in Nat
  <2>1. t.tail \in Ptr /\ t.num_items \in Nat /\ t.hh[e] \in Handle
    BY DEF Table
  <2>2. p \in Ptr
    BY <2>1 DEF PrevOf, Handle
  <2> QED BY <2>1, <2>2
<1>3. Unlisted(t, e) = u
  <2>1. t.hh[e].prev = p
    BY DEF PrevOf
  <2> HIDE DEF f, p
  <2>2. Unlisted(t, e) = [f EXCEPT !.num_items = @ - 1, !.tail = IF @ = e THEN p ELSE @]
    BY <2>1 DEF Unlisted, f
  <2>3. f.num_items - 1 = num /\ (IF f.tail = e THEN p ELSE f.tail) = last
    BY <1>1
  <2>4. [f EXCEPT !.num_items = @ - 1].tail = f.tail
    BY <1>1 DEF Table
  <2> QED BY <2>2, <2>3, <2>4
<1> HIDE DEF f, last, num, n, p
<1>4. Table(u, m)
  BY <1>1, <1>2 DEF Table
<1>5. /\ u.num_items = num /\ u.tail = last /\ u.head = f.head
      /\ u.hh = f.hh /\ u.bucket = f.bucket /\ u.num_buckets = f.num_buckets
      /\ u.ineff = f.ineff /\ u.noexpand = f.noexpand
  BY <1>1 DEF Table
<1> HIDE DEF u
<1>6. /\ NextOf(u) = NextOf(f) /\ PrevOf(u) = PrevOf(f)
      /\ HhNextOf(u) = HhNextOf(f) /\ HhPrevOf(u) = HhPrevOf(f)
  BY <1>5 DEF NextOf, PrevOf, HhNextOf, HhPrevOf
<1>7. ChainsKept(t, u)
  BY <1>1, <1>5, <1>6 DEF ChainsKept
<1> QED BY <1>1, <1>3, <1>4, <1>5, <1>6, <1>7 DEF n, p, last, num

(* The chain without the element. *)
LEMMA UnchainedIs ==
  ASSUME NEW m, NEW t, Table(t, m), NEW e \in Elem, NEW b \in 0..(m - 1),
         t.bucket[b].count > 0
  PROVE  LET u == Unchained(t, e, b)
             n == HhNextOf(t)[e]
             p == HhPrevOf(t)[e]
         IN  /\ Table(u, m) /\ Kept(t, u)
             /\ u.bucket[b].first = (IF t.bucket[b].first = e THEN n ELSE t.bucket[b].first)
             /\ u.bucket[b].count = t.bucket[b].count - 1
             /\ \A c \in 0..(m - 1) : c # b => u.bucket[c] = t.bucket[c]
             /\ \A x \in Elem : HhNextOf(u)[x] = IF x = p THEN n ELSE HhNextOf(t)[x]
             /\ \A x \in Elem : HhPrevOf(u)[x] = IF x = n THEN p ELSE HhPrevOf(t)[x]
<1> DEFINE n == HhNextOf(t)[e]
           p == HhPrevOf(t)[e]
           num == t.bucket[b].count - 1
           first == IF t.bucket[b].first = e THEN n ELSE t.bucket[b].first
           c1 == [t EXCEPT !.bucket[b].count = num]
           c2 == [c1 EXCEPT !.bucket[b].first = first]
           f == IF p = Nil THEN c2 ELSE [c2 EXCEPT !.hh[p].hh_next = n]
           u == IF n = Nil THEN f ELSE [f EXCEPT !.hh[n].hh_prev = p]
<1>0. Nil \notin Elem
  BY UtHashAssumption
<1>1. t.hh[e].hh_next = n /\ t.hh[e].hh_prev = p
  BY DEF HhNextOf, HhPrevOf
<1>2. n \in Ptr /\ p \in Ptr
  <2>1. t.hh[e] \in Handle
    BY DEF Table
  <2> QED BY <2>1, <1>1 DEF Handle
<1>3. num \in Nat /\ first \in Ptr
  <2>1. t.bucket[b] \in Bucket
    BY DEF Table
  <2>2. t.bucket[b].count \in Nat /\ t.bucket[b].first \in Ptr
    BY <2>1 DEF Bucket
  <2> QED BY <2>2, <1>2
<1> HIDE DEF n, p, num, first
<1>4. c1 = [t EXCEPT !.bucket[b].count = num]
  OBVIOUS
<1>5. c2 = [c1 EXCEPT !.bucket[b].first = first]
  OBVIOUS
<1> HIDE DEF c1, c2
<1>6. /\ Table(c1, m) /\ Kept(t, c1)
      /\ HhNextOf(c1) = HhNextOf(t) /\ HhPrevOf(c1) = HhPrevOf(t)
      /\ c1.bucket[b].first = t.bucket[b].first /\ c1.bucket[b].count = num
      /\ \A c \in 0..(m - 1) : c # b => c1.bucket[c] = t.bucket[c]
  BY <1>3, <1>4, CountSet
<1>7. /\ Table(c2, m) /\ Kept(c1, c2)
      /\ HhNextOf(c2) = HhNextOf(c1) /\ HhPrevOf(c2) = HhPrevOf(c1)
      /\ c2.bucket[b].first = first /\ c2.bucket[b].count = c1.bucket[b].count
      /\ \A c \in 0..(m - 1) : c # b => c2.bucket[c] = c1.bucket[c]
  <2>1. Table(c1, m)
    BY <1>6
  <2> QED BY <2>1, <1>3, <1>5, FirstSet
<1>8. Unchained(t, e, b) = u
  <2> DEFINE c0 == [t EXCEPT !.bucket[b].count = @ - 1, !.bucket[b].first = IF @ = e THEN n ELSE @]
  <2>1. c0 = c2
    <3>1. c1 = [t EXCEPT !.bucket[b].count = @ - 1]
      BY <1>4 DEF num
    <3>2. c0 = [c1 EXCEPT !.bucket[b].first = IF @ = e THEN n ELSE @]
      BY <3>1
    <3>3. (IF c1.bucket[b].first = e THEN n ELSE c1.bucket[b].first) = first
      BY <1>6 DEF first
    <3> HIDE DEF c0
    <3> QED BY <3>2, <3>3, <1>5
  <2>2. Unchained(t, e, b) =
          LET g == IF p = Nil THEN c0 ELSE [c0 EXCEPT !.hh[p].hh_next = n]
          IN  IF n = Nil THEN g ELSE [g EXCEPT !.hh[n].hh_prev = p]
    BY <1>1 DEF Unchained
  <2> HIDE DEF c0
  <2> QED BY <2>1, <2>2
<1>9. /\ Table(f, m) /\ Kept(c2, f) /\ f.bucket = c2.bucket
      /\ \A x \in Elem : HhNextOf(f)[x] = IF x = p THEN n ELSE HhNextOf(t)[x]
      /\ HhPrevOf(f) = HhPrevOf(t)
  <2>1. CASE p = Nil
    <3>1. f = c2
      BY <2>1
    <3>2. \A x \in Elem : x # p
      BY <2>1, <1>0
    <3> HIDE DEF f
    <3> QED BY <3>1, <3>2, <1>6, <1>7 DEF Kept
  <2>2. CASE p # Nil
    <3>1. f = [c2 EXCEPT !.hh[p].hh_next = n]
      BY <2>2
    <3>2. p \in Elem /\ Table(c2, m)
      BY <2>2, <1>2, <1>7 DEF Ptr
    <3> HIDE DEF f
    <3>3. /\ Table(f, m) /\ Kept(c2, f) /\ f.bucket = c2.bucket
          /\ HhPrevOf(f) = HhPrevOf(c2) /\ HhNextOf(f)[p] = n
          /\ \A x \in Elem : x # p => HhNextOf(f)[x] = HhNextOf(c2)[x]
      BY <3>1, <3>2, <1>2, HhNextSet
    <3> QED BY <3>3, <1>6, <1>7
  <2> QED BY <2>1, <2>2
<1> HIDE DEF f
<1>10. /\ Table(u, m) /\ Kept(f, u) /\ u.bucket = f.bucket
       /\ HhNextOf(u) = HhNextOf(f)
       /\ \A x \in Elem : HhPrevOf(u)[x] = IF x = n THEN p ELSE HhPrevOf(t)[x]
  <2>1. CASE n = Nil
    <3>1. u = f
      BY <2>1
    <3>2. \A x \in Elem : x # n
      BY <2>1, <1>0
    <3> HIDE DEF u
    <3> QED BY <3>1, <3>2, <1>9 DEF Kept
  <2>2. CASE n # Nil
    <3>1. u = [f EXCEPT !.hh[n].hh_prev = p]
      BY <2>2
    <3>2. n \in Elem /\ Table(f, m)
      BY <2>2, <1>2, <1>9 DEF Ptr
    <3> HIDE DEF u
    <3>3. /\ Table(u, m) /\ Kept(f, u) /\ u.bucket = f.bucket
          /\ HhNextOf(u) = HhNextOf(f) /\ HhPrevOf(u)[n] = p
          /\ \A x \in Elem : x # n => HhPrevOf(u)[x] = HhPrevOf(f)[x]
      BY <3>1, <3>2, <1>2, HhPrevSet
    <3> QED BY <3>3, <1>9
  <2> QED BY <2>1, <2>2
<1> HIDE DEF u
<1>11. Kept(t, u)
  BY <1>6, <1>7, <1>9, <1>10, KeptTwice
<1>12. /\ u.bucket[b].first = first /\ u.bucket[b].count = num
       /\ \A c \in 0..(m - 1) : c # b => u.bucket[c] = t.bucket[c]
  BY <1>6, <1>7, <1>9, <1>10
<1> QED BY <1>8, <1>9, <1>10, <1>11, <1>12 DEF n, p, num, first

(* A table after HASH_DELETE_HH that is not its last is sound.             *)
Deleted(t, e) ==
  [Unchained(Unlisted(t, e), e, BktOf(e, t.num_buckets)) EXCEPT !.hh[e] = NoHandle]

LEMMA DeletedSound ==
  ASSUME NEW t, NEW order, NEW chain, NEW news, Sound(t, order, chain, news),
         NEW k \in 1..Len(order)
  PROVE  \E new : Sound(Deleted(t, order[k]), RemoveAt(order, k), new, news \ {order[k]})
<1> DEFINE m == t.num_buckets
           e == order[k]
           b == BktOf(e, m)
           t1 == Unlisted(t, e)
           t2 == Unchained(t1, e, b)
           z == [t2 EXCEPT !.hh[e] = NoHandle]
           rest == RemoveAt(order, k)
           S == Members(order)
<1>0. /\ Table(t, m) /\ t.ineff \in 0..2 /\ t.noexpand = (t.ineff > 1)
      /\ ListIs(t, order) /\ ChainsAre(t, chain, m, S) /\ SinceIs(order, chain, m, news)
  BY DEF Sound
<1>1. /\ Chained(order, t.head, NextOf(t), PrevOf(t)) /\ Distinct(order)
      /\ t.tail = At(order, Len(order)) /\ t.num_items = Len(order)
      /\ Len(order) \in Nat /\ m \in Nat \ {0}
  BY <1>0, DistinctIs DEF ListIs, Chained, Table
<1>2. e \in Elem /\ e \in S /\ S \subseteq Elem /\ t.num_items > 0
  BY <1>1, DistinctIs DEF Members
<1>3. b \in 0..(m - 1)
  BY <1>1, <1>2, BktOfIs
<1>4. /\ Chained(chain[b], t.bucket[b].first, HhNextOf(t), HhPrevOf(t))
      /\ Members(chain[b]) = {x \in S : BktOf(x, m) = b}
      /\ t.bucket[b].count = Len(chain[b]) /\ Distinct(chain[b])
  BY <1>0, <1>3 DEF ChainsAre, Chained
<1>5. PICK j \in 1..Len(chain[b]) : chain[b][j] = e
  BY <1>2, <1>4 DEF Members
<1> DEFINE part == RemoveAt(chain[b], j)
           new  == [chain EXCEPT ![b] = part]
           n  == NextOf(t)[e]
           p  == PrevOf(t)[e]
           hn == HhNextOf(t)[e]
           hp == HhPrevOf(t)[e]
<1> HIDE DEF e, b
<1>6. /\ Table(t1, m) /\ ChainsKept(t, t1)
      /\ t1.head = (IF p = Nil THEN n ELSE t.head)
      /\ t1.tail = (IF t.tail = e THEN p ELSE t.tail)
      /\ t1.num_items = t.num_items - 1
      /\ \A x \in Elem : NextOf(t1)[x] = IF x = p THEN n ELSE NextOf(t)[x]
      /\ \A x \in Elem : PrevOf(t1)[x] = IF x = n THEN p ELSE PrevOf(t)[x]
  BY <1>0, <1>2, UnlistedIs
<1> HIDE DEF t1
<1>7. t1.bucket = t.bucket /\ HhNextOf(t1) = HhNextOf(t) /\ HhPrevOf(t1) = HhPrevOf(t)
      /\ t1.num_buckets = m /\ t1.ineff = t.ineff /\ t1.noexpand = t.noexpand
  BY <1>6 DEF ChainsKept
<1>8. t1.bucket[b].count > 0
  <2>1. Len(chain[b]) \in Nat
    BY <1>4, DistinctIs
  <2> QED BY <2>1, <1>4, <1>5, <1>7
<1>9. /\ Table(t2, m) /\ Kept(t1, t2)
      /\ t2.bucket[b].first = (IF t1.bucket[b].first = e THEN HhNextOf(t1)[e] ELSE t1.bucket[b].first)
      /\ t2.bucket[b].count = t1.bucket[b].count - 1
      /\ \A c \in 0..(m - 1) : c # b => t2.bucket[c] = t1.bucket[c]
      /\ \A x \in Elem : HhNextOf(t2)[x] = IF x = HhPrevOf(t1)[e] THEN HhNextOf(t1)[e] ELSE HhNextOf(t1)[x]
      /\ \A x \in Elem : HhPrevOf(t2)[x] = IF x = HhNextOf(t1)[e] THEN HhPrevOf(t1)[e] ELSE HhPrevOf(t1)[x]
  BY <1>2, <1>3, <1>6, <1>8, UnchainedIs
<1> HIDE DEF t2
<1>10. NoHandle \in Handle
  BY DEF NoHandle, Handle, Ptr
<1>11. z = [t2 EXCEPT !.hh = [t2.hh EXCEPT ![e] = NoHandle]]
  OBVIOUS
<1> HIDE DEF z
<1>12. /\ Table(z, m) /\ z.bucket = t2.bucket
       /\ \A x \in Elem : x # e => z.hh[x] = t2.hh[x]
       /\ z.head = t2.head /\ z.tail = t2.tail /\ z.num_items = t2.num_items
       /\ z.num_buckets = t2.num_buckets /\ z.ineff = t2.ineff /\ z.noexpand = t2.noexpand
  BY <1>2, <1>9, <1>10, <1>11, HandleSet
<1>13. \A x \in Elem : x # e => /\ NextOf(z)[x] = NextOf(t2)[x] /\ PrevOf(z)[x] = PrevOf(t2)[x]
                                /\ HhNextOf(z)[x] = HhNextOf(t2)[x]
                                /\ HhPrevOf(z)[x] = HhPrevOf(t2)[x]
  BY <1>12 DEF NextOf, PrevOf, HhNextOf, HhPrevOf
<1>14. /\ z.num_buckets = m /\ z.ineff = t.ineff /\ z.noexpand = t.noexpand
       /\ z.head = t1.head /\ z.tail = t1.tail /\ z.num_items = t1.num_items
       /\ NextOf(t2) = NextOf(t1) /\ PrevOf(t2) = PrevOf(t1)
  BY <1>7, <1>9, <1>12 DEF Kept
(* The list. *)
<1>15. GapLinks(order, e, NextOf(t), PrevOf(t), NextOf(z), PrevOf(z))
  <2>1. \A x \in S \ {e} : x \in Elem /\ x # e
    BY <1>2
  <2>2. \A x \in S \ {e} : /\ NextOf(z)[x] = IF x = p THEN n ELSE NextOf(t)[x]
                           /\ PrevOf(z)[x] = IF x = n THEN p ELSE PrevOf(t)[x]
    BY <2>1, <1>6, <1>13, <1>14
  <2> QED BY <2>2 DEF GapLinks
<1>16. /\ Chained(rest, IF t.head = e THEN n ELSE t.head, NextOf(z), PrevOf(z))
       /\ t.head = e <=> p = Nil
       /\ At(rest, Len(rest)) = (IF At(order, Len(order)) = e THEN p ELSE At(order, Len(order)))
  <2>1. Gapped(order, e, rest, t.head, NextOf(t), PrevOf(t), NextOf(z), PrevOf(z))
    <3>1. GapLinks(order, order[k], NextOf(t), PrevOf(t), NextOf(z), PrevOf(z))
      BY <1>15 DEF e
    <3> QED BY <3>1, <1>1, RemovedLinks DEF e
  <2> HIDE DEF rest
  <2> QED BY <2>1 DEF Gapped
<1>17. /\ Distinct(rest) /\ Len(rest) = Len(order) - 1 /\ Members(rest) = S \ {e}
       /\ \A x, y : Before(rest, x, y) => Before(order, x, y)
       /\ \A x, y : Before(order, x, y) /\ x # e /\ y # e => Before(rest, x, y)
  BY <1>1, RemovedIs DEF e
<1> HIDE DEF rest
<1>18. ListIs(z, rest)
  <2>1. z.head = IF t.head = e THEN n ELSE t.head
    BY <1>6, <1>14, <1>16
  <2>2. z.tail = At(rest, Len(rest))
    BY <1>1, <1>6, <1>14, <1>16
  <2>3. z.num_items = Len(rest)
    BY <1>1, <1>6, <1>14, <1>17
  <2> QED BY <2>1, <2>2, <2>3, <1>16 DEF ListIs
(* The chain of the element. *)
<1>19. GapLinks(chain[b], e, HhNextOf(t), HhPrevOf(t), HhNextOf(z), HhPrevOf(z))
  <2>1. \A x \in Members(chain[b]) \ {e} : x \in Elem /\ x # e
    BY <1>2, <1>4
  <2>2. \A x \in Members(chain[b]) \ {e} : /\ HhNextOf(z)[x] = IF x = hp THEN hn ELSE HhNextOf(t)[x]
                                           /\ HhPrevOf(z)[x] = IF x = hn THEN hp ELSE HhPrevOf(t)[x]
    BY <2>1, <1>7, <1>9, <1>13
  <2> QED BY <2>2 DEF GapLinks
<1>20. /\ Chained(part, IF t.bucket[b].first = e THEN hn ELSE t.bucket[b].first, HhNextOf(z), HhPrevOf(z))
       /\ hn \in (Members(chain[b]) \ {e}) \cup {Nil} /\ hp \in (Members(chain[b]) \ {e}) \cup {Nil}
  <2>1. GapLinks(chain[b], chain[b][j], HhNextOf(t), HhPrevOf(t), HhNextOf(z), HhPrevOf(z))
    BY <1>5, <1>19
  <2>2. Gapped(chain[b], chain[b][j], part, t.bucket[b].first, HhNextOf(t), HhPrevOf(t),
               HhNextOf(z), HhPrevOf(z))
    BY <2>1, <1>4, RemovedLinks
  <2> HIDE DEF part
  <2>3. Gapped(chain[b], e, part, t.bucket[b].first, HhNextOf(t), HhPrevOf(t),
               HhNextOf(z), HhPrevOf(z))
    BY <2>2, <1>5
  <2> QED BY <2>3 DEF Gapped
<1>21. /\ Distinct(part) /\ Len(part) = Len(chain[b]) - 1 /\ Members(part) = Members(chain[b]) \ {e}
       /\ \A x, y : Before(part, x, y) => Before(chain[b], x, y)
  BY <1>4, <1>5, RemovedIs
<1> HIDE DEF part
(* The others. *)
<1>22. chain \in [0..(m - 1) -> Seq(Elem)]
  BY <1>0 DEF ChainsAre
<1>23. ASSUME NEW c \in 0..(m - 1), c # b
       PROVE  Chained(chain[c], z.bucket[c].first, HhNextOf(z), HhPrevOf(z))
  <2>1. Chained(chain[c], z.bucket[c].first, HhNextOf(t), HhPrevOf(t))
    BY <1>0, <1>7, <1>9, <1>12, <1>23 DEF ChainsAre
  <2>2. Members(chain[c]) = {x \in S : BktOf(x, m) = c}
    BY <1>0 DEF ChainsAre
  <2>3. \A x \in Members(chain[c]) : x \in Elem /\ x \notin Members(chain[b])
    BY <2>2, <1>2, <1>4, <1>23
  <2>4. e \in Members(chain[b]) /\ Nil \notin Elem
    BY <1>5, UtHashAssumption DEF Members
  <2>5. \A x \in Members(chain[c]) : x \in Elem /\ x # e /\ x # hn /\ x # hp
    BY <2>3, <2>4, <1>20
  <2>6. \A x \in Members(chain[c]) : HhNextOf(z)[x] = HhNextOf(t)[x] /\ HhPrevOf(z)[x] = HhPrevOf(t)[x]
    BY <2>5, <1>7, <1>9, <1>13
  <2> QED BY <2>1, <2>6, SameLinks
<1>24. ASSUME NEW c \in 0..(m - 1)
       PROVE  /\ Chained(new[c], z.bucket[c].first, HhNextOf(z), HhPrevOf(z))
              /\ Members(new[c]) = {x \in S \ {e} : BktOf(x, m) = c}
              /\ z.bucket[c].count = Len(new[c])
              /\ \A x, y : Before(new[c], x, y) => Before(chain[c], x, y)
  <2>1. CASE c = b
    <3>1. new[c] = part
      BY <2>1, <1>3, <1>22
    <3>2. {x \in S \ {e} : BktOf(x, m) = b} = {x \in S : BktOf(x, m) = b} \ {e}
      OBVIOUS
    <3>3. z.bucket[b].first = IF t.bucket[b].first = e THEN hn ELSE t.bucket[b].first
      BY <1>7, <1>9, <1>12
    <3>4. z.bucket[b].count = Len(chain[b]) - 1
      BY <1>4, <1>7, <1>9, <1>12
    <3> HIDE DEF new, hn, hp
    <3> QED BY <3>1, <3>2, <3>3, <3>4, <2>1, <1>4, <1>20, <1>21
  <2>2. CASE c # b
    <3>1. new[c] = chain[c]
      BY <2>2, <1>22
    <3>2. {x \in S \ {e} : BktOf(x, m) = c} = {x \in S : BktOf(x, m) = c}
      BY <2>2 DEF b
    <3>3. Members(chain[c]) = {x \in S : BktOf(x, m) = c} /\ t.bucket[c].count = Len(chain[c])
      BY <1>0 DEF ChainsAre
    <3>4. z.bucket[c].count = t.bucket[c].count
      BY <2>2, <1>7, <1>9, <1>12
    <3> HIDE DEF new
    <3> QED BY <3>1, <3>2, <3>3, <3>4, <2>2, <1>23
  <2> QED BY <2>1, <2>2
<1>25. new \in [0..(m - 1) -> Seq(Elem)]
  <2>1. part \in Seq(Elem)
    BY <1>21 DEF Distinct
  <2> QED BY <2>1, <1>22
<1> HIDE DEF new
<1>26. ChainsAre(z, new, m, S \ {e})
  BY <1>2, <1>24, <1>25 DEF ChainsAre
<1>27. SinceIs(rest, new, m, news \ {e})
  <2>1. news \ {e} \subseteq Members(rest)
    BY <1>0, <1>17 DEF SinceIs
  <2>2. ASSUME NEW x \in Elem, NEW y \in Elem, x \in news \ {e}, Before(rest, x, y)
        PROVE  y \in news \ {e}
    <3>1. y \in news
      BY <2>2, <1>0, <1>17 DEF SinceIs
    <3>2. y \in Members(rest)
      BY <2>2, BeforeIs
    <3> QED BY <3>1, <3>2, <1>17
  <2>3. ASSUME NEW c \in 0..(m - 1), NEW x \in Elem, NEW y \in Elem,
               Before(new[c], x, y), y \in news \ {e}
        PROVE  Before(rest, y, x)
    <3>1. Before(order, y, x)
      BY <2>3, <1>0, <1>24 DEF SinceIs
    <3>2. x \in S \ {e}
      <4>1. x \in Members(new[c])
        BY <2>3, BeforeIs
      <4> QED BY <4>1, <1>24
    <3> QED BY <3>1, <3>2, <2>3, <1>17
  <2> QED BY <2>1, <2>2, <2>3 DEF SinceIs
<1> HIDE DEF m, S
<1>28. /\ Table(z, z.num_buckets) /\ ChainsAre(z, new, z.num_buckets, Members(rest))
       /\ SinceIs(rest, new, z.num_buckets, news \ {e})
  BY <1>12, <1>14, <1>17, <1>26, <1>27
<1>29. Sound(z, rest, new, news \ {e})
  BY <1>0, <1>14, <1>18, <1>28 DEF Sound
<1>30. z = Deleted(t, e)
  BY DEF Deleted, z, t2, t1, b, m
<1> QED BY <1>29, <1>30 DEF e, rest

(* Where there is no table, there is the list of none. *)
LEMMA NoTableSound == \E chain : Sound(NoTable, <<>>, chain, {})
<1>1. PICK chain : /\ ChainsAre(NoTable, chain, InitBuckets, {})
                   /\ SinceIs(<<>>, chain, InitBuckets, {})
  BY NoTableIs
<1>2. NoTable.num_buckets = InitBuckets /\ NoTable.ineff = 0 /\ NoTable.noexpand = FALSE
      /\ Table(NoTable, InitBuckets)
  BY NoTableIs
<1>3. 0 \in 0..2 /\ (0 > 1) = FALSE
  OBVIOUS
<1>4. NoTable.ineff \in 0..2 /\ NoTable.noexpand = (NoTable.ineff > 1)
  BY <1>2, <1>3, Zenon
<1>5. ListIs(NoTable, <<>>)
  <2>1. Chained(<<>>, NoTable.head, NextOf(NoTable), PrevOf(NoTable))
    BY NoTableIs, EmptyList DEF Chained
  <2>2. NoTable.tail = At(<<>>, Len(<<>>)) /\ NoTable.num_items = Len(<<>>)
    BY NoTableIs, EmptyList
  <2> QED BY <2>1, <2>2 DEF ListIs
<1>6. Members(<<>>) = {}
  BY EmptyList
<1>7. Sound(NoTable, <<>>, chain, {})
  BY <1>1, <1>2, <1>4, <1>5, <1>6 DEF Sound
<1> QED BY <1>7

(* To forget which were added since the buckets were rearranged is sound. *)
LEMMA Forgotten ==
  ASSUME NEW t, NEW order, NEW chain, NEW news, Sound(t, order, chain, news)
  PROVE  Sound(t, order, chain, {})
BY DEF Sound, SinceIs

(* What HASH_DELETE leaves is sound, without the element. *)
LEMMA DeleteKeeps ==
  ASSUME HInv, NEW e \in Elem, Delete(e)
  PROVE  /\ HInv' /\ table'.num_items = table.num_items - 1
         /\ \E k \in DOMAIN AppOrder(table) :
              AppOrder(table)[k] = e /\ AppOrder(table') = RemoveAt(AppOrder(table), k)
<1> DEFINE order == AppOrder(table)
           chain == [b \in DOMAIN table.bucket |-> Chain(table, b)]
<1>1. Sound(table, order, chain, since)
  BY DEF HInv
<1>2. /\ e \in ToSet(order)
      /\ table' = IF table.hh[e].prev = Nil /\ table.hh[e].next = Nil THEN NoTable
                  ELSE Deleted(table, e)
      /\ since' = IF table'.head = Nil THEN {} ELSE since \ {e}
  BY DEF Delete, Deleted, Present, BktOf
<1> HIDE DEF order, chain
<1>3. Chained(order, table.head, NextOf(table), PrevOf(table)) /\ Distinct(order)
      /\ table.num_items = Len(order)
  BY <1>1 DEF Sound, ListIs, Chained
<1>4. DOMAIN order = 1..Len(order) /\ Len(order) \in Nat /\ \A i \in 1..Len(order) : order[i] # Nil
  BY <1>3, DistinctIs
<1>5. PICK k \in 1..Len(order) : order[k] = e
  BY <1>2, <1>4 DEF ToSet
<1>6. Distinct(RemoveAt(order, k)) /\ Len(RemoveAt(order, k)) = Len(order) - 1
  BY <1>3, RemovedIs
<1>7. \E new : Sound(table', RemoveAt(order, k), new, since')
  <2>1. CASE table.hh[e].prev = Nil /\ table.hh[e].next = Nil
    <3>1. NextOf(table)[e] = At(order, k + 1) /\ PrevOf(table)[e] = At(order, k - 1)
      BY <1>3, <1>5 DEF Chained
    <3>2. At(order, k + 1) = Nil /\ At(order, k - 1) = Nil
      BY <2>1, <3>1 DEF NextOf, PrevOf
    <3>3. k + 1 \notin 1..Len(order) /\ k - 1 \notin 1..Len(order)
      BY <3>2, <1>4 DEF At
    <3>4. Len(order) = 1
      BY <3>3, <1>4
    <3>5. RemoveAt(order, k) = <<>>
      <4>1. Len(RemoveAt(order, k)) = 0 /\ RemoveAt(order, k) \in Seq(Elem)
        BY <3>4, <1>6 DEF Distinct
      <4> HIDE DEF order
      <4> DEFINE r == RemoveAt(order, k)
      <4> HIDE DEF r
      <4>2. Len(r) = 0 /\ r \in Seq(Elem)
        BY <4>1 DEF r
      <4>3. r = <<>>
        BY <4>2, EmptySeq
      <4> QED BY <4>3 DEF r
    <3>6. table' = NoTable /\ since' = {}
      BY <2>1, <1>2, NoTableIs
    <3> QED BY <3>5, <3>6, NoTableSound
  <2>2. CASE ~(table.hh[e].prev = Nil /\ table.hh[e].next = Nil)
    <3>1. table' = Deleted(table, e)
      BY <2>2, <1>2
    <3>2. PICK new : Sound(Deleted(table, order[k]), RemoveAt(order, k), new, since \ {order[k]})
      BY <1>1, DeletedSound
    <3>3. Sound(table', RemoveAt(order, k), new, since \ {e})
      BY <3>1, <3>2, <1>5
    <3>4. Sound(table', RemoveAt(order, k), new, {})
      BY <3>3, Forgotten
    <3>5. since' = {} \/ since' = since \ {e}
      BY <1>2
    <3> QED BY <3>3, <3>4, <3>5
  <2> QED BY <2>1, <2>2
<1>8. PICK new : Sound(table', RemoveAt(order, k), new, since')
  BY <1>7
<1>9. AppOrder(table') = RemoveAt(order, k)
      /\ [c \in DOMAIN table'.bucket |-> Chain(table', c)] = new
  BY <1>8, SoundIs
<1>10. HInv'
  BY <1>8, <1>9 DEF HInv
<1>11. table'.num_items = table.num_items - 1
  <2>1. table'.num_items = Len(RemoveAt(order, k))
    BY <1>8 DEF Sound, ListIs
  <2> QED BY <2>1, <1>3, <1>6
<1> QED BY <1>4, <1>5, <1>9, <1>10, <1>11 DEF order

-----------------------------------------------------------------------------
(* The links of the table are sound always: at the start,                  *)
LEMMA InitSound == Init => HInv /\ AppOrder(table) = <<>> /\ table.num_items = 0
<1> SUFFICES ASSUME Init PROVE HInv /\ AppOrder(table) = <<>> /\ table.num_items = 0
  OBVIOUS
<1>1. table = NoTable /\ since = {}
  BY DEF Init
<1>2. PICK chain : Sound(table, <<>>, chain, since)
  BY <1>1, NoTableSound
<1>3. AppOrder(table) = <<>> /\ [b \in DOMAIN table.bucket |-> Chain(table, b)] = chain
  BY <1>2, SoundIs
<1>4. HInv
  BY <1>2, <1>3 DEF HInv
<1>5. table.num_items = 0
  BY <1>1, NoTableIs
<1> QED BY <1>3, <1>4, <1>5

(* and after every step.                                                   *)
LEMMA StepSound == HInv /\ [Next]_vars => HInv'
<1> SUFFICES ASSUME HInv, [Next]_vars PROVE HInv'
  OBVIOUS
<1>1. ASSUME NEW e \in Elem, Add(e) PROVE HInv'
  BY <1>1, AddKeeps
<1>2. ASSUME NEW e \in Elem, Delete(e) PROVE HInv'
  BY <1>2, DeleteKeeps
<1>3. CASE UNCHANGED vars
  BY <1>3 DEF vars, HInv
<1> QED BY <1>1, <1>2, <1>3 DEF Next

(* The handles and the buckets of uthash.h are one list of all elements    *)
(* and chains of them, through every addition, expansion and deletion.     *)
THEOREM LinkedSoundly == Spec => []HInv
<1>1. Init => HInv
  BY InitSound
<1> QED BY <1>1, StepSound, PTL DEF Spec

-----------------------------------------------------------------------------
(* The sum of the counts.  HASH_FSCK adds them in a loop, FoldFunction     *)
(* from the set of the buckets, each chosen in turn.                       *)
Summing(cnt, D, f) ==
  f = [s \in SUBSET D |-> IF s = {} THEN 0
                          ELSE cnt[CHOOSE x \in s : TRUE] + f[s \ {CHOOSE x \in s : TRUE}]]

(* That is what FoldFunction makes. *)
LEMMA FoldIs ==
  ASSUME NEW cnt
  PROVE  FoldFunction(+, 0, cnt) = (CHOOSE f : Summing(cnt, DOMAIN cnt, f))[DOMAIN cnt]
BY DEF FoldFunction, FoldFunctionOnSet, MapThenFoldSet, Summing

(* The elements of S in the buckets of s. *)
Within(S, m, s) == {e \in S : BktOf(e, m) \in s}

(* How many they are is a sum of counts, and the only one. *)
LEMMA CountsSum ==
  ASSUME NEW m \in Nat \ {0}, NEW S, IsFiniteSet(S), NEW cnt,
         \A b \in 0..(m - 1) : cnt[b] = Cardinality(Within(S, m, {b}))
  PROVE  /\ Summing(cnt, 0..(m - 1), [s \in SUBSET (0..(m - 1)) |-> Cardinality(Within(S, m, s))])
         /\ \A f : Summing(cnt, 0..(m - 1), f) =>
              f = [s \in SUBSET (0..(m - 1)) |-> Cardinality(Within(S, m, s))]
<1> DEFINE D == 0..(m - 1)
           size(s) == Cardinality(Within(S, m, s))
           one == [s \in SUBSET D |-> size(s)]
           pick(s) == CHOOSE x \in s : TRUE
<1>1. \A s : IsFiniteSet(Within(S, m, s)) /\ size(s) \in Nat
  <2>1. ASSUME NEW s PROVE IsFiniteSet(Within(S, m, s)) /\ size(s) \in Nat
    <3>1. Within(S, m, s) \subseteq S
      BY DEF Within
    <3>2. IsFiniteSet(Within(S, m, s))
      BY <3>1, FS_Subset
    <3> QED BY <3>2, FS_CardinalityType
  <2> QED BY <2>1
<1>2. ASSUME NEW s \in SUBSET D, NEW x \in s
      PROVE  size(s) = cnt[x] + size(s \ {x})
  <2> DEFINE A == Within(S, m, {x})
             B == Within(S, m, s \ {x})
  <2>1. Within(S, m, s) = A \cup B /\ A \cap B = {}
    BY DEF Within
  <2>2. IsFiniteSet(A) /\ IsFiniteSet(B) /\ Cardinality(A) \in Nat /\ Cardinality(B) \in Nat
    BY <1>1
  <2> HIDE DEF A, B
  <2>3. Cardinality(A \cup B) = Cardinality(A) + Cardinality(B) - Cardinality(A \cap B)
    BY <2>2, FS_Union
  <2>4. Cardinality(A \cap B) = 0
    BY <2>1, FS_EmptySet
  <2>5. cnt[x] = Cardinality(A)
    BY DEF A
  <2>6. size(s) = Cardinality(A) + Cardinality(B)
    BY <2>1, <2>2, <2>3, <2>4
  <2> QED BY <2>5, <2>6 DEF B
<1>3. size({}) = 0
  <2>1. Within(S, m, {}) = {}
    BY DEF Within
  <2> QED BY <2>1, FS_EmptySet
<1>4. \A s \in SUBSET D : s # {} => pick(s) \in s
  OBVIOUS
<1> HIDE DEF size, pick
<1>5. Summing(cnt, D, one)
  <2>1. ASSUME NEW s \in SUBSET D
        PROVE  size(s) = IF s = {} THEN 0 ELSE cnt[pick(s)] + one[s \ {pick(s)}]
    <3>1. CASE s = {}
      BY <3>1, <1>3
    <3>2. CASE s # {}
      <4>1. pick(s) \in s /\ s \ {pick(s)} \in SUBSET D
        BY <3>2, <1>4
      <4>2. one[s \ {pick(s)}] = size(s \ {pick(s)})
        BY <4>1
      <4>3. size(s) = cnt[pick(s)] + size(s \ {pick(s)})
        BY <4>1, <1>2
      <4> QED BY <3>2, <4>2, <4>3
    <3> QED BY <3>1, <3>2
  <2>2. one = [s \in SUBSET D |-> IF s = {} THEN 0 ELSE cnt[pick(s)] + one[s \ {pick(s)}]]
    BY <2>1
  <2> HIDE DEF one
  <2> QED BY <2>2 DEF Summing, pick
<1>6. ASSUME NEW f, Summing(cnt, D, f) PROVE f = one
  <2>1. f = [s \in SUBSET D |-> IF s = {} THEN 0 ELSE cnt[pick(s)] + f[s \ {pick(s)}]]
    BY <1>6 DEF Summing, pick
  <2>2. \A s \in SUBSET D : f[s] = IF s = {} THEN 0 ELSE cnt[pick(s)] + f[s \ {pick(s)}]
    BY <2>1
  <2>3. IsFiniteSet(D) /\ Cardinality(D) \in Nat
    <3>1. IsFiniteSet(D)
      BY FS_Interval
    <3> QED BY <3>1, FS_CardinalityType
  <2> DEFINE M == {n \in 0..Cardinality(D) : \A s \in SUBSET D : Cardinality(s) = n => f[s] = size(s)}
  <2>4. 0 \in M
    <3>1. ASSUME NEW s \in SUBSET D, Cardinality(s) = 0 PROVE f[s] = size(s)
      <4>1. IsFiniteSet(s)
        BY <2>3, FS_Subset
      <4>2. s = {}
        BY <4>1, <3>1, FS_EmptySet
      <4> QED BY <4>2, <2>2, <1>3
    <3> QED BY <3>1, <2>3
  <2>5. ASSUME NEW n \in 0..Cardinality(D), n > 0, n - 1 \in M PROVE n \in M
    <3>1. ASSUME NEW s \in SUBSET D, Cardinality(s) = n PROVE f[s] = size(s)
      <4>1. IsFiniteSet(s)
        BY <2>3, FS_Subset
      <4>2. s # {}
        <5>1. n # 0 /\ Cardinality({}) = 0
          BY <2>5, FS_EmptySet
        <5> QED BY <5>1, <3>1
      <4>3. pick(s) \in s /\ s \ {pick(s)} \in SUBSET D
        BY <4>2, <1>4
      <4>4. Cardinality(s \ {pick(s)}) = n - 1
        BY <4>1, <4>3, <3>1, FS_RemoveElement
      <4>5. f[s \ {pick(s)}] = size(s \ {pick(s)})
        BY <4>3, <4>4, <2>5
      <4>6. f[s] = cnt[pick(s)] + f[s \ {pick(s)}]
        BY <4>2, <2>2
      <4>7. size(s) = cnt[pick(s)] + size(s \ {pick(s)})
        BY <4>3, <1>2
      <4> QED BY <4>5, <4>6, <4>7
    <3> QED BY <3>1
  <2> HIDE DEF M, D
  <2>6. \A n \in 0..Cardinality(D) : n \in M
    BY <2>3, <2>4, <2>5, Upwards
  <2>7. ASSUME NEW s \in SUBSET D PROVE f[s] = size(s)
    <3>1. Cardinality(s) \in 0..Cardinality(D)
      <4>1. IsFiniteSet(s) /\ Cardinality(s) <= Cardinality(D)
        BY <2>3, FS_Subset
      <4>2. Cardinality(s) \in Nat
        BY <4>1, FS_CardinalityType
      <4> QED BY <4>1, <4>2, <2>3
    <3>2. Cardinality(s) \in M
      BY <3>1, <2>6
    <3> QED BY <3>2 DEF M
  <2>8. f = [s \in SUBSET D |-> f[s]]
    BY <2>1
  <2> QED BY <2>7, <2>8
<1> QED BY <1>5, <1>6 DEF one, size, D

(* The counts of all buckets are as many as there are elements. *)
LEMMA SumIs ==
  ASSUME NEW m \in Nat \ {0}, NEW t, NEW chain, NEW S, IsFiniteSet(S), ChainsAre(t, chain, m, S)
  PROVE  FoldFunction(+, 0, [b \in 0..(m - 1) |-> t.bucket[b].count]) = Cardinality(S)
<1> DEFINE D == 0..(m - 1)
           cnt == [b \in D |-> t.bucket[b].count]
           one == [s \in SUBSET D |-> Cardinality(Within(S, m, s))]
<1>1. DOMAIN cnt = D
  OBVIOUS
<1>2. \A b \in D : cnt[b] = Cardinality(Within(S, m, {b}))
  <2>1. ASSUME NEW b \in D PROVE cnt[b] = Cardinality(Within(S, m, {b}))
    <3>1. /\ Distinct(chain[b]) /\ Members(chain[b]) = {e \in S : BktOf(e, m) = b}
          /\ t.bucket[b].count = Len(chain[b])
      BY DEF ChainsAre, Chained
    <3>2. Within(S, m, {b}) = {e \in S : BktOf(e, m) = b}
      BY DEF Within
    <3>3. Cardinality(Members(chain[b])) = Len(chain[b])
      BY <3>1, HowMany
    <3>4. cnt[b] = t.bucket[b].count
      OBVIOUS
    <3> HIDE DEF cnt
    <3> QED BY <3>1, <3>2, <3>3, <3>4
  <2> QED BY <2>1
<1> HIDE DEF cnt
<1>3. /\ Summing(cnt, D, one)
      /\ \A f : Summing(cnt, D, f) => f = one
  BY <1>2, CountsSum
<1> HIDE DEF one
<1>4. (CHOOSE f : Summing(cnt, D, f)) = one
  BY <1>3
<1>5. FoldFunction(+, 0, cnt) = one[D]
  BY <1>1, <1>4, FoldIs
<1>6. one[D] = Cardinality(Within(S, m, D))
  BY DEF one
<1>7. Within(S, m, D) = S
  BY BktOfIs DEF Within, ChainsAre
<1> QED BY <1>5, <1>6, <1>7 DEF cnt

-----------------------------------------------------------------------------
(* What the invariant says of the table's list and chains.                 *)
LEMMA HInvIs ==
  ASSUME HInv, NEW order, order = AppOrder(table)
  PROVE  /\ Distinct(order) /\ ListIs(table, order) /\ Present = Members(order)
         /\ Table(table, table.num_buckets) /\ table.num_buckets \in Nat \ {0}
         /\ table.ineff \in 0..2
         /\ \E chain : /\ ChainsAre(table, chain, table.num_buckets, Members(order))
                       /\ SinceIs(order, chain, table.num_buckets, since)
<1>1. \E chain : Sound(table, order, chain, since)
  BY DEF HInv
<1>2. PICK chain : Sound(table, order, chain, since)
  BY <1>1
<1>3. Distinct(order)
  BY <1>2 DEF Sound, ListIs, Chained
<1>4. Present = Members(order)
  <2>1. DOMAIN order = 1..Len(order)
    BY <1>3, DistinctIs
  <2> QED BY <2>1 DEF Present, ToSet, Members
<1>5. table.num_buckets \in Nat \ {0}
  BY <1>2 DEF Sound, Table
<1> QED BY <1>2, <1>3, <1>4, <1>5 DEF Sound

(* The type invariant from it. *)
LEMMA SoundType == HInv => TypeOK
<1> SUFFICES ASSUME HInv PROVE TypeOK
  OBVIOUS
<1> DEFINE order == AppOrder(table)
           m == table.num_buckets
<1>1. order = AppOrder(table)
  OBVIOUS
<1> HIDE DEF order
<1>2. /\ Distinct(order) /\ ListIs(table, order) /\ Table(table, m) /\ m \in Nat \ {0}
      /\ table.ineff \in 0..2
      /\ \E chain : SinceIs(order, chain, m, since)
  BY <1>1, HInvIs
<1>3. {table.head, table.tail} \subseteq Ptr
  BY <1>2 DEF Table
<1>4. table.num_items \in 0..Cardinality(Elem)
  <2>1. table.num_items = Len(order) /\ Len(order) \in Nat
    BY <1>2, DistinctIs DEF ListIs
  <2> QED BY <2>1, <1>2, HowMany
<1>5. table.noexpand \in BOOLEAN
  BY <1>2 DEF Table
<1>6. table.bucket \in [0..(m - 1) -> [first : Ptr, count : Nat, mult : Nat]]
  BY <1>2 DEF Table, Bucket
<1>7. table.hh \in [Elem -> [prev : Ptr, next : Ptr, hh_prev : Ptr, hh_next : Ptr]]
  BY <1>2 DEF Table, Handle
<1>8. since \subseteq Elem
  BY <1>2, DistinctIs DEF SinceIs
<1> QED BY <1>2, <1>3, <1>4, <1>5, <1>6, <1>7, <1>8 DEF TypeOK

(* The links backward mirror those forward. *)
LEMMA MirroredIs ==
  ASSUME NEW s, NEW first, NEW nxt, NEW prv, Chained(s, first, nxt, prv)
  PROVE  \A n \in DOMAIN s : prv[s[n]] = IF n = 1 THEN Nil ELSE s[n - 1]
<1>1. Len(s) \in Nat /\ DOMAIN s = 1..Len(s)
  BY DistinctIs DEF Chained
<1>2. ASSUME NEW n \in 1..Len(s) PROVE prv[s[n]] = IF n = 1 THEN Nil ELSE s[n - 1]
  <2>1. prv[s[n]] = At(s, n - 1)
    BY DEF Chained
  <2>2. CASE n = 1
    <3>1. n - 1 \notin 1..Len(s)
      BY <2>2
    <3> QED BY <2>1, <2>2, <3>1 DEF At
  <2>3. CASE n # 1
    <3>1. n - 1 \in 1..Len(s)
      BY <2>3, <1>1
    <3> QED BY <2>1, <2>3, <3>1 DEF At
  <2> QED BY <2>2, <2>3
<1> QED BY <1>1, <1>2

(* The assertions of HASH_FSCK from it. *)
LEMMA SoundFsck == HInv => Fsck
<1> SUFFICES ASSUME HInv PROVE Fsck
  OBVIOUS
<1> DEFINE order == AppOrder(table)
           m == table.num_buckets
<1>1. order = AppOrder(table)
  OBVIOUS
<1> HIDE DEF order
<1>2. /\ Distinct(order) /\ ListIs(table, order) /\ Table(table, m) /\ m \in Nat \ {0}
      /\ \E chain : ChainsAre(table, chain, m, Members(order))
  BY <1>1, HInvIs
<1>3. PICK chain : ChainsAre(table, chain, m, Members(order))
  BY <1>2
<1>4. Mirrored(AppOrder(table), LAMBDA e : table.hh[e].prev)
  <2>1. \A n \in DOMAIN order : PrevOf(table)[order[n]] = IF n = 1 THEN Nil ELSE order[n - 1]
    BY <1>2, MirroredIs DEF ListIs
  <2>2. \A n \in DOMAIN order : order[n] \in Elem
    BY <1>2, DistinctIs
  <2>3. \A n \in DOMAIN order : table.hh[order[n]].prev = IF n = 1 THEN Nil ELSE order[n - 1]
    BY <2>1, <2>2 DEF PrevOf
  <2> QED BY <2>3, <1>1 DEF Mirrored
<1>5. Len(AppOrder(table)) = table.num_items
  BY <1>1, <1>2 DEF ListIs
<1>6. DOMAIN table.bucket = 0..(m - 1)
  BY <1>2 DEF Table
<1>7. ASSUME NEW b \in DOMAIN table.bucket
      PROVE  /\ Mirrored(Chain(table, b), LAMBDA e : table.hh[e].hh_prev)
             /\ Len(Chain(table, b)) = table.bucket[b].count
  <2> DEFINE c == Chain(table, b)
  <2>1. /\ Chained(chain[b], table.bucket[b].first, HhNextOf(table), HhPrevOf(table))
        /\ table.bucket[b].count = Len(chain[b]) /\ Distinct(chain[b])
    BY <1>3, <1>6 DEF ChainsAre, Chained
  <2>2. Chain(table, b) = chain[b]
    BY <1>3, <1>6, <1>7, ChainIs
  <2>3. \A n \in DOMAIN chain[b] : HhPrevOf(table)[chain[b][n]] = IF n = 1 THEN Nil ELSE chain[b][n - 1]
    BY <2>1, MirroredIs
  <2>4. \A n \in DOMAIN chain[b] : chain[b][n] \in Elem
    BY <2>1, DistinctIs
  <2>5. \A n \in DOMAIN chain[b] : table.hh[chain[b][n]].hh_prev = IF n = 1 THEN Nil ELSE chain[b][n - 1]
    BY <2>3, <2>4 DEF HhPrevOf
  <2> QED BY <2>1, <2>2, <2>5 DEF Mirrored
<1>8. FoldFunction(+, 0, [b \in DOMAIN table.bucket |-> table.bucket[b].count]) = table.num_items
  <2>1. IsFiniteSet(Members(order)) /\ Cardinality(Members(order)) = Len(order)
    BY <1>2, HowMany
  <2>2. FoldFunction(+, 0, [b \in 0..(m - 1) |-> table.bucket[b].count]) = Cardinality(Members(order))
    BY <1>2, <1>3, <2>1, SumIs
  <2> QED BY <1>1, <1>5, <1>6, <2>1, <2>2
<1> QED BY <1>4, <1>5, <1>7, <1>8, SoundType DEF Fsck

(* What HASH_FIND finds: the first with the key in the chain of the key,   *)
(* and none only if there is none with the key.                            *)
LEMMA FindIs ==
  ASSUME HInv, NEW k \in Key, NEW chain,
         ChainsAre(table, chain, table.num_buckets, Members(AppOrder(table))),
         NEW b, b = ToBkt(Hash[k], table.num_buckets)
  PROVE  /\ b \in 0..(table.num_buckets - 1)
         /\ \/ /\ Find(k) = Nil
               /\ \A e \in Members(AppOrder(table)) : KeyOf[e] # k
            \/ \E i \in 1..Len(chain[b]) :
                 /\ Find(k) = chain[b][i] /\ KeyOf[chain[b][i]] = k
                 /\ \A j \in 1..Len(chain[b]) : KeyOf[chain[b][j]] = k => i <= j
<1> DEFINE order == AppOrder(table)
           m == table.num_buckets
           c == chain[b]
           hits == {n \in DOMAIN c : KeyOf[c[n]] = k}
<1>0. order = AppOrder(table)
  OBVIOUS
<1> HIDE DEF order
<1>1. Distinct(order) /\ ListIs(table, order) /\ m \in Nat \ {0}
  BY <1>0, HInvIs
<1>2. \A e \in Elem : KeyOf[e] = k => BktOf(e, m) = b
  BY DEF BktOf
<1>3. b \in 0..(m - 1)
  <2>1. PICK e \in Elem : KeyOf[e] = k
    BY DEF Key
  <2> QED BY <2>1, <1>1, <1>2, BktOfIs
<1>4. /\ Chain(table, b) = c /\ Distinct(c)
      /\ Members(c) = {e \in Members(order) : BktOf(e, m) = b}
  BY <1>0, <1>3, ChainIs
<1>5. DOMAIN c = 1..Len(c) /\ Len(c) \in Nat /\ Members(order) \subseteq Elem
  BY <1>1, <1>4, DistinctIs
<1>6. Find(k) = IF table.head = Nil THEN Nil ELSE IF hits = {} THEN Nil ELSE c[Min(hits)]
  BY <1>4 DEF Find
<1> HIDE DEF c
<1>7. CASE hits # {}
  <2>1. hits \subseteq Nat
    BY <1>5
  <2>2. \E n \in hits : \A y \in hits : n <= y
    <3> HIDE DEF hits
    <3> QED BY <2>1, <1>7, LeastNumber
  <2>3. Min(hits) \in hits /\ \A y \in hits : Min(hits) <= y
    <3> HIDE DEF hits
    <3> QED BY <2>2 DEF Min
  <2> DEFINE i == Min(hits)
  <2> HIDE DEF i
  <2>4. i \in 1..Len(c) /\ KeyOf[c[i]] = k /\ \A j \in 1..Len(c) : KeyOf[c[j]] = k => i <= j
    BY <2>3, <1>5 DEF i
  <2>5. table.head # Nil
    <3>1. c[i] \in Members(order)
      BY <2>4, <1>4 DEF Members
    <3>2. 1 \in 1..Len(order)
      BY <3>1, <1>1, DistinctIs DEF Members
    <3>3. table.head = order[1] /\ order[1] # Nil
      BY <3>2, <1>1, DistinctIs DEF ListIs, Chained, At
    <3> QED BY <3>3
  <2>6. Find(k) = c[i]
    BY <1>6, <1>7, <2>5 DEF i
  <2> QED BY <1>3, <2>4, <2>6 DEF c
<1>8. CASE hits = {}
  <2>1. Find(k) = Nil
    BY <1>6, <1>8
  <2>2. ASSUME NEW e \in Members(order), KeyOf[e] = k PROVE FALSE
    <3>1. e \in Members(c)
      BY <1>2, <1>4, <1>5, <2>2
    <3>2. PICK n \in 1..Len(c) : c[n] = e
      BY <3>1 DEF Members
    <3> QED BY <3>2, <2>2, <1>5, <1>8
  <2> QED BY <1>0, <1>3, <2>1, <2>2
<1> QED BY <1>7, <1>8

(* That HASH_FIND finds from the invariant. *)
LEMMA SoundFinds == HInv => FindsWhatIsThere
<1> SUFFICES ASSUME HInv, NEW k \in Key
             PROVE  IF \E e \in Present : KeyOf[e] = k
                    THEN Find(k) \in Present /\ KeyOf[Find(k)] = k
                    ELSE Find(k) = Nil
  BY DEF FindsWhatIsThere
<1> DEFINE order == AppOrder(table)
           m == table.num_buckets
           b == ToBkt(Hash[k], m)
<1>1. /\ Present = Members(order)
      /\ \E chain : ChainsAre(table, chain, m, Members(order))
  BY HInvIs
<1>2. PICK chain : ChainsAre(table, chain, m, Members(order))
  BY <1>1
<1>3. /\ b \in 0..(m - 1)
      /\ \/ /\ Find(k) = Nil
            /\ \A e \in Members(order) : KeyOf[e] # k
         \/ \E i \in 1..Len(chain[b]) :
              /\ Find(k) = chain[b][i] /\ KeyOf[chain[b][i]] = k
              /\ \A j \in 1..Len(chain[b]) : KeyOf[chain[b][j]] = k => i <= j
  BY <1>2, FindIs
<1>4. Members(chain[b]) \subseteq Members(order)
  BY <1>2, <1>3 DEF ChainsAre
<1> HIDE DEF b, order
<1>5. CASE Find(k) = Nil /\ \A e \in Members(order) : KeyOf[e] # k
  BY <1>1, <1>5
<1>6. CASE \E i \in 1..Len(chain[b]) : Find(k) = chain[b][i] /\ KeyOf[chain[b][i]] = k
  <2>1. PICK i \in 1..Len(chain[b]) : Find(k) = chain[b][i] /\ KeyOf[chain[b][i]] = k
    BY <1>6
  <2>2. Find(k) \in Members(order)
    BY <2>1, <1>4 DEF Members
  <2> QED BY <1>1, <2>1, <2>2
<1> QED BY <1>3, <1>5, <1>6

(* That it finds the newest since the last rearrangement from the          *)
(* invariant: were another before it in the chain, it would be newer.      *)
LEMMA SoundNewest == HInv => NewestSince
<1> DEFINE order == AppOrder(table)
           m == table.num_buckets
<1> SUFFICES ASSUME HInv, NEW k \in Key, NEW e \in since, KeyOf[e] = k
             PROVE  Find(k) = order[SelectLastInSeq(order, LAMBDA x : KeyOf[x] = k)]
  BY DEF NewestSince
<1> DEFINE b == ToBkt(Hash[k], m)
           I == {i \in 1..Len(order) : KeyOf[order[i]] = k}
           q == Max(I)
<1>1. /\ Distinct(order) /\ m \in Nat \ {0}
      /\ \E chain : ChainsAre(table, chain, m, Members(order)) /\ SinceIs(order, chain, m, since)
  BY HInvIs
<1>2. PICK chain : ChainsAre(table, chain, m, Members(order)) /\ SinceIs(order, chain, m, since)
  BY <1>1
<1>3. /\ b \in 0..(m - 1)
      /\ \/ /\ Find(k) = Nil
            /\ \A x \in Members(order) : KeyOf[x] # k
         \/ \E i \in 1..Len(chain[b]) :
              /\ Find(k) = chain[b][i] /\ KeyOf[chain[b][i]] = k
              /\ \A j \in 1..Len(chain[b]) : KeyOf[chain[b][j]] = k => i <= j
  BY <1>2, FindIs
<1>4. SelectLastInSeq(order, LAMBDA x : KeyOf[x] = k) = IF I # {} THEN q ELSE 0
  BY DEF SelectLastInSeq
<1> HIDE DEF order, b
<1>5. Len(order) \in Nat /\ Members(order) \subseteq Elem
  BY <1>1, DistinctIs
<1>6. PICK r \in 1..Len(order) : order[r] = e
  BY <1>2 DEF SinceIs, Members
<1>7. r \in I /\ I \subseteq 0..Len(order)
  BY <1>5, <1>6
<1>8. q \in I /\ \A n \in I : q >= n
  <2>1. \E n \in I : \A y \in I : y <= n
    <3> HIDE DEF I
    <3> QED BY <1>5, <1>7, GreatestNumber
  <2>2. \E n \in I : \A y \in I : n >= y
    BY <2>1, <1>5
  <2> HIDE DEF I
  <2> QED BY <2>2 DEF Max
<1> DEFINE x == order[q]
<1>9. q \in 1..Len(order) /\ KeyOf[x] = k
  BY <1>8
<1>10. q >= r
  BY <1>7, <1>8
<1> HIDE DEF q
<1>11. x \in Members(order) /\ e \in Members(order) /\ e \in Elem /\ x \in Elem
  BY <1>5, <1>6, <1>9 DEF Members
<1>12. x \in since
  <2>1. CASE q = r
    BY <2>1, <1>6
  <2>2. CASE q # r
    <3>1. r < q
      BY <2>2, <1>5, <1>9, <1>10
    <3>2. Before(order, e, x)
      BY <3>1, <1>6, <1>9 DEF Before
    <3> QED BY <3>2, <1>2, <1>11 DEF SinceIs
  <2> QED BY <2>1, <2>2
<1>13. x \in Members(chain[b])
  <2>1. BktOf(x, m) = b
    BY <1>9 DEF BktOf, b
  <2> QED BY <2>1, <1>2, <1>3, <1>11 DEF ChainsAre
<1>14. PICK j \in 1..Len(chain[b]) : chain[b][j] = x
  BY <1>13 DEF Members
<1>15. PICK i \in 1..Len(chain[b]) :
         /\ Find(k) = chain[b][i] /\ KeyOf[chain[b][i]] = k
         /\ \A n \in 1..Len(chain[b]) : KeyOf[chain[b][n]] = k => i <= n
  BY <1>3, <1>9, <1>11
<1>16. i = j
  <2>1. SUFFICES ASSUME i # j PROVE FALSE
    OBVIOUS
  <2> DEFINE y == chain[b][i]
  <2>2. i < j
    <3>1. i <= j
      BY <1>9, <1>14, <1>15
    <3>2. Len(chain[b]) \in Nat
      BY <1>2, <1>3, DistinctIs DEF ChainsAre, Chained
    <3> QED BY <3>1, <3>2, <2>1
  <2>3. Before(chain[b], y, x)
    BY <2>2, <1>14 DEF Before
  <2>4. y \in Members(order) /\ y \in Elem
    <3>1. y \in Members(chain[b])
      BY DEF Members
    <3> QED BY <3>1, <1>2, <1>3, <1>5 DEF ChainsAre
  <2>5. Before(order, x, y)
    BY <2>3, <2>4, <1>2, <1>3, <1>11, <1>12 DEF SinceIs
  <2>6. PICK p1 \in 1..Len(order), p2 \in 1..Len(order) : p1 < p2 /\ order[p1] = x /\ order[p2] = y
    BY <2>5 DEF Before
  <2>7. p1 = q
    BY <2>6, <1>1, <1>9 DEF Distinct
  <2>8. p2 \in I
    BY <2>6, <1>15
  <2>9. q >= p2
    BY <2>8, <1>8
  <2> QED BY <2>6, <2>7, <2>9, <1>5
<1>17. Find(k) = x
  BY <1>14, <1>15, <1>16
<1> HIDE DEF I
<1>18. SelectLastInSeq(order, LAMBDA z : KeyOf[z] = k) = q
  BY <1>4, <1>7
<1> QED BY <1>17, <1>18

-----------------------------------------------------------------------------
(* What HASH_FSCK asserts of a table holds after every sequence of         *)
(* HASH_ADD and HASH_DELETE: no expansion loses a link or a count.         *)
THEOREM FsckPasses == Spec => []Fsck
BY LinkedSoundly, SoundFsck, PTL

(* HASH_FIND finds an element with the key exactly when one is in the      *)
(* table, whatever was added, expanded and deleted before.                 *)
THEOREM FindFinds == Spec => []FindsWhatIsThere
BY LinkedSoundly, SoundFinds, PTL

(* Of several elements with one key HASH_FIND finds the newest, if one of  *)
(* them was added since the last expansion.                                *)
THEOREM FindsTheNewest == Spec => []NewestSince
BY LinkedSoundly, SoundNewest, PTL

(* What HASH_ITER visits and HASH_COUNT says is a list that elements are   *)
(* appended to and taken out of: a step of the hash table, with or without *)
(* an expansion, is the step of OrderedTable of the same name.             *)
LEMMA StepIsAbstract ==
  HInv /\ [Next]_vars => [Abstract!Next]_<<AppOrder(table), table.num_items>>
<1> SUFFICES ASSUME HInv, [Next]_vars
             PROVE  [Abstract!Next]_<<AppOrder(table), table.num_items>>
  OBVIOUS
<1>0. AppOrder(table)' = AppOrder(table')
  BY DEF AppOrder
<1>1. ASSUME NEW e \in Elem, Add(e) PROVE Abstract!Next
  <2>1. /\ e \notin ToSet(AppOrder(table))
        /\ AppOrder(table)' = Append(AppOrder(table), e)
        /\ table.num_items' = table.num_items + 1
    BY <1>0, <1>1, AddKeeps
  <2>2. Abstract!Add(e)
    BY <2>1 DEF Abstract!Add, Abstract!ToSet, ToSet
  <2> QED BY <2>2 DEF Abstract!Next
<1>2. ASSUME NEW e \in Elem, Delete(e) PROVE Abstract!Next
  <2>1. /\ \E k \in DOMAIN AppOrder(table) :
             AppOrder(table)[k] = e /\ AppOrder(table)' = RemoveAt(AppOrder(table), k)
        /\ table.num_items' = table.num_items - 1
    BY <1>0, <1>2, DeleteKeeps
  <2>2. Abstract!Delete(e)
    BY <2>1 DEF Abstract!Delete, Abstract!RemoveAt, RemoveAt
  <2> QED BY <2>2 DEF Abstract!Next
<1>3. CASE UNCHANGED vars
  <2>1. table' = table
    BY <1>3 DEF vars
  <2>2. AppOrder(table') = AppOrder(table) /\ table'.num_items = table.num_items
    BY <2>1
  <2> QED BY <2>2
<1> QED BY <1>1, <1>2, <1>3 DEF Next

(* The hash table implements OrderedTable. *)
THEOREM IsAnOrderedTable == Spec => Implements
<1>1. Init => HInv /\ Abstract!Init
  BY InitSound DEF Abstract!Init
<1> QED BY <1>1, StepSound, StepIsAbstract, PTL DEF Spec, Implements, Abstract!Spec
=============================================================================

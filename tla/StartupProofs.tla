---------------------------- MODULE StartupProofs ----------------------------
(***************************************************************************)
(* Proofs about module Startup and the modules below it, for every set of  *)
(* configuration files: the dictionary is a function from keys to values,  *)
(* reading a file line by line gives the function its last assignments     *)
(* mean, and a server that serves is configured with it.                   *)
(***************************************************************************)
EXTENDS Startup, SequenceTheorems, FiniteSetTheorems, WellFoundedInduction, TLAPS

-----------------------------------------------------------------------------
(* Least and greatest numbers, and induction up to a bound.                *)
LEMMA LeastNumber ==
  ASSUME NEW S, S \subseteq Nat, S # {}
  PROVE  \E n \in S : \A m \in S : n <= m
<1> DEFINE R == OpToRel(<, Nat)
<1>1. PICK n \in S : \A m \in S : <<m, n>> \notin R
  <2>1. IsWellFoundedOn(R, Nat)
    BY NatLessThanWellFounded
  <2> QED BY <2>1, WFMin
<1>2. \A m \in S : ~(m < n)
  BY <1>1 DEF OpToRel
<1> HIDE DEF R
<1> QED BY <1>2

(* What holds of 0 and is handed on from each number to the next holds of  *)
(* every number up to a bound.                                             *)
LEMMA Upwards ==
  ASSUME NEW b \in Nat, NEW S, 0 \in S,
         \A n \in 0..b : n > 0 /\ n - 1 \in S => n \in S
  PROVE  \A n \in 0..b : n \in S
<1> DEFINE Out == {n \in 0..b : n \notin S}
<1>1. SUFFICES ASSUME Out # {} PROVE FALSE
  OBVIOUS
<1>2. PICK n \in Out : \A m \in Out : n <= m
  <2>1. Out \subseteq Nat
    OBVIOUS
  <2> HIDE DEF Out
  <2> QED BY <1>1, <2>1, LeastNumber
<1>3. n \in 0..b /\ n > 0 /\ n - 1 \notin Out
  BY <1>2
<1>4. n - 1 \in S
  BY <1>3
<1> QED BY <1>2, <1>3, <1>4

(* A non-empty set of numbers up to a bound has a greatest.                *)
LEMMA GreatestNumber ==
  ASSUME NEW b \in Nat, NEW S, S \subseteq 0..b, S # {}
  PROVE  \E n \in S : \A m \in S : m <= n
<1> DEFINE Over == {n \in Nat : \A m \in S : m <= n}
<1>1. b \in Over
  OBVIOUS
<1>2. PICK n \in Over : \A m \in Over : n <= m
  <2>1. Over \subseteq Nat /\ Over # {}
    BY <1>1
  <2> HIDE DEF Over
  <2> QED BY <2>1, LeastNumber
<1>3. n \in S
  <2>1. SUFFICES ASSUME n \notin S PROVE FALSE
    OBVIOUS
  <2>2. \A m \in S : m <= n - 1 /\ m \in Nat
    BY <1>2, <2>1
  <2>3. n - 1 \in Nat
    <3>1. PICK m \in S : TRUE
      OBVIOUS
    <3>2. m <= n - 1 /\ m \in Nat /\ n \in Nat
      BY <2>2, <1>2
    <3> QED BY <3>2
  <2>4. n - 1 \in Over
    BY <2>2, <2>3
  <2> QED BY <1>2, <2>4
<1> QED BY <1>2, <1>3

-----------------------------------------------------------------------------
(* The dictionary is a function m from keys to values: every cell in use   *)
(* holds a key with its value, every key is in one cell.                   *)
Cell(m) == {<<k, m[k]>> : k \in DOMAIN m}
InUse(d) == {i \in 1..Len(d.slot) : d.slot[i] # Free}

Represents(d, m) ==
  /\ d = [n |-> d.n, slot |-> d.slot]
  /\ d.slot \in Seq({Free} \cup Cell(m)) /\ d.slot # <<>>
  /\ IsFiniteSet(DOMAIN m) /\ d.n = Cardinality(DOMAIN m)
  /\ d.n = Cardinality(InUse(d))
  /\ \A k \in DOMAIN m : \E i \in 1..Len(d.slot) : d.slot[i] = <<k, m[k]>>
  /\ \A i, j \in InUse(d) : d.slot[i][1] = d.slot[j][1] => i = j

(* m with one value more, or another. *)
With(m, key, val) == [x \in DOMAIN m \cup {key} |-> IF x = key THEN val ELSE m[x]]

(* A cell in use is none that is free. *)
LEMMA CellIs ==
  ASSUME NEW m, NEW c \in Cell(m)
  PROVE  c # Free /\ c[1] \in DOMAIN m /\ c = <<c[1], m[c[1]]>> /\ c[2] = m[c[1]]
<1>1. PICK k \in DOMAIN m : c = <<k, m[k]>>
  BY DEF Cell
<1>2. Len(c) = 2 /\ Len(<<>>) = 0
  BY <1>1
<1>3. c # <<>>
  BY <1>2
<1>4. c # Free
  BY <1>3 DEF Free
<1> QED BY <1>1, <1>4

(* Where the keys are. *)
LEMMA HoldingIs ==
  ASSUME NEW d, NEW m, Represents(d, m), NEW key
  PROVE  /\ DOMAIN d.slot = 1..Len(d.slot) /\ Len(d.slot) \in Nat \ {0}
         /\ Holding(d, key) # {} <=> key \in DOMAIN m
         /\ Holding(d, key) # {} =>
              LET i == FirstHolding(d, key)
              IN i \in InUse(d) /\ Holding(d, key) = {i} /\ d.slot[i] = <<key, m[key]>>
<1>1. d.slot \in Seq({Free} \cup Cell(m)) /\ d.slot # <<>>
  BY DEF Represents
<1>2. DOMAIN d.slot = 1..Len(d.slot) /\ Len(d.slot) \in Nat \ {0}
  BY <1>1, EmptySeq, LenProperties
<1>3. \A i \in 1..Len(d.slot) : d.slot[i] # Free => d.slot[i] \in Cell(m)
  BY <1>1
<1>4. ASSUME NEW i \in Holding(d, key)
      PROVE  i \in InUse(d) /\ key \in DOMAIN m /\ d.slot[i] = <<key, m[key]>>
  <2>1. i \in 1..Len(d.slot) /\ d.slot[i] # Free /\ d.slot[i][1] = key
    BY <1>2 DEF Holding
  <2>2. d.slot[i] \in Cell(m)
    BY <2>1, <1>3
  <2>3. d.slot[i][1] \in DOMAIN m /\ d.slot[i] = <<d.slot[i][1], m[d.slot[i][1]]>>
    BY <2>2, CellIs
  <2> QED BY <2>1, <2>3 DEF InUse
<1>5. ASSUME key \in DOMAIN m PROVE Holding(d, key) # {}
  <2>1. PICK i \in 1..Len(d.slot) : d.slot[i] = <<key, m[key]>>
    BY <1>5 DEF Represents
  <2>2. <<key, m[key]>> \in Cell(m)
    BY <1>5 DEF Cell
  <2>3. d.slot[i] # Free /\ d.slot[i][1] = key
    BY <2>1, <2>2, CellIs
  <2> QED BY <2>3, <1>2 DEF Holding
<1>6. ASSUME NEW i \in Holding(d, key) PROVE Holding(d, key) = {i} /\ FirstHolding(d, key) = i
  <2>1. \A j \in Holding(d, key) : j = i
    <3>1. \A j \in Holding(d, key) : j \in InUse(d) /\ d.slot[j][1] = key
      BY <1>4 DEF Holding
    <3> QED BY <3>1 DEF Represents
  <2>2. i \in Nat
    BY <1>2 DEF Holding
  <2>3. Holding(d, key) = {i}
    BY <2>1
  <2>4. \A j \in Holding(d, key) : i <= j
    BY <2>1, <2>2
  <2> DEFINE first == FirstHolding(d, key)
  <2>5. first \in Holding(d, key)
    BY <2>4 DEF FirstHolding
  <2> QED BY <2>1, <2>3, <2>5
<1> QED BY <1>2, <1>4, <1>5, <1>6

(* dictionary_get. *)
LEMMA GetIs ==
  ASSUME NEW d, NEW m, Represents(d, m), NEW key, NEW def
  PROVE  DictionaryGet(d, key, def) = IF key \in DOMAIN m THEN m[key] ELSE def
<1>1. CASE key \in DOMAIN m
  <2>1. Holding(d, key) # {} /\ d.slot[FirstHolding(d, key)] = <<key, m[key]>>
    BY <1>1, HoldingIs
  <2>2. d.slot[FirstHolding(d, key)][2] = m[key]
    BY <2>1
  <2> QED BY <2>1, <2>2, <1>1 DEF DictionaryGet
<1>2. CASE key \notin DOMAIN m
  BY <1>2, HoldingIs DEF DictionaryGet
<1> QED BY <1>1, <1>2
(* With is a function, with the value at the key. *)
LEMMA WithIs ==
  ASSUME NEW m, NEW key, NEW val
  PROVE  /\ DOMAIN With(m, key, val) = DOMAIN m \cup {key}
         /\ With(m, key, val)[key] = val
         /\ \A x \in DOMAIN m : x # key => With(m, key, val)[x] = m[x]
BY DEF With

(* A new dictionary holds nothing. *)
LEMMA NewIs ==
  ASSUME NEW m, DOMAIN m = {}
  PROVE  Represents(DictionaryNew, m)
<1> DEFINE d == DictionaryNew
<1>1. MinSize \in Nat \ {0}
  BY MinSizeAssumption
<1>2. d.slot = [i \in 1..MinSize |-> Free] /\ d.n = 0
  BY DEF DictionaryNew
<1>3. d.slot \in Seq({Free} \cup Cell(m)) /\ Len(d.slot) = MinSize
  BY <1>1, <1>2
<1>4. d.slot # <<>>
  BY <1>1, <1>3, EmptySeq
<1>5. InUse(d) = {}
  BY <1>1, <1>2, <1>3 DEF InUse
<1>6. d = [n |-> d.n, slot |-> d.slot]
  BY DEF DictionaryNew
<1> HIDE DEF d
<1>7. Cardinality({}) = 0 /\ IsFiniteSet({})
  BY FS_EmptySet
<1>8. IsFiniteSet(DOMAIN m) /\ d.n = Cardinality(DOMAIN m) /\ d.n = Cardinality(InUse(d))
  BY <1>2, <1>5, <1>7
<1>9. /\ \A k \in DOMAIN m : \E i \in 1..Len(d.slot) : d.slot[i] = <<k, m[k]>>
      /\ \A i, j \in InUse(d) : d.slot[i][1] = d.slot[j][1] => i = j
  BY <1>5
<1>10. Represents(d, m)
  BY <1>3, <1>4, <1>6, <1>8, <1>9 DEF Represents
<1> QED BY <1>10 DEF d

(* Growing it leaves it the same function, with a free cell. *)
LEMMA GrowIs ==
  ASSUME NEW d, NEW m, Represents(d, m)
  PROVE  /\ Represents(DictionaryGrow(d), m)
         /\ FreeSlots(DictionaryGrow(d)) # {}
<1> DEFINE s == d.slot
           f == [i \in DOMAIN s |-> Free]
           g == DictionaryGrow(d)
           C == {Free} \cup Cell(m)
           L == Len(s)
<1>1. s \in Seq(C) /\ s # <<>> /\ L \in Nat \ {0} /\ DOMAIN s = 1..L
  BY HoldingIs DEF Represents
<1>2. f \in Seq(C) /\ Len(f) = L /\ \A i \in 1..L : f[i] = Free
  <2>1. f = [i \in 1..L |-> Free]
    BY <1>1
  <2>2. [i \in 1..L |-> Free] \in Seq(C) /\ Len([i \in 1..L |-> Free]) = L
    BY <1>1
  <2> QED BY <2>1, <2>2
<1>3. g = [n |-> d.n, slot |-> s \o f]
  <2>1. d = [n |-> d.n, slot |-> s]
    BY DEF Represents
  <2>2. g = [d EXCEPT !.slot = s \o f]
    BY DEF DictionaryGrow
  <2> HIDE DEF s, f, g
  <2>3. \A x : [d EXCEPT !.slot = x] = [n |-> d.n, slot |-> x]
    BY <2>1
  <2> QED BY <2>2, <2>3
<1> HIDE DEF s, f, g, L
<1>4. /\ s \o f \in Seq(C) /\ Len(s \o f) = L + L
      /\ \A i \in 1..(L + L) : (s \o f)[i] = IF i <= L THEN s[i] ELSE f[i - L]
  <2> HIDE DEF C
  <2>1. s \in Seq(C) /\ f \in Seq(C)
    BY <1>1, <1>2
  <2>2. /\ s \o f \in Seq(C) /\ Len(s \o f) = Len(s) + Len(f)
        /\ \A i \in 1..(Len(s) + Len(f)) : (s \o f)[i] = IF i <= Len(s) THEN s[i] ELSE f[i - Len(s)]
    BY <2>1, ConcatProperties
  <2>3. Len(s) = L /\ Len(f) = L
    BY <1>2 DEF L
  <2> QED BY <2>2, <2>3
<1>5. g.slot = s \o f /\ g.n = d.n /\ g = [n |-> g.n, slot |-> g.slot]
  BY <1>3
<1> HIDE DEF C
<1>6. \A i \in 1..L : i \in 1..(L + L) /\ g.slot[i] = s[i]
  BY <1>1, <1>4, <1>5
<1>7. \A i \in 1..(L + L) : ~(i <= L) => g.slot[i] = Free
  <2> TAKE i \in 1..(L + L)
  <2>1. ~(i <= L) => i - L \in 1..L
    BY <1>1
  <2> QED BY <2>1, <1>2, <1>4, <1>5
<1>8. InUse(g) = InUse(d)
  <2>1. InUse(g) = {i \in 1..(L + L) : g.slot[i] # Free}
    BY <1>4, <1>5 DEF InUse
  <2>2. InUse(d) = {i \in 1..L : s[i] # Free}
    BY DEF InUse, s, L
  <2>3. \A i \in 1..(L + L) : g.slot[i] # Free => i \in 1..L
    BY <1>1, <1>7
  <2> QED BY <2>1, <2>2, <2>3, <1>6
<1>9. \A i \in InUse(g) : i \in InUse(d) /\ g.slot[i] = d.slot[i]
  BY <1>8, <1>6 DEF InUse, s, L
<1>10. \A k \in DOMAIN m : \E i \in 1..Len(g.slot) : g.slot[i] = <<k, m[k]>>
  <2> TAKE k \in DOMAIN m
  <2>1. PICK i \in 1..L : s[i] = <<k, m[k]>>
    BY DEF Represents, s, L
  <2> QED BY <2>1, <1>6, <1>4, <1>5
<1>11. \A i, j \in InUse(g) : g.slot[i][1] = g.slot[j][1] => i = j
  BY <1>9 DEF Represents
<1>12. L + L \in 1..(L + L) /\ g.slot[L + L] = Free
  BY <1>1, <1>7
<1>13. g.slot # <<>>
  BY <1>1, <1>4, <1>5, EmptySeq
<1>14. Represents(g, m)
  <2>1. IsFiniteSet(DOMAIN m) /\ g.n = Cardinality(DOMAIN m) /\ g.n = Cardinality(InUse(g))
    BY <1>5, <1>8 DEF Represents
  <2>2. g.slot \in Seq({Free} \cup Cell(m))
    BY <1>4, <1>5 DEF C
  <2> QED BY <2>1, <2>2, <1>5, <1>10, <1>11, <1>13 DEF Represents
<1>15. FreeSlots(g) # {}
  <2>1. DOMAIN g.slot = 1..(L + L)
    BY <1>4, <1>5, LenProperties
  <2> QED BY <2>1, <1>12 DEF FreeSlots
<1> QED BY <1>14, <1>15 DEF g

(* As long as it is not full there is a free cell. *)
LEMMA RoomLeft ==
  ASSUME NEW d, NEW m, Represents(d, m), d.n # Len(d.slot)
  PROVE  FreeSlots(d) # {}
<1>1. DOMAIN d.slot = 1..Len(d.slot) /\ Len(d.slot) \in Nat \ {0}
  BY HoldingIs
<1>2. SUFFICES ASSUME FreeSlots(d) = {} PROVE FALSE
  OBVIOUS
<1>3. InUse(d) = 1..Len(d.slot)
  BY <1>1, <1>2 DEF FreeSlots, InUse
<1>4. Cardinality(1..Len(d.slot)) = Len(d.slot)
  <2> DEFINE L == Len(d.slot)
  <2>1. L \in Nat
    BY <1>1
  <2> HIDE DEF L
  <2>2. Cardinality(1..L) = L
    <3>1. Cardinality(1..L) = IF 1 > L THEN 0 ELSE L - 1 + 1
      BY <2>1, FS_Interval
    <3> QED BY <2>1, <3>1
  <2> QED BY <2>2 DEF L
<1> QED BY <1>3, <1>4 DEF Represents

(* dictionary_set of a key it does not hold: one more cell is in use. *)
LEMMA InsertIs ==
  ASSUME NEW d, NEW m, Represents(d, m), FreeSlots(d) # {},
         NEW key, key \notin DOMAIN m, NEW val
  PROVE  Represents(Insert(d, key, val), With(m, key, val))
<1> DEFINE s == d.slot
           L == Len(d.slot)
           w == With(m, key, val)
           z == NextFree(d)
           cell == <<key, val>>
           e == Insert(d, key, val)
<1>1. s \in Seq({Free} \cup Cell(m)) /\ DOMAIN s = 1..L /\ L \in Nat \ {0}
  BY HoldingIs DEF Represents
<1>2. z \in 1..L /\ s[z] = Free
  <2> DEFINE from == {i \in FreeSlots(d) : i > d.n}
             candidates == IF from # {} THEN from ELSE FreeSlots(d)
  <2>1. candidates \subseteq FreeSlots(d) /\ candidates # {}
    OBVIOUS
  <2>2. FreeSlots(d) \subseteq 1..L /\ \A i \in FreeSlots(d) : s[i] = Free
    BY <1>1 DEF FreeSlots
  <2>3. z = CHOOSE i \in candidates : \A j \in candidates : i <= j
    BY DEF NextFree
  <2> HIDE DEF candidates, z
  <2>4. candidates \subseteq Nat
    BY <1>1, <2>1, <2>2
  <2>5. \E i \in candidates : \A j \in candidates : i <= j
    BY <2>1, <2>4, LeastNumber
  <2>6. z \in candidates
    BY <2>3, <2>5
  <2> QED BY <2>1, <2>2, <2>6
<1>3. e = [n |-> d.n + 1, slot |-> [s EXCEPT ![z] = cell]]
  BY DEF Insert
<1>4. DOMAIN w = DOMAIN m \cup {key} /\ w[key] = val /\ \A x \in DOMAIN m : w[x] = m[x]
  <2>1. /\ DOMAIN w = DOMAIN m \cup {key} /\ w[key] = val
        /\ \A x \in DOMAIN m : x # key => w[x] = m[x]
    BY DEF With
  <2>2. \A x \in DOMAIN m : x # key
    OBVIOUS
  <2> HIDE DEF w
  <2> QED BY <2>1, <2>2
<1>5. Cell(m) \subseteq Cell(w) /\ cell \in Cell(w)
  BY <1>4 DEF Cell
<1> HIDE DEF s, L, w, z, e
<1>6. s \in Seq({Free} \cup Cell(w))
  <2>1. {Free} \cup Cell(m) \subseteq {Free} \cup Cell(w)
    BY <1>5
  <2> DEFINE A == {Free} \cup Cell(m)
             B == {Free} \cup Cell(w)
  <2>2. s \in Seq(A) /\ A \subseteq B
    BY <1>1, <2>1
  <2> HIDE DEF A, B
  <2>3. s \in Seq(B)
    BY <2>2, SeqMonotonic
  <2> QED BY <2>3 DEF B
<1>7. /\ e.slot \in Seq({Free} \cup Cell(w)) /\ Len(e.slot) = L
      /\ \A i \in 1..L : e.slot[i] = IF i = z THEN cell ELSE s[i]
      /\ e.n = d.n + 1 /\ e = [n |-> e.n, slot |-> e.slot]
  <2> DEFINE B == {Free} \cup Cell(w)
             t == [s EXCEPT ![z] = cell]
  <2>1. s \in Seq(B) /\ Len(s) = L /\ z \in 1..Len(s) /\ cell \in B
    BY <1>2, <1>5, <1>6 DEF L, s
  <2> HIDE DEF B, cell
  <2>2. /\ t \in Seq(B) /\ Len(t) = Len(s)
        /\ \A j \in 1..Len(s) : t[j] = IF j = z THEN cell ELSE s[j]
    BY <2>1, ExceptSeq
  <2>3. e.slot = t /\ e.n = d.n + 1 /\ e = [n |-> e.n, slot |-> e.slot]
    BY <1>3 DEF cell
  <2> HIDE DEF t
  <2> QED BY <2>1, <2>2, <2>3 DEF B
<1>8. cell # Free /\ cell[1] = key
  <2>1. cell # Free
    BY <1>5, CellIs
  <2> QED BY <2>1
<1>9. InUse(e) = InUse(d) \cup {z} /\ z \notin InUse(d)
  <2>1. InUse(e) = {i \in 1..L : e.slot[i] # Free}
    BY <1>7 DEF InUse
  <2>2. InUse(d) = {i \in 1..L : s[i] # Free}
    BY DEF InUse, s, L
  <2> HIDE DEF cell
  <2> QED BY <2>1, <2>2, <1>2, <1>7, <1>8
<1>10. \A i \in InUse(d) : e.slot[i] = d.slot[i] /\ e.slot[i][1] \in DOMAIN m
  <2> TAKE i \in InUse(d)
  <2>1. i \in 1..L /\ s[i] # Free /\ i # z
    BY <1>2 DEF InUse, s, L
  <2>2. s[i] \in Cell(m)
    BY <1>1, <2>1 DEF L, s
  <2>3. s[i][1] \in DOMAIN m
    BY <2>2, CellIs
  <2> QED BY <2>1, <2>3, <1>7 DEF s
<1>11. e.slot[z] = cell
  BY <1>2, <1>7
<1>12. \A i, j \in InUse(e) : e.slot[i][1] = e.slot[j][1] => i = j
  <2> SUFFICES ASSUME NEW i \in InUse(e), NEW j \in InUse(e), e.slot[i][1] = e.slot[j][1]
               PROVE  i = j
    OBVIOUS
  <2> HIDE DEF cell
  <2>1. i # z => i \in InUse(d) /\ e.slot[i][1] = d.slot[i][1] /\ e.slot[i][1] # key
    BY <1>9, <1>10
  <2>2. j # z => j \in InUse(d) /\ e.slot[j][1] = d.slot[j][1] /\ e.slot[j][1] # key
    BY <1>9, <1>10
  <2>3. i = z => e.slot[i][1] = key
    BY <1>8, <1>11
  <2>4. j = z => e.slot[j][1] = key
    BY <1>8, <1>11
  <2>5. i # z /\ j # z => i = j
    BY <2>1, <2>2 DEF Represents
  <2> QED BY <2>1, <2>2, <2>3, <2>4, <2>5
<1>13. \A k \in DOMAIN w : \E i \in 1..Len(e.slot) : e.slot[i] = <<k, w[k]>>
  <2> TAKE k \in DOMAIN w
  <2>1. CASE k = key
    BY <2>1, <1>2, <1>4, <1>7, <1>11
  <2>2. CASE k # key
    <3>1. k \in DOMAIN m /\ w[k] = m[k]
      BY <2>2, <1>4
    <3>2. PICK i \in 1..L : s[i] = <<k, m[k]>>
      BY <3>1 DEF Represents, s, L
    <3>3. <<k, m[k]>> \in Cell(m)
      BY <3>1 DEF Cell
    <3>4. i # z
      BY <1>2, <3>2, <3>3, CellIs
    <3> QED BY <3>1, <3>2, <3>4, <1>7
  <2> QED BY <2>1, <2>2
<1>14. /\ IsFiniteSet(DOMAIN w) /\ e.n = Cardinality(DOMAIN w) /\ e.n = Cardinality(InUse(e))
  <2>1. IsFiniteSet(DOMAIN m) /\ d.n = Cardinality(DOMAIN m) /\ d.n = Cardinality(InUse(d))
    BY DEF Represents
  <2>2. IsFiniteSet(InUse(d))
    <3>1. IsFiniteSet(1..L)
      BY <1>1, FS_Interval
    <3>2. InUse(d) \subseteq 1..L
      BY DEF InUse, L
    <3> QED BY <3>1, <3>2, FS_Subset
  <2>3. /\ IsFiniteSet(DOMAIN m \cup {key})
        /\ Cardinality(DOMAIN m \cup {key}) = Cardinality(DOMAIN m) + 1
    BY <2>1, FS_AddElement
  <2>4. Cardinality(InUse(d) \cup {z}) = Cardinality(InUse(d)) + 1
    BY <2>2, <1>9, FS_AddElement
  <2> QED BY <2>1, <2>3, <2>4, <1>4, <1>7, <1>9
<1>15. e.slot # <<>>
  BY <1>1, <1>7, EmptySeq
<1>16. Represents(e, w)
  BY <1>7, <1>12, <1>13, <1>14, <1>15 DEF Represents
<1> QED BY <1>16 DEF e, w

(* dictionary_set of a key it holds: another value in its cell. *)
LEMMA ReplaceIs ==
  ASSUME NEW d, NEW m, Represents(d, m), NEW key \in DOMAIN m, NEW val
  PROVE  Represents([d EXCEPT !.slot[FirstHolding(d, key)][2] = val], With(m, key, val))
<1> DEFINE s == d.slot
           L == Len(d.slot)
           w == With(m, key, val)
           z == FirstHolding(d, key)
           cell == <<key, val>>
           e == [d EXCEPT !.slot[z][2] = val]
<1>1. s \in Seq({Free} \cup Cell(m)) /\ DOMAIN s = 1..L /\ L \in Nat \ {0}
  BY HoldingIs DEF Represents
<1>2. z \in 1..L /\ z \in InUse(d) /\ s[z] = <<key, m[key]>>
  BY HoldingIs DEF InUse
<1>3. e = [n |-> d.n, slot |-> [s EXCEPT ![z] = cell]]
  <2>1. d = [n |-> d.n, slot |-> s]
    BY DEF Represents
  <2>2. [s[z] EXCEPT ![2] = val] = cell
    BY <1>2
  <2>3. e = [d EXCEPT !.slot = [s EXCEPT ![z] = [s[z] EXCEPT ![2] = val]]]
    OBVIOUS
  <2>4. e = [d EXCEPT !.slot = [s EXCEPT ![z] = cell]]
    BY <2>2, <2>3
  <2> HIDE DEF s, z, e, cell
  <2>5. \A x : [d EXCEPT !.slot = x] = [n |-> d.n, slot |-> x]
    BY <2>1
  <2> QED BY <2>4, <2>5
<1>4. DOMAIN w = DOMAIN m /\ w[key] = val /\ \A x \in DOMAIN m : x # key => w[x] = m[x]
  <2>1. /\ DOMAIN w = DOMAIN m \cup {key} /\ w[key] = val
        /\ \A x \in DOMAIN m : x # key => w[x] = m[x]
    BY DEF With
  <2> HIDE DEF w
  <2> QED BY <2>1
<1> HIDE DEF s, L, w, z, e
<1>5. ASSUME NEW i \in 1..L, i # z, s[i] # Free
      PROVE  s[i] \in Cell(w) /\ s[i][1] \in DOMAIN m
  <2>1. s[i] \in Cell(m)
    BY <1>1, <1>5 DEF s, L
  <2>2. s[i][1] \in DOMAIN m /\ s[i] = <<s[i][1], m[s[i][1]]>>
    BY <2>1, CellIs
  <2>3. s[i][1] # key
    <3>1. s[z][1] = key
      BY <1>2
    <3>2. i \in InUse(d)
      BY <1>5 DEF InUse, s, L
    <3> QED BY <3>1, <3>2, <1>2, <1>5 DEF Represents, s
  <2>4. w[s[i][1]] = m[s[i][1]]
    BY <2>2, <2>3, <1>4
  <2> QED BY <2>2, <2>4, <1>4 DEF Cell
<1>6. cell \in Cell(w) /\ cell # Free /\ cell[1] = key
  <2>1. cell \in Cell(w)
    BY <1>4 DEF Cell
  <2>2. cell # Free
    BY <2>1, CellIs
  <2> QED BY <2>1, <2>2
<1>7. /\ DOMAIN e.slot = 1..L /\ Len(e.slot) = L
      /\ \A i \in 1..L : e.slot[i] = IF i = z THEN cell ELSE s[i]
      /\ e.n = d.n /\ e = [n |-> e.n, slot |-> e.slot]
      /\ e.slot \in Seq({Free} \cup Cell(w))
  <2> DEFINE t == [i \in 1..L |-> IF i = z THEN cell ELSE s[i]]
             B == {Free} \cup Cell(w)
  <2>1. [s EXCEPT ![z] = cell] = t
    BY <1>1, <1>2 DEF s, L
  <2>2. \A i \in 1..L : t[i] \in B
    BY <1>5, <1>6
  <2>3. e = [n |-> d.n, slot |-> t]
    BY <1>3, <2>1
  <2>4. L \in Nat /\ t = [i \in 1..L |-> t[i]]
    BY <1>1
  <2>5. \A i \in 1..L : t[i] = IF i = z THEN cell ELSE s[i]
    OBVIOUS
  <2> HIDE DEF t, B
  <2>6. t \in Seq(B) /\ Len(t) = L /\ DOMAIN t = 1..L
    BY <2>2, <2>4
  <2> QED BY <2>3, <2>5, <2>6 DEF B
<1> HIDE DEF cell
<1>8. InUse(e) = InUse(d)
  <2>1. InUse(e) = {i \in 1..L : e.slot[i] # Free}
    BY <1>7 DEF InUse
  <2>2. InUse(d) = {i \in 1..L : s[i] # Free}
    BY DEF InUse, s, L
  <2> QED BY <2>1, <2>2, <1>2, <1>6, <1>7
<1>9. \A i \in InUse(e) : i \in InUse(d) /\ e.slot[i][1] = d.slot[i][1]
  <2> TAKE i \in InUse(e)
  <2>1. i \in InUse(d) /\ i \in 1..L
    BY <1>8 DEF InUse, L
  <2>2. s[z][1] = key /\ e.slot[z] = cell
    BY <1>2, <1>7
  <2> QED BY <2>1, <2>2, <1>6, <1>7 DEF s
<1>10. \A i, j \in InUse(e) : e.slot[i][1] = e.slot[j][1] => i = j
  BY <1>9 DEF Represents
<1>11. \A k \in DOMAIN w : \E i \in 1..Len(e.slot) : e.slot[i] = <<k, w[k]>>
  <2> TAKE k \in DOMAIN w
  <2>1. CASE k = key
    BY <2>1, <1>2, <1>4, <1>7 DEF cell
  <2>2. CASE k # key
    <3>1. k \in DOMAIN m /\ w[k] = m[k]
      BY <2>2, <1>4
    <3>2. PICK i \in 1..L : s[i] = <<k, m[k]>>
      BY <3>1 DEF Represents, s, L
    <3>3. i # z
      BY <1>2, <3>2, <2>2
    <3> QED BY <3>1, <3>2, <3>3, <1>7
  <2> QED BY <2>1, <2>2
<1>12. IsFiniteSet(DOMAIN w) /\ e.n = Cardinality(DOMAIN w) /\ e.n = Cardinality(InUse(e))
  BY <1>4, <1>7, <1>8 DEF Represents
<1>13. e.slot # <<>>
  BY <1>1, <1>7, EmptySeq
<1>14. Represents(e, w)
  BY <1>7, <1>10, <1>11, <1>12, <1>13 DEF Represents
<1> QED BY <1>14 DEF e, w, z

(* dictionary_set: the function with the value at the key. *)
LEMMA SetIs ==
  ASSUME NEW d, NEW m, Represents(d, m), NEW key, NEW val
  PROVE  Represents(DictionarySet(d, key, val), With(m, key, val))
<1>1. CASE Holding(d, key) # {}
  <2>1. key \in DOMAIN m
    BY <1>1, HoldingIs
  <2> QED BY <1>1, <2>1, ReplaceIs DEF DictionarySet
<1>2. CASE Holding(d, key) = {}
  <2> DEFINE room == IF d.n = Len(d.slot) THEN DictionaryGrow(d) ELSE d
  <2>1. key \notin DOMAIN m
    BY <1>2, HoldingIs
  <2>2. Represents(room, m) /\ FreeSlots(room) # {}
    BY GrowIs, RoomLeft
  <2>3. DictionarySet(d, key, val) = Insert(room, key, val)
    BY <1>2 DEF DictionarySet
  <2> HIDE DEF room
  <2> QED BY <2>1, <2>2, <2>3, InsertIs
<1> QED BY <1>1, <1>2

-----------------------------------------------------------------------------
(* f has everything before the i-th in one, up to the n-th.                *)
Flattens(p, n, f) ==
  \A i \in 1..n : f[i] = IF i = 1 THEN p[i] ELSE f[i - 1] \o p[i]

(* The recursive function with which FlattenSeq is defined exists.         *)
LEMMA FlattenExists ==
  ASSUME NEW S, NEW p \in Seq(Seq(S))
  PROVE  \E f \in [1..Len(p) -> Seq(S)] :
           f = [i \in 1..Len(p) |-> IF i = 1 THEN p[i] ELSE f[i - 1] \o p[i]]
<1> DEFINE M == {n \in Nat : \E f \in [1..n -> Seq(S)] : Flattens(p, n, f)}
<1>1. 0 \in M
  <2>1. [i \in 1..0 |-> <<>>] \in [1..0 -> Seq(S)] /\ Flattens(p, 0, [i \in 1..0 |-> <<>>])
    BY DEF Flattens
  <2> QED BY <2>1
<1>2. ASSUME NEW n \in 0..Len(p), n > 0, n - 1 \in M PROVE n \in M
  <2>1. PICK f \in [1..(n - 1) -> Seq(S)] : Flattens(p, n - 1, f)
    BY <1>2
  <2>2. n \in 1..Len(p) /\ p[n] \in Seq(S)
    BY <1>2
  <2> DEFINE last == IF n = 1 THEN p[n] ELSE f[n - 1] \o p[n]
             g == [i \in 1..n |-> IF i = n THEN last ELSE f[i]]
  <2>3. last \in Seq(S)
    <3>1. CASE n = 1
      BY <3>1, <2>2
    <3>2. CASE n # 1
      <4>1. n - 1 \in 1..(n - 1)
        BY <3>2, <2>2
      <4>2. f[n - 1] \in Seq(S)
        BY <2>1, <4>1
      <4> QED BY <3>2, <2>2, <4>2, ConcatProperties
    <3> QED BY <3>1, <3>2
  <2> HIDE DEF last
  <2>4. g \in [1..n -> Seq(S)]
    <3>1. ASSUME NEW i \in 1..n PROVE (IF i = n THEN last ELSE f[i]) \in Seq(S)
      <4>1. CASE i = n
        BY <4>1, <2>3
      <4>2. CASE i # n
        <5>1. i \in 1..(n - 1)
          BY <4>2, <2>2
        <5> QED BY <5>1, <4>2, <2>1
      <4> QED BY <4>1, <4>2
    <3> QED BY <3>1
  <2>5. ASSUME NEW i \in 1..n PROVE g[i] = IF i = 1 THEN p[i] ELSE g[i - 1] \o p[i]
    <3>1. CASE i = n /\ n = 1
      BY <3>1, <2>2 DEF last
    <3>2. CASE i = n /\ n # 1
      <4>1. n - 1 \in 1..n /\ n - 1 # n /\ i # 1
        BY <3>2, <2>2
      <4>2. g[n - 1] = f[n - 1] /\ g[i] = last
        BY <4>1, <3>2
      <4>3. last = f[n - 1] \o p[n]
        BY <3>2 DEF last
      <4> HIDE DEF g
      <4> QED BY <3>2, <4>1, <4>2, <4>3
    <3>3. CASE i # n
      <4>1. i \in 1..(n - 1) /\ i \in 1..n /\ (i # 1 => i - 1 \in 1..n /\ i - 1 # n)
        BY <3>3, <2>2
      <4>2. g[i] = f[i] /\ (i # 1 => g[i - 1] = f[i - 1])
        BY <4>1, <3>3
      <4>3. f[i] = IF i = 1 THEN p[i] ELSE f[i - 1] \o p[i]
        BY <2>1, <4>1 DEF Flattens
      <4> HIDE DEF g
      <4> QED BY <4>2, <4>3
    <3> QED BY <3>1, <3>2, <3>3
  <2> HIDE DEF g
  <2>6. n \in Nat /\ Flattens(p, n, g)
    BY <2>2, <2>5 DEF Flattens
  <2> QED BY <2>4, <2>6
<1> HIDE DEF M
<1>3. Len(p) \in M
  <2>1. Len(p) \in Nat
    OBVIOUS
  <2>2. \A n \in 0..Len(p) : n \in M
    BY <1>1, <1>2, <2>1, Upwards
  <2> QED BY <2>1, <2>2
<1>4. PICK f \in [1..Len(p) -> Seq(S)] : Flattens(p, Len(p), f)
  BY <1>3 DEF M
<1>5. f = [i \in 1..Len(p) |-> IF i = 1 THEN p[i] ELSE f[i - 1] \o p[i]]
  BY <1>4 DEF Flattens
<1> QED BY <1>5

(* It is what FlattenSeq takes the last value of. *)
LEMMA FlattenIs ==
  ASSUME NEW S, NEW p \in Seq(Seq(S)), p # <<>>
  PROVE  \E f \in [1..Len(p) -> Seq(S)] : Flattens(p, Len(p), f) /\ FlattenSeq(p) = f[Len(p)]
<1> DEFINE Is(f) == f = [i \in 1..Len(p) |-> IF i = 1 THEN p[i] ELSE f[i - 1] \o p[i]]
           flat == CHOOSE f : Is(f)
           N == Len(p)
<1>1. N \in Nat \ {0}
  BY EmptySeq
<1>2. PICK f \in [1..N -> Seq(S)] : Is(f)
  BY FlattenExists
<1>3. Is(flat)
  BY <1>2
<1>4. FlattenSeq(p) = flat[N]
  BY <1>1 DEF FlattenSeq
<1> HIDE DEF flat
<1>5. \A i \in 1..N : flat[i] = IF i = 1 THEN p[i] ELSE flat[i - 1] \o p[i]
  BY <1>3
<1>6. flat = [i \in 1..N |-> flat[i]]
  BY <1>3
<1> HIDE DEF Is
<1> DEFINE M == {n \in 0..N : n > 0 => flat[n] \in Seq(S)}
<1>7. \A n \in 0..N : n \in M
  <2>1. 0 \in M
    BY <1>1
  <2>2. ASSUME NEW n \in 0..N, n > 0, n - 1 \in M PROVE n \in M
    <3>1. n \in 1..N /\ p[n] \in Seq(S)
      BY <2>2, <1>1
    <3>2. CASE n = 1
      BY <3>1, <3>2, <1>5
    <3>3. CASE n # 1
      <4>0. n - 1 > 0 /\ n - 1 \in M
        BY <2>2, <3>1, <3>3
      <4>1. flat[n - 1] \in Seq(S) /\ flat[n] = flat[n - 1] \o p[n]
        BY <4>0, <3>1, <3>3, <1>5
      <4>2. flat[n - 1] \o p[n] \in Seq(S)
        BY <4>1, <3>1, ConcatProperties
      <4> QED BY <4>1, <4>2
    <3> QED BY <3>2, <3>3
  <2> HIDE DEF M
  <2> QED BY <2>1, <2>2, <1>1, Upwards
<1>8. \A n \in 1..N : flat[n] \in Seq(S)
  BY <1>1, <1>7
<1>9. flat \in [1..N -> Seq(S)]
  BY <1>6, <1>8
<1>10. Flattens(p, N, flat)
  BY <1>5 DEF Flattens
<1> QED BY <1>4, <1>9, <1>10

(* And it is the same for sequences with the same beginning. *)
Alike(p, q, n) == \A i \in 1..n : p[i] = q[i]

(* Alike pieces flatten alike. *)
LEMMA FlattensSame ==
  ASSUME NEW n \in Nat, NEW p, NEW q, NEW f, NEW g,
         Flattens(p, n, f), Flattens(q, n, g), Alike(p, q, n)
  PROVE  Alike(f, g, n)
<1> USE DEF Alike
<1> DEFINE M == {i \in 0..n : i > 0 => f[i] = g[i]}
<1>1. 0 \in M
  OBVIOUS
<1>2. ASSUME NEW i \in 0..n, i > 0, i - 1 \in M PROVE i \in M
  <2>1. i \in 1..n
    BY <1>2
  <2>2. /\ f[i] = IF i = 1 THEN p[i] ELSE f[i - 1] \o p[i]
        /\ g[i] = IF i = 1 THEN q[i] ELSE g[i - 1] \o q[i]
    BY <2>1 DEF Flattens
  <2>3. p[i] = q[i] /\ (i # 1 => f[i - 1] = g[i - 1])
    BY <2>1, <1>2
  <2>4. f[i] = g[i]
    BY <2>2, <2>3
  <2> QED BY <2>1, <2>4
<1> HIDE DEF M
<1>3. \A i \in 0..n : i \in M
  BY <1>1, <1>2, Upwards
<1>4. \A i \in 1..n : i \in 0..n /\ i > 0
  OBVIOUS
<1> QED BY <1>3, <1>4 DEF M

(* One sequence more is one more at the end. *)
LEMMA FlattenAppend ==
  ASSUME NEW S, NEW p \in Seq(Seq(S)), NEW x \in Seq(S)
  PROVE  /\ FlattenSeq(p) \in Seq(S)
         /\ FlattenSeq(Append(p, x)) = FlattenSeq(p) \o x
<1> DEFINE q == Append(p, x)
           N == Len(p)
<1>1. /\ q \in Seq(Seq(S)) /\ q # <<>> /\ Len(q) = N + 1 /\ N \in Nat /\ q[N + 1] = x
      /\ \A i \in 1..N : q[i] = p[i]
  BY AppendProperties
<1> HIDE DEF q
<1>2. PICK g \in [1..(N + 1) -> Seq(S)] : Flattens(q, N + 1, g) /\ FlattenSeq(q) = g[N + 1]
  BY <1>1, FlattenIs
<1>3. CASE p = <<>>
  <2>1. FlattenSeq(p) = <<>> /\ N = 0
    BY <1>3 DEF FlattenSeq
  <2>2. g[1] = x
    BY <2>1, <1>1, <1>2 DEF Flattens
  <2>3. FlattenSeq(q) = x
    BY <2>1, <2>2, <1>2
  <2>4. <<>> \o x = x /\ <<>> \in Seq(S)
    BY ConcatEmptySeq
  <2> QED BY <2>1, <2>3, <2>4 DEF q
<1>4. CASE p # <<>>
  <2>1. N \in Nat \ {0}
    BY <1>4, EmptySeq
  <2>2. PICK f \in [1..N -> Seq(S)] : Flattens(p, N, f) /\ FlattenSeq(p) = f[N]
    BY <1>4, FlattenIs
  <2> HIDE DEF N
  <2>3. Flattens(q, N, g)
    <3>1. \A i \in 1..N : i \in 1..(N + 1)
      BY <2>1
    <3> QED BY <3>1, <1>2 DEF Flattens
  <2>4. f[N] = g[N]
    <3>1. Alike(f, g, N)
      <4>1. N \in Nat /\ Flattens(p, N, f) /\ Flattens(q, N, g) /\ Alike(p, q, N)
        BY <2>1, <2>2, <2>3, <1>1 DEF Alike
      <4> QED BY <4>1, FlattensSame
    <3> QED BY <3>1, <2>1 DEF Alike
  <2>5. g[N + 1] = g[N] \o x
    <3>1. N + 1 \in 1..(N + 1) /\ N + 1 # 1 /\ (N + 1) - 1 = N
      BY <2>1
    <3>2. g[N + 1] = IF N + 1 = 1 THEN q[N + 1] ELSE g[(N + 1) - 1] \o q[N + 1]
      BY <3>1, <1>2 DEF Flattens
    <3> QED BY <3>1, <3>2, <1>1
  <2>6. f[N] \in Seq(S)
    BY <2>1, <2>2
  <2> QED BY <2>2, <2>4, <2>5, <2>6, <1>2 DEF q
<1> QED BY <1>3, <1>4

-----------------------------------------------------------------------------
(* Logical lines.  The one that ends with physical line e begins with line *)
(* b; a Piece is the texts from b to e.                                    *)
Begins(lines, b, e) ==
  /\ b \in 1..e
  /\ b = 1 \/ b - 1 \in Ends(lines)
  /\ Ends(lines) \cap b..(e - 1) = {}

Piece(lines, b, e) == [i \in 1..(e - b + 1) |-> lines[b + i - 1].text]

(* The text of a physical line. *)
LEMMA LineIs ==
  ASSUME NEW lines \in Seq(PhysicalLine)
  PROVE  /\ Len(lines) \in Nat /\ DOMAIN lines = 1..Len(lines)
         /\ \A i \in 1..Len(lines) : lines[i].text \in Seq(Token)
         /\ Ends(lines) \subseteq 1..Len(lines)
         /\ \A e \in 1..Len(lines) : e \in Ends(lines) <=> ~lines[e].more
<1>1. Len(lines) \in Nat /\ DOMAIN lines = 1..Len(lines)
  BY LenProperties
<1>2. \A i \in 1..Len(lines) : lines[i] \in PhysicalLine
  OBVIOUS
<1>3. \A i \in 1..Len(lines) : lines[i].text \in Seq(Token)
  BY <1>2 DEF PhysicalLine
<1> QED BY <1>1, <1>3 DEF Ends

(* Every logical line begins somewhere, and nowhere else. *)
LEMMA BeginExists ==
  ASSUME NEW lines \in Seq(PhysicalLine), NEW e \in 1..(Len(lines) + 1)
  PROVE  \E b : Begins(lines, b, e)
<1> DEFINE before == {x \in Ends(lines) : x < e}
<1>1. Ends(lines) \subseteq 1..Len(lines) /\ Len(lines) \in Nat
  BY LineIs
<1>2. CASE before = {}
  <2>1. Ends(lines) \cap 1..(e - 1) = {}
    BY <1>2
  <2>2. Begins(lines, 1, e)
    BY <2>1 DEF Begins
  <2> QED BY <2>2
<1>3. CASE before # {}
  <2>1. before \subseteq 0..Len(lines)
    BY <1>1
  <2> HIDE DEF before
  <2>2. PICK x \in before : \A y \in before : y <= x
    BY <1>1, <1>3, <2>1, GreatestNumber
  <2>3. x \in Ends(lines) /\ x < e /\ x \in 1..Len(lines)
    BY <2>2, <1>1 DEF before
  <2>4. \A y \in Ends(lines) : y < e => y <= x
    BY <2>2 DEF before
  <2>5. Ends(lines) \cap (x + 1)..(e - 1) = {}
    BY <2>3, <2>4, <1>1
  <2>6. x + 1 \in 1..e /\ (x + 1) - 1 = x
    BY <2>3
  <2>7. Begins(lines, x + 1, e)
    BY <2>3, <2>5, <2>6 DEF Begins
  <2> QED BY <2>7
<1> QED BY <1>2, <1>3

(* A logical line begins in one place only. *)
LEMMA BeginOnly ==
  ASSUME NEW lines, NEW e \in Nat, NEW b, NEW c, Begins(lines, b, e), Begins(lines, c, e)
  PROVE  b = c
<1>1. b \in 1..e /\ c \in 1..e
  BY DEF Begins
<1>2. ASSUME b < c PROVE FALSE
  <2>1. c - 1 \in Ends(lines) /\ c - 1 \in b..(e - 1)
    BY <1>1, <1>2 DEF Begins
  <2> QED BY <2>1 DEF Begins
<1>3. ASSUME c < b PROVE FALSE
  <2>1. b - 1 \in Ends(lines) /\ b - 1 \in c..(e - 1)
    BY <1>1, <1>3 DEF Begins
  <2> QED BY <2>1 DEF Begins
<1> QED BY <1>1, <1>2, <1>3

(* The text of a logical line. *)
LEMMA TextIs ==
  ASSUME NEW lines, NEW e \in Nat, NEW b, Begins(lines, b, e)
  PROVE  Text(lines, e) = FlattenSeq(Piece(lines, b, e))
<1> DEFINE begin == CHOOSE x \in 1..e : /\ x = 1 \/ x - 1 \in Ends(lines)
                                       /\ Ends(lines) \cap x..(e - 1) = {}
<1>1. Text(lines, e) = FlattenSeq(Piece(lines, begin, e))
  BY DEF Text, Piece
<1>2. b \in 1..e /\ (b = 1 \/ b - 1 \in Ends(lines)) /\ Ends(lines) \cap b..(e - 1) = {}
  BY DEF Begins
<1>3. begin \in 1..e /\ (begin = 1 \/ begin - 1 \in Ends(lines))
      /\ Ends(lines) \cap begin..(e - 1) = {}
  BY <1>2
<1> HIDE DEF begin
<1>4. Begins(lines, begin, e)
  BY <1>3 DEF Begins
<1>5. begin = b
  BY <1>4, BeginOnly
<1> QED BY <1>1, <1>5

(* The physical lines of a logical one, as their texts. *)
LEMMA PieceIs ==
  ASSUME NEW lines \in Seq(PhysicalLine), NEW e \in 0..Len(lines), NEW b \in 1..(e + 1)
  PROVE  Piece(lines, b, e) \in Seq(Seq(Token)) /\ Len(Piece(lines, b, e)) = e - b + 1
<1>1. Len(lines) \in Nat /\ \A i \in 1..Len(lines) : lines[i].text \in Seq(Token)
  BY LineIs
<1>2. \A i \in 1..(e - b + 1) : b + i - 1 \in 1..Len(lines)
  BY <1>1
<1>3. \A i \in 1..(e - b + 1) : lines[b + i - 1].text \in Seq(Token)
  BY <1>1, <1>2
<1>4. e - b + 1 \in Nat
  BY <1>1
<1> DEFINE n == e - b + 1
           T == Seq(Token)
           f == [i \in 1..n |-> lines[b + i - 1].text]
<1>5. n \in Nat /\ f \in [1..n -> T]
  BY <1>3, <1>4
<1> HIDE DEF n, T, f
<1>6. f \in Seq(T) /\ Len(f) = n
  BY <1>5
<1> QED BY <1>6 DEF Piece, f, n, T

(* A line more is a text more. *)
LEMMA PieceMore ==
  ASSUME NEW lines \in Seq(PhysicalLine), NEW e \in 0..Len(lines), e + 1 <= Len(lines),
         NEW b \in 1..(e + 1)
  PROVE  Piece(lines, b, e + 1) = Append(Piece(lines, b, e), lines[e + 1].text)
<1> DEFINE p == Piece(lines, b, e)
           q == Piece(lines, b, e + 1)
           x == lines[e + 1].text
           n == e - b + 1
           r == Append(p, x)
           T == Seq(Token)
<1>1. Len(lines) \in Nat /\ x \in T
  BY LineIs
<1>2. p \in Seq(T) /\ Len(p) = n /\ n \in Nat /\ \A i \in 1..n : p[i] = lines[b + i - 1].text
  BY <1>1, PieceIs DEF Piece
<1>3. q \in Seq(T) /\ Len(q) = n + 1
  <2>1. e + 1 \in 0..Len(lines) /\ b \in 1..((e + 1) + 1) /\ (e + 1) - b + 1 = n + 1
    BY <1>1
  <2> QED BY <2>1, PieceIs
<1>4. \A i \in 1..(n + 1) : q[i] = lines[b + i - 1].text
  <2>1. (e + 1) - b + 1 = n + 1
    BY <1>1
  <2> QED BY <2>1 DEF Piece
<1>5. b + (n + 1) - 1 = e + 1
  BY <1>1
<1> HIDE DEF p, q, x, n, T
<1>6. r \in Seq(T) /\ Len(r) = n + 1 /\ r[n + 1] = x /\ \A i \in 1..n : r[i] = p[i]
  BY <1>1, <1>2, AppendProperties
<1>7. q[n + 1] = x
  BY <1>2, <1>4, <1>5 DEF x
<1>8. \A i \in 1..(n + 1) : q[i] = r[i]
  <2> TAKE i \in 1..(n + 1)
  <2>1. i = n + 1 \/ i \in 1..n
    BY <1>2
  <2> QED BY <2>1, <1>2, <1>4, <1>6, <1>7
<1> HIDE DEF r
<1>9. q = r
  BY <1>3, <1>6, <1>8, SeqEqual
<1> QED BY <1>9 DEF p, q, x, r

(* Files that are the same up to a line say the same up to it. *)
Agree(lines, other, n) ==
  /\ lines \in Seq(PhysicalLine) /\ other \in Seq(PhysicalLine)
  /\ n \in Nat /\ n <= Len(lines) /\ n <= Len(other)
  /\ Alike(lines, other, n)

(* Files that agree up to a line agree on which lines end there. *)
LEMMA EndsSame ==
  ASSUME NEW lines, NEW other, NEW n, Agree(lines, other, n), NEW i \in 1..n
  PROVE  i \in Ends(lines) <=> i \in Ends(other)
<1>1. lines \in Seq(PhysicalLine) /\ other \in Seq(PhysicalLine)
  BY DEF Agree
<1>2. Len(lines) \in Nat /\ Len(other) \in Nat
  BY <1>1, LineIs
<1>3. i \in 1..Len(lines) /\ i \in 1..Len(other) /\ lines[i] = other[i]
  BY <1>2 DEF Agree, Alike
<1>4. i \in Ends(lines) <=> ~lines[i].more
  BY <1>1, <1>3, LineIs
<1>5. i \in Ends(other) <=> ~other[i].more
  BY <1>1, <1>3, LineIs
<1> QED BY <1>3, <1>4, <1>5

(* And on where the logical lines begin. *)
LEMMA BeginsSame ==
  ASSUME NEW lines, NEW other, NEW n, Agree(lines, other, n),
         NEW e \in 1..(n + 1), NEW b, Begins(lines, b, e)
  PROVE  Begins(other, b, e)
<1>1. n \in Nat
  BY DEF Agree
<1>2. b \in 1..e /\ (b = 1 \/ b - 1 \in Ends(lines)) /\ Ends(lines) \cap b..(e - 1) = {}
  BY DEF Begins
<1>3. b = 1 \/ b - 1 \in Ends(other)
  <2>1. b # 1 => b - 1 \in 1..n
    BY <1>1, <1>2
  <2> QED BY <2>1, <1>2, EndsSame
<1>4. \A x \in b..(e - 1) : x \notin Ends(other)
  <2> TAKE x \in b..(e - 1)
  <2>1. x \in 1..n
    BY <1>1, <1>2
  <2>2. x \notin Ends(lines)
    BY <1>2
  <2> QED BY <2>1, <2>2, EndsSame
<1> QED BY <1>2, <1>3, <1>4 DEF Begins

(* And on their pieces. *)
LEMMA PieceSame ==
  ASSUME NEW lines, NEW other, NEW n, Agree(lines, other, n),
         NEW e \in 0..n, NEW b \in 1..(e + 1)
  PROVE  Piece(lines, b, e) = Piece(other, b, e)
<1>1. \A i \in 1..(e - b + 1) : b + i - 1 \in 1..n
  BY DEF Agree
<1>2. \A i \in 1..(e - b + 1) : lines[b + i - 1] = other[b + i - 1]
  BY <1>1 DEF Agree, Alike
<1> QED BY <1>2 DEF Piece

(* And so on the texts of the logical lines (iniparser.c:749-811). *)
LEMMA TextSame ==
  ASSUME NEW lines, NEW other, NEW n, Agree(lines, other, n), NEW e \in 1..n
  PROVE  Text(lines, e) = Text(other, e)
<1>1. lines \in Seq(PhysicalLine) /\ Len(lines) \in Nat /\ n \in Nat /\ n <= Len(lines)
  BY LineIs DEF Agree
<1>2. e \in 1..(Len(lines) + 1) /\ e \in 1..(n + 1) /\ e \in 0..n /\ e \in Nat
  BY <1>1
<1>3. PICK b : Begins(lines, b, e)
  BY <1>1, <1>2, BeginExists
<1>4. Begins(other, b, e)
  BY <1>2, <1>3, BeginsSame
<1>5. b \in 1..(e + 1)
  BY <1>2, <1>3 DEF Begins
<1>6. Piece(lines, b, e) = Piece(other, b, e)
  BY <1>2, <1>5, PieceSame
<1>7. Text(lines, e) = FlattenSeq(Piece(lines, b, e)) /\ Text(other, e) = FlattenSeq(Piece(other, b, e))
  BY <1>2, <1>3, <1>4, TextIs
<1> QED BY <1>6, <1>7

(* The texts of logical lines are texts. *)
LEMMA TextTypes ==
  ASSUME NEW lines \in Seq(PhysicalLine), NEW e \in 1..Len(lines)
  PROVE  Text(lines, e) \in Seq(Token)
<1>1. Len(lines) \in Nat
  BY LineIs
<1>2. e \in 1..(Len(lines) + 1) /\ e \in 0..Len(lines) /\ e \in Nat
  BY <1>1
<1>3. PICK b : Begins(lines, b, e)
  BY <1>2, BeginExists
<1>4. b \in 1..(e + 1)
  BY <1>2, <1>3 DEF Begins
<1>5. Piece(lines, b, e) \in Seq(Seq(Token))
  BY <1>2, <1>4, PieceIs
<1>6. FlattenSeq(Piece(lines, b, e)) \in Seq(Token)
  <2>1. \A x \in Seq(Token) : FlattenSeq(Piece(lines, b, e)) \in Seq(Token)
    BY <1>5, FlattenAppend
  <2>2. <<>> \in Seq(Token)
    BY EmptySeq
  <2> QED BY <2>1, <2>2
<1> QED BY <1>2, <1>3, <1>6, TextIs

(* What is held back at the end: what an unfinished logical line has said. *)
Held(lines, text) ==
  \A b : Begins(lines, b, Len(lines) + 1) => text = FlattenSeq(Piece(lines, b, Len(lines)))

(* Before the first line nothing is held. *)
LEMMA HeldAtFirst == Held(<<>>, <<>>)
<1> SUFFICES ASSUME NEW b, Begins(<<>>, b, Len(<<>>) + 1)
             PROVE  <<>> = FlattenSeq(Piece(<<>>, b, Len(<<>>)))
  BY DEF Held
<1>1. b = 1
  BY DEF Begins
<1>2. Piece(<<>>, b, Len(<<>>)) = <<>>
  BY <1>1 DEF Piece
<1> QED BY <1>2 DEF FlattenSeq

(* What is held are tokens. *)
LEMMA HeldTypes ==
  ASSUME NEW lines \in Seq(PhysicalLine), NEW text, Held(lines, text)
  PROVE  text \in Seq(Token)
<1> DEFINE L == Len(lines)
<1>1. L \in Nat
  BY LineIs
<1>2. PICK b : Begins(lines, b, L + 1)
  <2>1. L + 1 \in 1..(L + 1)
    BY <1>1
  <2> QED BY <2>1, BeginExists
<1>3. text = FlattenSeq(Piece(lines, b, L))
  BY <1>2 DEF Held
<1>4. b \in 1..(L + 1) /\ L \in 0..L
  BY <1>1, <1>2 DEF Begins
<1>5. Piece(lines, b, L) \in Seq(Seq(Token))
  BY <1>4, PieceIs
<1>6. \A x \in Seq(Token) : FlattenSeq(Piece(lines, b, L)) \in Seq(Token)
  BY <1>5, FlattenAppend
<1>7. <<>> \in Seq(Token)
  BY EmptySeq
<1> QED BY <1>3, <1>6, <1>7

(* A file with a line more. *)
LEMMA MoreLines ==
  ASSUME NEW lines \in Seq(PhysicalLine), NEW x \in PhysicalLine
  PROVE  /\ Append(lines, x) \in Seq(PhysicalLine) /\ Len(Append(lines, x)) = Len(lines) + 1
         /\ Append(lines, x)[Len(lines) + 1] = x
         /\ Agree(lines, Append(lines, x), Len(lines))
         /\ Ends(Append(lines, x)) = IF x.more THEN Ends(lines) ELSE Ends(lines) \cup {Len(lines) + 1}
<1> DEFINE k == Append(lines, x)
           L == Len(lines)
<1>1. k \in Seq(PhysicalLine) /\ Len(k) = L + 1 /\ k[L + 1] = x /\ \A i \in 1..L : k[i] = lines[i]
  BY AppendProperties
<1>2. L \in Nat /\ Ends(lines) \subseteq 1..L
  BY LineIs
<1> HIDE DEF k
<1>3. Agree(lines, k, L)
  BY <1>1, <1>2 DEF Agree, Alike
<1>4. Ends(k) \subseteq 1..(L + 1) /\ (L + 1 \in Ends(k) <=> ~x.more)
  <2>1. L + 1 \in 1..Len(k)
    BY <1>1, <1>2
  <2> QED BY <2>1, <1>1, LineIs
<1>5. \A i \in 1..L : i \in Ends(lines) <=> i \in Ends(k)
  BY <1>3, EndsSame
<1>6. Ends(k) = IF x.more THEN Ends(lines) ELSE Ends(lines) \cup {L + 1}
  <2>1. \A i \in 1..(L + 1) : i = L + 1 \/ i \in 1..L
    BY <1>2
  <2>2. L + 1 \notin 1..L
    BY <1>2
  <2> HIDE DEF L
  <2>3. CASE x.more
    <3>1. \A i : i \in Ends(k) <=> i \in Ends(lines)
      BY <2>1, <2>2, <2>3, <1>2, <1>4, <1>5
    <3> QED BY <3>1, <2>3
  <2>4. CASE ~x.more
    <3>1. \A i : i \in Ends(k) <=> i \in Ends(lines) \/ i = L + 1
      BY <2>1, <2>2, <2>4, <1>2, <1>4, <1>5
    <3> QED BY <3>1, <2>4
  <2> QED BY <2>3, <2>4
<1> QED BY <1>1, <1>3, <1>6 DEF k

(* With it the unfinished logical line is longer, or finished. *)
LEMMA HeldMore ==
  ASSUME NEW lines \in Seq(PhysicalLine), NEW x \in PhysicalLine,
         NEW text, Held(lines, text)
  PROVE  /\ x.more => Held(Append(lines, x), text \o x.text)
         /\ ~x.more => /\ Text(Append(lines, x), Len(lines) + 1) = text \o x.text
                       /\ Held(Append(lines, x), <<>>)
<1> DEFINE k == Append(lines, x)
           L == Len(lines)
<1>1. /\ k \in Seq(PhysicalLine) /\ Len(k) = L + 1 /\ k[L + 1] = x
      /\ Agree(lines, k, L)
      /\ Ends(k) = IF x.more THEN Ends(lines) ELSE Ends(lines) \cup {L + 1}
  BY MoreLines
<1>2. L \in Nat /\ Ends(lines) \subseteq 1..L
  BY LineIs
<1> HIDE DEF k
<1>3. PICK b : Begins(lines, b, L + 1)
  <2>1. L + 1 \in 1..(L + 1)
    BY <1>2
  <2> QED BY <2>1, BeginExists
<1>4. Begins(k, b, L + 1)
  <2>1. L + 1 \in 1..(L + 1)
    BY <1>2
  <2> QED BY <2>1, <1>1, <1>3, BeginsSame
<1>5. b \in 1..(L + 1) /\ L \in 0..L
  BY <1>2, <1>3 DEF Begins
<1>6. text = FlattenSeq(Piece(lines, b, L))
  BY <1>3 DEF Held
<1>7. FlattenSeq(Piece(k, b, L + 1)) = text \o x.text
  <2> DEFINE p == Piece(lines, b, L)
  <2>1. p \in Seq(Seq(Token))
    BY <1>5, PieceIs
  <2>2. Piece(k, b, L) = p
    BY <1>1, <1>5, PieceSame
  <2>3. Piece(k, b, L + 1) = Append(p, x.text)
    <3>1. L \in 0..Len(k) /\ L + 1 <= Len(k)
      BY <1>1, <1>2
    <3>2. Piece(k, b, L + 1) = Append(Piece(k, b, L), k[L + 1].text)
      BY <3>1, <1>1, <1>5, PieceMore
    <3> QED BY <3>2, <2>2, <1>1
  <2>4. x.text \in Seq(Token)
    BY DEF PhysicalLine
  <2> HIDE DEF p
  <2>5. FlattenSeq(Append(p, x.text)) = FlattenSeq(p) \o x.text
    <3> DEFINE y == x.text
    <3>1. y \in Seq(Token)
      BY <2>4
    <3> HIDE DEF y
    <3>2. FlattenSeq(Append(p, y)) = FlattenSeq(p) \o y
      BY <2>1, <3>1, FlattenAppend
    <3> QED BY <3>2 DEF y
  <2> QED BY <2>3, <2>5, <1>6 DEF p
<1>8. ASSUME x.more PROVE Held(k, text \o x.text)
  <2> SUFFICES ASSUME NEW c, Begins(k, c, Len(k) + 1)
               PROVE  text \o x.text = FlattenSeq(Piece(k, c, Len(k)))
    BY DEF Held
  <2>1. Begins(k, b, L + 2)
    <3>1. L + 1 \notin Ends(k)
      BY <1>1, <1>2, <1>8
    <3>2. \A y \in b..((L + 2) - 1) : y = L + 1 \/ y \in b..((L + 1) - 1)
      BY <1>2, <1>5
    <3>3. b \in 1..(L + 2)
      BY <1>5
    <3>4. Ends(k) \cap b..((L + 2) - 1) = {}
      BY <3>1, <3>2, <1>4 DEF Begins
    <3> QED BY <3>3, <3>4, <1>4 DEF Begins
  <2>2. Len(k) + 1 = L + 2 /\ L + 2 \in Nat
    BY <1>1, <1>2
  <2>3. c = b
    BY <2>1, <2>2, BeginOnly
  <2> QED BY <2>3, <1>1, <1>7
<1>9. ASSUME ~x.more PROVE Text(k, L + 1) = text \o x.text /\ Held(k, <<>>)
  <2>1. Text(k, L + 1) = text \o x.text
    <3>1. L + 1 \in Nat
      BY <1>2
    <3> QED BY <3>1, <1>4, <1>7, TextIs
  <2>2. Held(k, <<>>)
    <3> SUFFICES ASSUME NEW c, Begins(k, c, Len(k) + 1)
                 PROVE  <<>> = FlattenSeq(Piece(k, c, Len(k)))
      BY DEF Held
    <3>1. Begins(k, L + 2, L + 2)
      <4>1. L + 2 \in 1..(L + 2) /\ (L + 2) - 1 = L + 1 /\ (L + 2)..((L + 2) - 1) = {}
        BY <1>2
      <4>2. L + 1 \in Ends(k)
        BY <1>1, <1>9
      <4> QED BY <4>1, <4>2 DEF Begins
    <3>2. Len(k) + 1 = L + 2 /\ L + 2 \in Nat
      BY <1>1, <1>2
    <3>3. c = L + 2
      BY <3>1, <3>2, BeginOnly
    <3>4. Len(k) - c + 1 = 0
      BY <3>3, <1>1, <1>2
    <3>5. Piece(k, c, Len(k)) = <<>>
      BY <3>4 DEF Piece
    <3> QED BY <3>5 DEF FlattenSeq
  <2> QED BY <2>1, <2>2
<1> QED BY <1>8, <1>9 DEF k

-----------------------------------------------------------------------------
(* Sections.                                                               *)
Nameless(lines) ==
  \A e \in Ends(lines) :
    HeaderLine(Text(lines, e)) /\ Text(lines, e)[2] = "]" => Len(Text(lines, e)) = 2

HeadersTo(lines, e) == {h \in Ends(lines) : h <= e /\ HeaderLine(Text(lines, h))}
NamedTo(lines, e) == {h \in HeadersTo(lines, e) : Len(Text(lines, h)) > 2}
NameIn(text) == Lower(UpTo(Tail(text), {"]"}))
SectionBy(headers, named, text) ==
  IF named = {} THEN <<>>
  ELSE IF Latest(headers) = Latest(named) THEN NameIn(text)
  ELSE <<FirstLetter(NameIn(text)[1])>>

(* The section of a line, by the headers up to it. *)
LEMMA SectionOfIs ==
  ASSUME NEW lines, NEW e
  PROVE  SectionOf(lines, e) =
           SectionBy(HeadersTo(lines, e), NamedTo(lines, e), Text(lines, Latest(NamedTo(lines, e))))
BY DEF SectionOf, SectionBy, HeadersTo, NamedTo, NameIn

(* The latest of some lines is one of them, and there is none after it. *)
LEMMA LatestIs ==
  ASSUME NEW S, NEW b \in Nat, S \subseteq 1..b, S # {}
  PROVE  Latest(S) \in S /\ \A e \in S : e <= Latest(S)
<1>1. S \subseteq 0..b
  OBVIOUS
<1>2. \E e \in S : \A f \in S : f <= e
  BY <1>1, GreatestNumber
<1> QED BY <1>2 DEF Latest

(* A line with none after it is the latest. *)
LEMMA LatestOnly ==
  ASSUME NEW S, NEW b \in Nat, S \subseteq 1..b, NEW l \in S, \A e \in S : e <= l
  PROVE  Latest(S) = l
<1>1. Latest(S) \in S /\ \A e \in S : e <= Latest(S)
  BY LatestIs
<1> DEFINE x == Latest(S)
<1>2. x \in S /\ l <= x /\ x <= l
  BY <1>1
<1> HIDE DEF x
<1>3. x \in Nat /\ l \in Nat
  BY <1>2
<1>4. x = l
  BY <1>2, <1>3
<1> QED BY <1>4 DEF x

(* Files that are the same up to a line are in the same section there.     *)
LEMMA SectionSame ==
  ASSUME NEW lines, NEW other, NEW n, Agree(lines, other, n),
         NEW e, NEW f, e \in Nat, f \in Nat,
         \A h \in HeadersTo(lines, e) \cup HeadersTo(other, f) : h \in 1..n /\ h <= e /\ h <= f
  PROVE  SectionOf(lines, e) = SectionOf(other, f)
<1> DEFINE H == HeadersTo(lines, e)
           K == HeadersTo(other, f)
           N == NamedTo(lines, e)
           M == NamedTo(other, f)
<1>1. \A h \in 1..n : Text(lines, h) = Text(other, h) /\ (h \in Ends(lines) <=> h \in Ends(other))
  BY TextSame, EndsSame
<1>2. \A h \in H \cup K : h \in 1..n /\ h <= e /\ h <= f
  OBVIOUS
<1>3. \A h : h \in H <=> h \in Ends(lines) /\ h <= e /\ HeaderLine(Text(lines, h))
  BY DEF HeadersTo
<1>4. \A h : h \in K <=> h \in Ends(other) /\ h <= f /\ HeaderLine(Text(other, h))
  BY DEF HeadersTo
<1>5. /\ \A h : h \in N <=> h \in H /\ Len(Text(lines, h)) > 2
      /\ \A h : h \in M <=> h \in K /\ Len(Text(other, h)) > 2
  BY DEF NamedTo
<1> HIDE DEF H, K, N, M
<1>6. H = K
  <2>1. ASSUME NEW h \in H PROVE h \in K
    <3>1. h \in 1..n /\ h <= f /\ h \in Ends(lines) /\ HeaderLine(Text(lines, h))
      BY <1>2, <1>3
    <3>2. h \in Ends(other) /\ HeaderLine(Text(other, h))
      BY <3>1, <1>1
    <3> QED BY <3>1, <3>2, <1>4
  <2>2. ASSUME NEW h \in K PROVE h \in H
    <3>1. h \in 1..n /\ h <= e /\ h \in Ends(other) /\ HeaderLine(Text(other, h))
      BY <1>2, <1>4
    <3>2. h \in Ends(lines) /\ HeaderLine(Text(lines, h))
      BY <3>1, <1>1
    <3> QED BY <3>1, <3>2, <1>3
  <2> QED BY <2>1, <2>2
<1>7. N = M
  <2>1. \A h : h \in N <=> h \in M
    <3> TAKE h
    <3>1. h \in H => Text(lines, h) = Text(other, h)
      BY <1>1, <1>2
    <3> QED BY <3>1, <1>5, <1>6
  <2> QED BY <2>1
<1>8. N # {} => Text(lines, Latest(N)) = Text(other, Latest(N))
  <2> HAVE N # {}
  <2>1. n \in Nat /\ N \subseteq 1..n
    BY <1>2, <1>5 DEF Agree
  <2>2. Latest(N) \in N
    BY <2>1, LatestIs
  <2>3. Latest(N) \in 1..n
    BY <2>1, <2>2
  <2> QED BY <2>3, <1>1
<1>9. SectionBy(H, N, Text(lines, Latest(N))) = SectionBy(K, M, Text(other, Latest(M)))
  BY <1>6, <1>7, <1>8 DEF SectionBy
<1> QED BY <1>9, SectionOfIs DEF H, K, N, M

(* UpTo goes up to the first token of a set.                               *)
LEMMA UpToIs ==
  ASSUME NEW S, NEW text \in Seq(S), NEW stop
  PROVE  /\ UpTo(text, stop) \in Seq(S)
         /\ text # <<>> => (UpTo(text, stop) = <<>> <=> text[1] \in stop)
<1> DEFINE I == {i \in 1..Len(text) : text[i] \in stop}
           i == SelectInSeq(text, LAMBDA t : t \in stop)
           u == SubSeq(text, 1, i - 1)
<1>1. i = IF I # {} THEN Min(I) ELSE 0
  BY DEF SelectInSeq
<1>2. UpTo(text, stop) = IF i = 0 THEN text ELSE u
  BY DEF UpTo
<1>3. Len(text) \in Nat
  OBVIOUS
<1> HIDE DEF i
<1>4. CASE I = {}
  <2>1. i = 0
    BY <1>1, <1>4
  <2>2. text # <<>> => Len(text) \in Nat \ {0}
    BY EmptySeq
  <2>3. text # <<>> => text[1] \notin stop
    BY <2>2, <1>4
  <2> QED BY <2>1, <2>3, <1>2
<1>5. CASE I # {}
  <2>1. \E x \in I : \A y \in I : x <= y
    <3>1. I \subseteq Nat
      OBVIOUS
    <3> HIDE DEF I
    <3> QED BY <3>1, <1>5, LeastNumber
  <2>2. i \in I /\ \A y \in I : i <= y
    BY <2>1, <1>1, <1>5 DEF Min
  <2>3. i \in 1..Len(text) /\ text[i] \in stop
    BY <2>2
  <2>4. \A j \in 1..(i - 1) : text[j] \in S
    BY <2>3, <1>3
  <2>5. u \in Seq(S) /\ Len(u) = IF 1 <= i - 1 THEN (i - 1) - 1 + 1 ELSE 0
    BY <2>3, <2>4, SubSeqProperties
  <2>6. u = <<>> <=> i = 1
    <3>1. Len(u) = i - 1
      BY <2>3, <2>5
    <3>2. u = <<>> <=> Len(u) = 0
      BY <2>5, EmptySeq
    <3> HIDE DEF u
    <3> QED BY <3>1, <3>2, <2>3
  <2>7. i = 1 <=> text[1] \in stop
    <3>1. text[1] \in stop => 1 \in I
      BY <2>3, <1>3
    <3> QED BY <3>1, <2>2, <2>3
  <2> HIDE DEF u, I
  <2> QED BY <2>3, <2>5, <2>6, <2>7, <1>2
<1> QED BY <1>4, <1>5

(* The name in a header that has one.                                      *)
LEMMA NameIs ==
  ASSUME NEW text \in Seq(Token), HeaderLine(text),
         text[2] = "]" => Len(text) = 2
  PROVE  /\ Len(text) > 2 <=> UpTo(Tail(text), {"]"}) # <<>>
         /\ Len(text) > 2 => NameIn(text) # <<>> /\ DOMAIN NameIn(text) = DOMAIN UpTo(Tail(text), {"]"})
<1>1. /\ text # <<>> /\ text[1] = "[" /\ text[Len(text)] = "]" /\ Len(text) > 1
  BY DEF HeaderLine, IsHeader, Last
<1> DEFINE t == Tail(text)
           u == UpTo(t, {"]"})
<1>2. t \in Seq(Token) /\ Len(t) = Len(text) - 1 /\ t[1] = text[2]
  <2>1. t \in Seq(Token) /\ Len(t) = Len(text) - 1 /\ \A i \in 1..Len(t) : t[i] = text[i + 1]
    BY <1>1, HeadTailProperties
  <2> QED BY <2>1, <1>1
<1> HIDE DEF t
<1>3. t # <<>>
  BY <1>1, <1>2, EmptySeq
<1>4. u \in Seq(Token) /\ (u = <<>> <=> t[1] \in {"]"})
  BY <1>2, <1>3, UpToIs
<1>5. Len(text) = 2 <=> text[2] = "]"
  BY <1>1
<1>6. Len(text) \in Nat
  OBVIOUS
<1>7. Len(text) > 2 <=> u # <<>>
  BY <1>1, <1>2, <1>4, <1>5, <1>6
<1> HIDE DEF u
<1>8. DOMAIN Lower(u) = DOMAIN u
  BY DEF Lower
<1>9. u # <<>> => Lower(u) # <<>>
  <2> HAVE u # <<>>
  <2>1. Len(u) \in Nat \ {0} /\ DOMAIN u = 1..Len(u)
    BY <1>4, EmptySeq, LenProperties
  <2>2. 1 \in DOMAIN Lower(u)
    BY <2>1, <1>8
  <2>3. DOMAIN <<>> = {}
    OBVIOUS
  <2> QED BY <2>2, <2>3
<1> QED BY <1>7, <1>8, <1>9 DEF NameIn, u, t

(* A section cut to a letter is not cut further.                           *)
LEMMA FirstLetterOnce ==
  ASSUME NEW word
  PROVE  FirstLetter(FirstLetter(word)) = FirstLetter(word)
BY IniAssumption DEF FirstLetter

(* One more line that is no header leaves the section as it was; the lines *)
(* before it stay in the sections they were in.                            *)
LEMMA SectionStays ==
  ASSUME NEW lines \in Seq(PhysicalLine), NEW x \in PhysicalLine
  PROVE  /\ \A e \in 0..Len(lines) : SectionOf(Append(lines, x), e) = SectionOf(lines, e)
         /\ x.more \/ ~HeaderLine(Text(Append(lines, x), Len(lines) + 1)) =>
              SectionOf(Append(lines, x), Len(lines) + 1) = SectionOf(lines, Len(lines))
<1> DEFINE k == Append(lines, x)
           L == Len(lines)
<1>1. /\ k \in Seq(PhysicalLine) /\ Len(k) = L + 1 /\ Agree(lines, k, L)
      /\ Ends(k) = IF x.more THEN Ends(lines) ELSE Ends(lines) \cup {L + 1}
  BY MoreLines
<1>2. L \in Nat /\ Ends(lines) \subseteq 1..L
  BY LineIs
<1> HIDE DEF k, L
<1>3. \A h \in Ends(k) : h \in 1..L \/ (h = L + 1 /\ ~x.more)
  BY <1>1, <1>2
<1>4. ASSUME NEW e \in 0..L PROVE SectionOf(k, e) = SectionOf(lines, e)
  <2>1. e \in Nat
    BY <1>2
  <2>2. \A h \in HeadersTo(lines, e) \cup HeadersTo(k, e) : h \in 1..L /\ h <= e
    BY <1>2, <1>3 DEF HeadersTo
  <2> QED BY <2>1, <2>2, <1>1, SectionSame
<1>5. ASSUME x.more \/ ~HeaderLine(Text(k, L + 1)) PROVE SectionOf(k, L + 1) = SectionOf(lines, L)
  <2>1. L + 1 \in Nat
    BY <1>2
  <2>2. \A h \in HeadersTo(lines, L) : h \in 1..L /\ h <= L /\ h <= L + 1
    BY <1>2 DEF HeadersTo
  <2>3. \A h \in HeadersTo(k, L + 1) : h \in 1..L /\ h <= L /\ h <= L + 1
    <3> TAKE h \in HeadersTo(k, L + 1)
    <3>1. h \in Ends(k) /\ HeaderLine(Text(k, h))
      BY DEF HeadersTo
    <3>2. h # L + 1 \/ x.more
      BY <3>1, <1>5
    <3>3. h \in 1..L
      BY <3>1, <3>2, <1>3
    <3> QED BY <3>3, <1>2
  <2>4. \A h \in HeadersTo(lines, L) \cup HeadersTo(k, L + 1) : h \in 1..L /\ h <= L /\ h <= L + 1
    BY <2>2, <2>3
  <2> QED BY <2>1, <2>4, <1>1, <1>2, SectionSame
<1> QED BY <1>4, <1>5 DEF k, L

(* A header line starts the section Section says it does.                  *)
LEMMA SectionStarts ==
  ASSUME NEW lines \in Seq(PhysicalLine), NEW x \in PhysicalLine, ~x.more,
         Nameless(Append(lines, x)),
         HeaderLine(Text(Append(lines, x), Len(lines) + 1))
  PROVE  SectionOf(Append(lines, x), Len(lines) + 1) =
           Section(Text(Append(lines, x), Len(lines) + 1), SectionOf(lines, Len(lines)))
<1> DEFINE k == Append(lines, x)
           L == Len(lines)
           t == Text(k, L + 1)
           H == HeadersTo(lines, L)
           N == NamedTo(lines, L)
           HH == HeadersTo(k, L + 1)
           NN == NamedTo(k, L + 1)
           s == SectionOf(lines, L)
<1>1. /\ k \in Seq(PhysicalLine) /\ Len(k) = L + 1 /\ Agree(lines, k, L)
      /\ Ends(k) = Ends(lines) \cup {L + 1}
  BY MoreLines
<1>2. L \in Nat /\ Ends(lines) \subseteq 1..L
  BY LineIs
<1>3. Nameless(k) /\ HeaderLine(t)
  OBVIOUS
<1>4. /\ SectionOf(k, L + 1) = SectionBy(HH, NN, Text(k, Latest(NN)))
      /\ s = SectionBy(H, N, Text(lines, Latest(N)))
  BY SectionOfIs
<1>5. \A h : h \in HH <=> h \in Ends(k) /\ h <= L + 1 /\ HeaderLine(Text(k, h))
  BY DEF HeadersTo
<1>6. \A h : h \in H <=> h \in Ends(lines) /\ h <= L /\ HeaderLine(Text(lines, h))
  BY DEF HeadersTo
<1>7. /\ \A h : h \in NN <=> h \in HH /\ Len(Text(k, h)) > 2
      /\ \A h : h \in N <=> h \in H /\ Len(Text(lines, h)) > 2
  BY DEF NamedTo
<1>8. t \in Seq(Token)
  <2> HIDE DEF k, L
  <2>1. L + 1 \in 1..Len(k)
    BY <1>1, <1>2
  <2> QED BY <2>1, <1>1, TextTypes
<1> HIDE DEF k, L, H, N, HH, NN, s
<1>9. \A h \in 1..L : Text(lines, h) = Text(k, h)
  BY <1>1, TextSame
<1>10. \A h : h \in HH <=> h \in H \/ h = L + 1
  <2> TAKE h
  <2>1. h \in H => h \in HH
    BY <1>1, <1>2, <1>5, <1>6, <1>9
  <2>2. h = L + 1 => h \in HH
    BY <1>1, <1>2, <1>3, <1>5
  <2>3. h \in HH => h \in H \/ h = L + 1
    <3> HAVE h \in HH
    <3>1. h \in Ends(lines) \/ h = L + 1
      BY <1>1, <1>5
    <3>2. h \in Ends(lines) => h \in 1..L /\ h <= L
      BY <1>2
    <3>3. h \in Ends(lines) => h \in H
      BY <3>2, <1>5, <1>6, <1>9
    <3> QED BY <3>1, <3>3
  <2> QED BY <2>1, <2>2, <2>3
<1>11. \A h : h \in NN <=> h \in N \/ (h = L + 1 /\ Len(t) > 2)
  <2> TAKE h
  <2>1. h \in H => h \in 1..L /\ h # L + 1
    BY <1>2, <1>6
  <2>2. h \in H => (h \in NN <=> h \in N)
    BY <2>1, <1>7, <1>9, <1>10
  <2>3. h = L + 1 => (h \in NN <=> Len(t) > 2)
    BY <1>7, <1>10
  <2> QED BY <2>1, <2>2, <2>3, <1>7, <1>10
<1>12. N \subseteq 1..L /\ NN \subseteq 1..(L + 1) /\ HH \subseteq 1..(L + 1) /\ H \subseteq 1..L
  BY <1>2, <1>6, <1>7, <1>10, <1>11
<1>13. L + 1 \in Nat /\ \A h \in 1..(L + 1) : h <= L + 1
  BY <1>2
<1>14. Latest(HH) = L + 1
  BY <1>10, <1>12, <1>13, LatestOnly
<1>15. L + 1 \in Ends(k) /\ (t[2] = "]" => Len(t) = 2)
  BY <1>1, <1>3 DEF Nameless
<1>16. /\ Len(t) > 2 <=> UpTo(Tail(t), {"]"}) # <<>>
       /\ Len(t) > 1
  BY <1>3, <1>8, <1>15, NameIs DEF HeaderLine, IsHeader
<1>17. CASE Len(t) > 2
  <2>1. L + 1 \in NN
    BY <1>11, <1>17
  <2>2. Latest(NN) = L + 1
    BY <2>1, <1>12, <1>13, LatestOnly
  <2>3. SectionOf(k, L + 1) = NameIn(t)
    BY <2>1, <2>2, <1>4, <1>14 DEF SectionBy
  <2>4. Section(t, s) = NameIn(t)
    BY <1>16, <1>17 DEF Section, NameIn
  <2> QED BY <2>3, <2>4 DEF t, k, L, s
<1>18. CASE ~(Len(t) > 2)
  <2>1. NN = N
    BY <1>11, <1>18
  <2>2. Section(t, s) = IF s = <<>> THEN s ELSE <<FirstLetter(s[1])>>
    BY <1>16, <1>18 DEF Section
  <2>3. CASE N = {}
    <3>1. SectionOf(k, L + 1) = <<>> /\ s = <<>>
      BY <2>1, <2>3, <1>4 DEF SectionBy
    <3> QED BY <3>1, <2>2 DEF t, k, L, s
  <2>4. CASE N # {}
    <3> DEFINE l == Latest(N)
               name == NameIn(Text(lines, l))
    <3>1. l \in N
      BY <2>4, <1>2, <1>12, LatestIs
    <3> HIDE DEF l
    <3>2. l \in 1..L /\ l \in H /\ Len(Text(lines, l)) > 2 /\ l # L + 1
      BY <3>1, <1>2, <1>7, <1>12
    <3>3. Text(k, l) = Text(lines, l) /\ l \in Ends(k) /\ HeaderLine(Text(lines, l))
      BY <3>2, <1>1, <1>6, <1>9
    <3>4. Text(lines, l) \in Seq(Token)
      BY <3>2, TextTypes DEF L
    <3>5. Text(lines, l)[2] = "]" => Len(Text(lines, l)) = 2
      BY <3>3, <1>3 DEF Nameless
    <3>6. name # <<>>
      BY <3>2, <3>3, <3>4, <3>5, NameIs
    <3> HIDE DEF name
    <3>7. s = name \/ s = <<FirstLetter(name[1])>>
      BY <2>4, <1>4 DEF SectionBy, name, l
    <3>8. SectionOf(k, L + 1) = <<FirstLetter(name[1])>>
      BY <2>1, <2>4, <3>2, <3>3, <1>4, <1>14 DEF SectionBy, name, l
    <3>9. s # <<>> /\ <<FirstLetter(s[1])>> = <<FirstLetter(name[1])>>
      <4>1. CASE s = name
        BY <4>1, <3>6
      <4>2. CASE s = <<FirstLetter(name[1])>>
        <5>1. s # <<>> /\ s[1] = FirstLetter(name[1])
          BY <4>2
        <5> QED BY <5>1, FirstLetterOnce
      <4> QED BY <4>1, <4>2, <3>7
    <3> QED BY <3>8, <3>9, <2>2 DEF t, k, L, s
  <2> QED BY <2>3, <2>4
<1> QED BY <1>17, <1>18

-----------------------------------------------------------------------------
(* Entries: what a logical line adds to what a file says.                  *)
HeaderEntry(lines, e) == [line |-> e, key |-> SectionOf(lines, e), value |-> Null]
PairEntry(lines, e) ==
  [line |-> e, key |-> EntryKey(SectionOf(lines, e), Key(Text(lines, e))),
   value |-> Value(Text(lines, e))]

Says(lines, e, y) ==
  \/ HeaderLine(Text(lines, e)) /\ y = HeaderEntry(lines, e)
  \/ PairLine(Text(lines, e)) /\ y = PairEntry(lines, e)

(* An entry is what some line says.                                        *)
LEMMA EntriesAre ==
  ASSUME NEW lines, NEW y
  PROVE  y \in Entries(lines) <=> \E e \in Ends(lines) : Says(lines, e, y)
<1> DEFINE A == {x \in Ends(lines) : HeaderLine(Text(lines, x))}
           B == {x \in Ends(lines) : PairLine(Text(lines, x))}
<1>1. Entries(lines) = {HeaderEntry(lines, e) : e \in A} \cup {PairEntry(lines, e) : e \in B}
  BY DEF Entries, HeaderEntry, PairEntry
<1>2. y \in Entries(lines) <=> \/ \E e \in A : y = HeaderEntry(lines, e)
                               \/ \E e \in B : y = PairEntry(lines, e)
  BY <1>1
<1> QED BY <1>2 DEF Says

(* The lines before one more say what they said.                           *)
LEMMA SaysSame ==
  ASSUME NEW lines \in Seq(PhysicalLine), NEW x \in PhysicalLine,
         NEW e \in 1..Len(lines), NEW y
  PROVE  Says(Append(lines, x), e, y) <=> Says(lines, e, y)
<1> DEFINE k == Append(lines, x)
<1>1. Agree(lines, k, Len(lines))
  BY MoreLines
<1>2. Text(lines, e) = Text(k, e)
  BY <1>1, TextSame
<1>3. e \in 0..Len(lines)
  OBVIOUS
<1>4. SectionOf(k, e) = SectionOf(lines, e)
  BY <1>3, SectionStays
<1> QED BY <1>2, <1>4 DEF Says, HeaderEntry, PairEntry

(* One more line says at most one thing more.                              *)
LEMMA EntriesMore ==
  ASSUME NEW lines \in Seq(PhysicalLine), NEW x \in PhysicalLine
  PROVE  /\ \A y \in Entries(lines) : y.line \in 1..Len(lines)
         /\ Entries(Append(lines, x)) =
              Entries(lines) \cup
                (IF x.more THEN {}
                 ELSE IF HeaderLine(Text(Append(lines, x), Len(lines) + 1))
                 THEN {HeaderEntry(Append(lines, x), Len(lines) + 1)}
                 ELSE IF PairLine(Text(Append(lines, x), Len(lines) + 1))
                 THEN {PairEntry(Append(lines, x), Len(lines) + 1)}
                 ELSE {})
<1> DEFINE k == Append(lines, x)
           L == Len(lines)
           t == Text(k, L + 1)
           new == IF x.more THEN {} ELSE IF HeaderLine(t) THEN {HeaderEntry(k, L + 1)}
                  ELSE IF PairLine(t) THEN {PairEntry(k, L + 1)} ELSE {}
<1>1. Ends(k) = IF x.more THEN Ends(lines) ELSE Ends(lines) \cup {L + 1}
  BY MoreLines
<1>2. L \in Nat /\ Ends(lines) \subseteq 1..L
  BY LineIs
<1>3. \A e \in 1..L : \A y : Says(k, e, y) <=> Says(lines, e, y)
  BY SaysSame
<1>4. \A y : y \in Entries(lines) <=> \E e \in Ends(lines) : Says(lines, e, y)
  BY EntriesAre
<1>5. \A y : y \in Entries(k) <=> \E e \in Ends(k) : Says(k, e, y)
  BY EntriesAre
<1>6. \A y : y \in new <=> ~x.more /\ Says(k, L + 1, y)
  <2>1. HeaderLine(t) => ~PairLine(t)
    BY DEF HeaderLine, PairLine
  <2> HIDE DEF t
  <2> QED BY <2>1 DEF Says, t
<1> HIDE DEF new, k, L
<1>7. \A y : y \in Entries(k) <=> y \in Entries(lines) \cup new
  <2> TAKE y
  <2>1. y \in Entries(lines) => y \in Entries(k)
    BY <1>1, <1>2, <1>3, <1>4, <1>5
  <2>2. y \in new => y \in Entries(k)
    BY <1>1, <1>5, <1>6
  <2>3. y \in Entries(k) => y \in Entries(lines) \cup new
    <3> HAVE y \in Entries(k)
    <3>1. PICK e \in Ends(k) : Says(k, e, y)
      BY <1>5
    <3>2. e \in Ends(lines) \/ (e = L + 1 /\ ~x.more)
      BY <1>1
    <3> QED BY <3>1, <3>2, <1>2, <1>3, <1>4, <1>6
  <2> QED BY <2>1, <2>2, <2>3
<1>8. \A y \in Entries(lines) : y.line \in 1..L
  <2> TAKE y \in Entries(lines)
  <2>1. PICK e \in Ends(lines) : Says(lines, e, y)
    BY <1>4
  <2>2. y.line = e
    BY <2>1 DEF Says, HeaderEntry, PairEntry
  <2> QED BY <2>1, <2>2, <1>2
<1>9. Entries(k) = Entries(lines) \cup new
  BY <1>7
<1> QED BY <1>8, <1>9 DEF new, k, L

(* What entries mean, as a function.                                       *)
KeysOf(entries) == {y.key : y \in entries}
MeaningOf(entries) == [key \in KeysOf(entries) |-> Meant(entries, key)]
LastOf(entries) == CHOOSE y \in entries : \A u \in entries : u.line <= y.line

(* An entry after all others is what its key means; it changes no other.   *)
LEMMA MeaningMore ==
  ASSUME NEW E, NEW n \in Nat, \A y \in E : y.line \in 1..n, NEW z, z.line = n + 1
  PROVE  MeaningOf(E \cup {z}) = With(MeaningOf(E), z.key, z.value)
<1> DEFINE F == E \cup {z}
<1>1. KeysOf(F) = KeysOf(E) \cup {z.key}
  <2>1. \A k : k \in KeysOf(F) <=> k \in KeysOf(E) \cup {z.key}
    BY DEF KeysOf
  <2> QED BY <2>1
<1>2. ASSUME NEW k, k # z.key PROVE Meant(F, k) = Meant(E, k)
  <2> DEFINE A == {y \in F : y.key = k}
             B == {y \in E : y.key = k}
  <2>1. A = B
    BY <1>2
  <2>2. /\ Meant(F, k) = IF A = {} THEN Absent ELSE LastOf(A).value
        /\ Meant(E, k) = IF B = {} THEN Absent ELSE LastOf(B).value
    BY DEF Meant, LastOf
  <2> HIDE DEF A, B, F
  <2> QED BY <2>1, <2>2
<1>3. Meant(F, z.key) = z.value
  <2> DEFINE of == {y \in F : y.key = z.key}
  <2>1. z \in of
    OBVIOUS
  <2>2. \A y \in of : y.line <= z.line
    BY SMT
  <2>3. \A y \in of : (\A u \in of : u.line <= y.line) => y = z
    BY SMT
  <2>4. Meant(F, z.key) = (CHOOSE y \in of : \A u \in of : u.line <= y.line).value
    BY <2>1 DEF Meant
  <2> HIDE DEF of
  <2>5. (CHOOSE y \in of : \A u \in of : u.line <= y.line) = z
    BY <2>1, <2>2, <2>3
  <2> QED BY <2>4, <2>5
<1>4. DOMAIN MeaningOf(E) = KeysOf(E) /\ \A k \in KeysOf(E) : MeaningOf(E)[k] = Meant(E, k)
  BY DEF MeaningOf
<1> HIDE DEF F
<1>5. \A k \in KeysOf(F) : Meant(F, k) = IF k = z.key THEN z.value ELSE MeaningOf(E)[k]
  BY <1>1, <1>2, <1>3, <1>4
<1>6. MeaningOf(F) = [k \in KeysOf(F) |-> IF k = z.key THEN z.value ELSE MeaningOf(E)[k]]
  BY <1>5 DEF MeaningOf
<1>7. KeysOf(F) = DOMAIN MeaningOf(E) \cup {z.key}
  BY <1>1, <1>4
<1>8. MeaningOf(F) = With(MeaningOf(E), z.key, z.value)
  BY <1>6, <1>7 DEF With
<1> QED BY <1>8 DEF F

(* What a key means is what some entry for it says.                        *)
LEMMA MeantIs ==
  ASSUME NEW E, NEW n \in Nat, \A y \in E : y.line \in 1..n, NEW key \in KeysOf(E)
  PROVE  \E y \in E : y.key = key /\ y.value = Meant(E, key)
<1> DEFINE of == {y \in E : y.key = key}
           N == {y.line : y \in of}
<1>1. of # {} /\ of \subseteq E
  BY DEF KeysOf
<1>2. N # {} /\ N \subseteq 0..n
  BY <1>1
<1>3. PICK l \in N : \A m \in N : m <= l
  <2> HIDE DEF N
  <2> QED BY <1>2, GreatestNumber
<1>4. PICK y \in of : y.line = l
  OBVIOUS
<1>5. \A u \in of : u.line <= y.line
  BY <1>3, <1>4
<1>6. Meant(E, key) = (CHOOSE v \in of : \A u \in of : u.line <= v.line).value
  BY <1>1 DEF Meant
<1> HIDE DEF of
<1>7. \E v \in of : v.value = Meant(E, key)
  BY <1>4, <1>5, <1>6
<1> QED BY <1>7 DEF of

-----------------------------------------------------------------------------
(* A value is made of tokens, so it is none of the texts that mark a value *)
(* that is missing.                                                        *)
LEMMA AfterIs ==
  ASSUME NEW S, NEW text \in Seq(S), NEW t
  PROVE  After(text, t) \in Seq(S)
<1> DEFINE I == {i \in 1..Len(text) : text[i] = t}
           i == SelectInSeq(text, LAMBDA u : u = t)
<1>1. i = IF I # {} THEN Min(I) ELSE 0
  BY DEF SelectInSeq
<1>2. After(text, t) = SubSeq(text, i + 1, Len(text))
  BY DEF After
<1>3. Len(text) \in Nat /\ \A j \in 1..Len(text) : text[j] \in S
  OBVIOUS
<1> HIDE DEF i
<1>4. i \in 0..Len(text)
  <2>1. CASE I = {}
    BY <2>1, <1>1, <1>3
  <2>2. CASE I # {}
    <3>1. I \subseteq Nat
      OBVIOUS
    <3>2. \E x \in I : \A y \in I : x <= y
      <4> HIDE DEF I
      <4> QED BY <2>2, <3>1, LeastNumber
    <3>3. i \in I
      BY <2>2, <3>2, <1>1 DEF Min
    <3> QED BY <3>3
  <2> QED BY <2>1, <2>2
<1>5. i + 1 \in Int /\ Len(text) \in Int /\ \A j \in (i + 1)..Len(text) : text[j] \in S
  BY <1>3, <1>4
<1>6. SubSeq(text, i + 1, Len(text)) \in Seq(S)
  BY <1>5, SubSeqProperties
<1> QED BY <1>2, <1>6

(* So no value is the text that stands for a missing one. *)
LEMMA ValueIs ==
  ASSUME NEW text \in Seq(Token)
  PROVE  Value(text) \in Seq(Token) /\ Value(text) # Absent /\ Value(text) # Null
<1> DEFINE v == After(text, "=")
           t == Tail(v)
<1>1. v \in Seq(Token)
  BY AfterIs
<1>2. Value(text) \in {v, UpTo(t, {"quote"}), <<>>, UpTo(v, {"#"})}
  BY DEF Value
<1>3. <<>> \in Seq(Token)
  OBVIOUS
<1> HIDE DEF v
<1>4. UpTo(v, {"#"}) \in Seq(Token)
  BY <1>1, UpToIs
<1>5. v # <<>> => UpTo(t, {"quote"}) \in Seq(Token)
  <2> HAVE v # <<>>
  <2>1. t \in Seq(Token)
    BY <1>1, HeadTailProperties
  <2> HIDE DEF t
  <2> QED BY <2>1, UpToIs
<1>6. v = <<>> => Value(text) = <<>>
  BY DEF Value, v
<1>7. Value(text) \in Seq(Token)
  <2> HIDE DEF t
  <2> QED BY <1>1, <1>2, <1>3, <1>4, <1>5, <1>6
<1>8. \A w \in Seq(Token) : w # Absent /\ w # Null
  <2> TAKE w \in Seq(Token)
  <2>1. w # <<>> => w[1] \in Token
    BY EmptySeq
  <2>2. Absent # <<>> /\ Null # <<>> /\ Absent[1] = "absent" /\ Null[1] = "NULL pointer"
    BY DEF Absent, Null
  <2>3. "absent" \notin Token /\ "NULL pointer" \notin Token
    BY IniAssumption
  <2> QED BY <2>1, <2>2, <2>3
<1> QED BY <1>7, <1>8

-----------------------------------------------------------------------------
(* What a reader has taken in: the lines up to here, and nothing else.     *)
Readable(text) == text = <<>> \/ IsComment(text) \/ HeaderLine(text) \/ PairLine(text)

Reads(st, lines) ==
  /\ st = [dict |-> st.dict, section |-> st.section, held |-> st.held, errs |-> st.errs,
           fits |-> st.fits]
  /\ Held(lines, st.held)
  /\ st.section = SectionOf(lines, Len(lines))
  /\ Represents(st.dict, MeaningOf(Entries(lines)))
  /\ st.errs \in Nat
  /\ st.errs = 0 => \A e \in Ends(lines) : Readable(Text(lines, e))
  /\ \A i \in DOMAIN lines : lines[i].fits

(* A new reader has read nothing.                                          *)
LEMMA ReadsNothing == Reads(Reader, <<>>)
<1>1. Ends(<<>>) = {}
  BY DEF Ends
<1>2. SectionOf(<<>>, Len(<<>>)) = <<>>
  BY <1>1 DEF SectionOf
<1>3. Entries(<<>>) = {}
  BY <1>1 DEF Entries
<1>4. DOMAIN MeaningOf(Entries(<<>>)) = {}
  BY <1>3 DEF MeaningOf, KeysOf
<1>5. Represents(DictionaryNew, MeaningOf(Entries(<<>>)))
  BY <1>4, NewIs
<1>6. \A i \in DOMAIN <<>> : <<>>[i].fits
  OBVIOUS
<1> QED BY <1>1, <1>2, <1>5, <1>6, HeldAtFirst DEF Reads, Reader

(* One turn of iniparser_load takes in one more line.                      *)
LEMMA ReadsMore ==
  ASSUME NEW st, NEW lines \in Seq(PhysicalLine), NEW x \in PhysicalLine,
         Reads(st, lines), x.fits, Nameless(Append(lines, x))
  PROVE  Reads(TakeLine(st, x), Append(lines, x)) /\ TakeLine(st, x).fits = st.fits
<1> DEFINE k == Append(lines, x)
           L == Len(lines)
           t == Text(k, L + 1)
           E == Entries(lines)
           F == Entries(k)
           u == [st EXCEPT !.held = <<>>]
           s == SectionOf(k, L + 1)
<1>1. /\ k \in Seq(PhysicalLine) /\ Len(k) = L + 1
      /\ Agree(lines, k, L) /\ k[L + 1] = x
      /\ Ends(k) = IF x.more THEN Ends(lines) ELSE Ends(lines) \cup {L + 1}
  BY MoreLines
<1>2. L \in Nat /\ Ends(lines) \subseteq 1..L
  BY LineIs
<1>3. /\ st = [dict |-> st.dict, section |-> st.section, held |-> st.held, errs |-> st.errs,
               fits |-> st.fits]
      /\ Held(lines, st.held) /\ st.section = SectionOf(lines, L)
      /\ Represents(st.dict, MeaningOf(E)) /\ st.errs \in Nat
  BY DEF Reads
<1>4. /\ st.errs = 0 => \A e \in Ends(lines) : Readable(Text(lines, e))
      /\ \A i \in DOMAIN lines : lines[i].fits
  BY DEF Reads
<1>5. /\ x.more => Held(k, st.held \o x.text)
      /\ ~x.more => t = st.held \o x.text /\ Held(k, <<>>)
  BY <1>3, HeldMore
<1>6. /\ \A y \in E : y.line \in 1..L
      /\ F = E \cup (IF x.more THEN {} ELSE IF HeaderLine(t) THEN {HeaderEntry(k, L + 1)}
                     ELSE IF PairLine(t) THEN {PairEntry(k, L + 1)} ELSE {})
  BY EntriesMore
<1>7. x.more \/ ~HeaderLine(t) => s = SectionOf(lines, L)
  BY SectionStays
<1>8. ~x.more /\ HeaderLine(t) => s = Section(t, SectionOf(lines, L))
  BY SectionStarts
<1> HIDE DEF k, L
<1>9. \A i \in DOMAIN k : k[i].fits
  <2>1. DOMAIN k = 1..(L + 1) /\ DOMAIN lines = 1..L
    BY <1>1, LineIs DEF L
  <2>2. \A i \in 1..L : k[i] = lines[i]
    BY <1>1 DEF Agree, Alike
  <2>3. \A i \in 1..(L + 1) : i \in 1..L \/ i = L + 1
    BY <1>2
  <2> QED BY <2>1, <2>2, <2>3, <1>1, <1>4
<1>10. \A e \in Ends(lines) : Text(k, e) = Text(lines, e)
  BY <1>1, <1>2, TextSame
<1>11. \A e \in Ends(k) : e \in Ends(lines) \/ (e = L + 1 /\ ~x.more)
  BY <1>1
<1> HIDE DEF t, E, F, s
<1>12. CASE x.more
  <2> DEFINE h == st.held \o x.text
             r == [st EXCEPT !.held = h]
  <2>1. TakeLine(st, x) = r
    BY <1>12 DEF TakeLine
  <2>2. h = st.held \o x.text
    OBVIOUS
  <2> HIDE DEF h
  <2>3. /\ r.dict = st.dict /\ r.section = st.section /\ r.held = h
        /\ r.errs = st.errs /\ r.fits = st.fits
        /\ r = [dict |-> r.dict, section |-> r.section, held |-> r.held, errs |-> r.errs,
                fits |-> r.fits]
    BY <1>3
  <2> HIDE DEF r
  <2>4. F = E /\ s = st.section
    BY <1>3, <1>6, <1>7, <1>12
  <2>5. r.errs = 0 => \A e \in Ends(k) : Readable(Text(k, e))
    BY <2>3, <1>4, <1>10, <1>11, <1>12
  <2>6. Held(k, r.held) /\ r.section = SectionOf(k, Len(k)) /\ r.errs \in Nat
    BY <2>2, <2>3, <2>4, <1>1, <1>3, <1>5, <1>12 DEF s
  <2>7. Represents(r.dict, MeaningOf(Entries(k)))
    BY <2>3, <2>4, <1>3 DEF F
  <2>8. Reads(r, k)
    BY <2>3, <2>5, <2>6, <2>7, <1>9 DEF Reads
  <2> QED BY <2>1, <2>3, <2>8 DEF k
<1>13. CASE ~x.more
  <2>1. TakeLine(st, x) = IniparserLine(u, t)
    BY <1>5, <1>13 DEF TakeLine
  <2>2. /\ u.dict = st.dict /\ u.section = st.section /\ u.held = <<>>
        /\ u.errs = st.errs /\ u.fits = st.fits
        /\ u = [dict |-> u.dict, section |-> u.section, held |-> u.held, errs |-> u.errs,
                fits |-> u.fits]
    BY <1>3
  <2>3. Held(k, u.held)
    BY <2>2, <1>5, <1>13
  <2> HIDE DEF u
  <2>4. ASSUME NEW r, r.held = u.held, r.section = s, r.fits = u.fits,
               r = [dict |-> r.dict, section |-> r.section, held |-> r.held,
                    errs |-> r.errs, fits |-> r.fits],
               Represents(r.dict, MeaningOf(F)), r.errs \in Nat,
               r.errs = 0 => u.errs = 0 /\ Readable(t)
        PROVE  Reads(r, k) /\ r.fits = st.fits
    <3>1. r.errs = 0 => \A e \in Ends(k) : Readable(Text(k, e))
      BY <2>2, <2>4, <1>4, <1>10, <1>11 DEF t
    <3>2. Held(k, r.held) /\ r.section = SectionOf(k, Len(k))
      BY <2>3, <2>4, <1>1 DEF s
    <3> QED BY <2>2, <2>4, <3>1, <3>2, <1>9 DEF Reads, F
  <2> DEFINE r == IniparserLine(u, t)
  <2>5. CASE t = <<>> \/ IsComment(t)
    <3>1. r = u
      BY <2>5 DEF IniparserLine
    <3>2. ~HeaderLine(t) /\ ~PairLine(t) /\ Readable(t)
      BY <2>5 DEF HeaderLine, PairLine, Readable
    <3>3. F = E /\ s = u.section
      BY <3>2, <2>2, <1>3, <1>6, <1>7
    <3> HIDE DEF r
    <3>4. Reads(r, k) /\ r.fits = st.fits
      BY <2>2, <2>4, <3>1, <3>2, <3>3, <1>3
    <3> QED BY <3>4, <2>1 DEF k, r
  <2>6. CASE HeaderLine(t)
    <3> DEFINE sec == Section(t, u.section)
    <3>1. r = [u EXCEPT !.section = sec, !.dict = DictionarySet(@, sec, Null)]
      BY <2>6 DEF IniparserLine, HeaderLine
    <3>2. sec = s
      BY <2>2, <2>6, <1>3, <1>8, <1>13
    <3>3. /\ r.dict = DictionarySet(u.dict, s, Null) /\ r.section = s /\ r.held = u.held
          /\ r.errs = u.errs /\ r.fits = u.fits
          /\ r = [dict |-> r.dict, section |-> r.section, held |-> r.held,
                  errs |-> r.errs, fits |-> r.fits]
      BY <2>2, <3>1, <3>2
    <3> DEFINE z == HeaderEntry(k, L + 1)
    <3>4. F = E \cup {z}
      BY <2>6, <1>6, <1>13
    <3>5. z.line = L + 1 /\ z.key = s /\ z.value = Null
      BY DEF HeaderEntry, s
    <3> HIDE DEF r, z, sec
    <3>6. MeaningOf(F) = With(MeaningOf(E), s, Null)
      BY <3>4, <3>5, <1>2, <1>6, MeaningMore
    <3>7. Represents(r.dict, MeaningOf(F))
      BY <3>3, <3>6, <2>2, <1>3, SetIs
    <3>8. Readable(t)
      BY <2>6 DEF Readable
    <3>9. Reads(r, k) /\ r.fits = st.fits
      BY <2>2, <2>4, <3>3, <3>7, <3>8, <1>3
    <3> QED BY <3>9, <2>1 DEF k, r
  <2>7. CASE PairLine(t)
    <3> DEFINE key == EntryKey(u.section, Key(t))
    <3>1. r = [u EXCEPT !.dict = DictionarySet(@, key, Value(t))]
      BY <2>7 DEF IniparserLine, PairLine, HeaderLine
    <3>2. ~HeaderLine(t)
      BY <2>7 DEF PairLine, HeaderLine
    <3>3. s = u.section
      BY <2>2, <3>2, <1>3, <1>7
    <3>4. /\ r.dict = DictionarySet(u.dict, key, Value(t)) /\ r.section = s /\ r.held = u.held
          /\ r.errs = u.errs /\ r.fits = u.fits
          /\ r = [dict |-> r.dict, section |-> r.section, held |-> r.held,
                  errs |-> r.errs, fits |-> r.fits]
      BY <2>2, <3>1, <3>3
    <3> DEFINE z == PairEntry(k, L + 1)
    <3>5. F = E \cup {z}
      BY <2>7, <3>2, <1>6, <1>13
    <3>6. z.line = L + 1 /\ z.key = key /\ z.value = Value(t)
      BY <3>3 DEF PairEntry, s, t
    <3> HIDE DEF r, z, key
    <3>7. MeaningOf(F) = With(MeaningOf(E), key, Value(t))
      BY <3>5, <3>6, <1>2, <1>6, MeaningMore
    <3>8. Represents(r.dict, MeaningOf(F))
      BY <3>4, <3>7, <2>2, <1>3, SetIs
    <3>9. Readable(t)
      BY <2>7 DEF Readable
    <3>10. Reads(r, k) /\ r.fits = st.fits
      BY <2>2, <2>4, <3>4, <3>8, <3>9, <1>3
    <3> QED BY <3>10, <2>1 DEF k, r
  <2>8. CASE ~(t = <<>> \/ IsComment(t)) /\ ~HeaderLine(t) /\ ~PairLine(t)
    <3>1. r = [u EXCEPT !.errs = @ + 1]
      BY <2>8 DEF IniparserLine, HeaderLine, PairLine
    <3>2. /\ r.dict = u.dict /\ r.section = u.section /\ r.held = u.held
          /\ r.errs = u.errs + 1 /\ r.fits = u.fits
          /\ r = [dict |-> r.dict, section |-> r.section, held |-> r.held,
                  errs |-> r.errs, fits |-> r.fits]
      BY <2>2, <3>1
    <3>3. F = E /\ s = u.section
      BY <2>8, <2>2, <1>3, <1>6, <1>7
    <3>4. r.errs \in Nat /\ r.errs # 0
      BY <3>2, <2>2, <1>3
    <3> HIDE DEF r
    <3>5. Reads(r, k) /\ r.fits = st.fits
      BY <2>2, <2>4, <3>2, <3>3, <3>4, <1>3
    <3> QED BY <3>5, <2>1 DEF k, r
  <2> QED BY <2>5, <2>6, <2>7, <2>8
<1> QED BY <1>12, <1>13

-----------------------------------------------------------------------------
(* What is asked of a dictionary.                                          *)

(* The keys asked for are in lower case already.                           *)
LEMMA EntryIs ==
  ASSUME NEW section \in Asked, NEW key \in Asked
  PROVE  Lower(Entry(section, key)) = Entry(section, key) /\ Len(Entry(section, key)) = 3
<1> DEFINE e == Entry(section, key)
<1>1. \A w \in Asked : w \notin DOMAIN LowerCase
  BY StartupAssumption
<1>2. ":" \in Asked
  BY DEF Asked
<1>3. e = <<section>> \o <<":">> \o <<key>>
  BY DEF Entry, EntryKey
<1>4. e \in Seq(Asked) /\ Len(e) = 3
  <2> DEFINE p == <<section>> \o <<":">>
  <2> DEFINE q == <<key>>
  <2>1. /\ <<section>> \in Seq(Asked) /\ <<":">> \in Seq(Asked) /\ q \in Seq(Asked)
        /\ Len(q) = 1
    BY <1>2
  <2>2. p \in Seq(Asked) /\ Len(p) = 1 + 1
    BY <2>1, ConcatProperties
  <2>3. e = p \o q
    BY <1>3
  <2> HIDE DEF e, p, q
  <2>4. p \o q \in Seq(Asked) /\ Len(p \o q) = Len(p) + Len(q)
    BY <2>1, <2>2, ConcatProperties
  <2> QED BY <2>1, <2>2, <2>3, <2>4
<1> HIDE DEF e
<1>5. \A i \in DOMAIN e : e[i] \notin DOMAIN LowerCase
  BY <1>1, <1>4
<1>6. Lower(e) = [i \in DOMAIN e |-> e[i]]
  BY <1>5 DEF Lower
<1>7. e = [i \in DOMAIN e |-> e[i]]
  BY <1>4
<1> QED BY <1>4, <1>6, <1>7 DEF e

(* What a key has been given is what a file means by it.                   *)
LEMMA GetStringIs ==
  ASSUME NEW d, NEW E, Represents(d, MeaningOf(E)), NEW section \in Asked, NEW key \in Asked
  PROVE  /\ GetString(d, Entry(section, key), Absent) = Meant(E, Entry(section, key))
         /\ GetString(d, Entry(section, key), NullText) =
              IF Entry(section, key) \in KeysOf(E) THEN Meant(E, Entry(section, key)) ELSE NullText
<1> DEFINE e == Entry(section, key)
           m == MeaningOf(E)
<1>1. Lower(e) = e
  BY EntryIs
<1>2. DOMAIN m = KeysOf(E) /\ \A k \in KeysOf(E) : m[k] = Meant(E, k)
  BY DEF MeaningOf
<1>3. Represents(d, m)
  OBVIOUS
<1>4. e \notin KeysOf(E) => Meant(E, e) = Absent
  BY DEF KeysOf, Meant
<1> HIDE DEF e, m
<1>5. \A def : DictionaryGet(d, e, def) = IF e \in DOMAIN m THEN m[e] ELSE def
  BY <1>3, GetIs
<1>6. \A def : GetString(d, e, def) = IF e \in KeysOf(E) THEN Meant(E, e) ELSE def
  BY <1>1, <1>2, <1>5 DEF GetString
<1> QED BY <1>4, <1>6 DEF e

SaysYes(entries, section, key) ==
  LET v == Meant(entries, Entry(section, key)) IN v \notin {Absent, <<>>} /\ v[1] \in Yes

(* A switch is on exactly if the file says yes to it. *)
LEMMA SwitchIs ==
  ASSUME NEW d, NEW E, Represents(d, MeaningOf(E)), NEW section \in Asked, NEW key \in Asked
  PROVE  GetBoolean(d, Entry(section, key), FALSE) = SaysYes(E, section, key)
<1> DEFINE v == Meant(E, Entry(section, key))
<1>1. GetString(d, Entry(section, key), Absent) = v
  BY GetStringIs
<1>2. GetBoolean(d, Entry(section, key), FALSE) =
        IF v \in {Absent, <<>>} \/ v[1] \notin Yes \cup No THEN FALSE ELSE v[1] \in Yes
  BY <1>1 DEF GetBoolean
<1>3. SaysYes(E, section, key) = (v \notin {Absent, <<>>} /\ v[1] \in Yes)
  BY DEF SaysYes
<1> HIDE DEF v
<1>4. GetBoolean(d, Entry(section, key), FALSE) = (v \notin {Absent, <<>>} /\ v[1] \in Yes)
  <2> DEFINE x == GetBoolean(d, Entry(section, key), FALSE)
             none == v \in {Absent, <<>>}
             yes == v[1] \in Yes
  <2>1. x = IF none \/ v[1] \notin Yes \cup No THEN FALSE ELSE yes
    BY <1>2
  <2>2. v[1] \notin Yes \cup No => ~yes
    OBVIOUS
  <2>3. CASE none \/ v[1] \notin Yes \cup No
    <3>1. x = FALSE
      BY <2>1, <2>3
    <3>2. ~(~none /\ yes)
      BY <2>2, <2>3
    <3> HIDE DEF x, none, yes
    <3>3. (~none /\ yes) = FALSE
      BY <3>2, Zenon
    <3>4. x = (~none /\ yes)
      BY <3>1, <3>3, Zenon
    <3> QED BY <3>4, Zenon DEF x, none, yes
  <2>4. CASE ~(none \/ v[1] \notin Yes \cup No)
    <3>1. x = yes
      BY <2>1, <2>4
    <3>2. ~none
      BY <2>4
    <3>3. CASE yes
      <4>1. x = TRUE
        BY <3>1, <3>3
      <4> HIDE DEF x, none, yes
      <4>2. (~none /\ yes) = TRUE
        BY <3>2, <3>3, Zenon
      <4>3. x = (~none /\ yes)
        BY <4>1, <4>2, Zenon
      <4> QED BY <4>3, Zenon DEF x, none, yes
    <3>4. CASE ~yes
      <4>1. yes = FALSE
        BY <3>4, SMT
      <4>2. x = FALSE
        <5> HIDE DEF x, yes
        <5> QED BY <3>1, <4>1, Zenon
      <4> HIDE DEF x, none, yes
      <4>3. (~none /\ yes) = FALSE
        BY <3>4, Zenon
      <4>4. x = (~none /\ yes)
        BY <4>2, <4>3, Zenon
      <4> QED BY <4>4, Zenon DEF x, none, yes
    <3> QED BY <3>3, <3>4
  <2> QED BY <2>3, <2>4
<1> QED BY <1>3, <1>4 DEF v

(* The switches it reads.                                                  *)
LEMMA SwitchesAre ==
  ASSUME NEW d, NEW E, Represents(d, MeaningOf(E))
  PROVE  /\ TlsIn(d) = SaysYes(E, "info", "tls") /\ LogIn(d) = SaysYes(E, "log", "log")
         /\ LoginIn(d) = SaysYes(E, "login", "anonymously")
<1>1. /\ "info" \in Asked /\ "tls" \in Asked /\ "log" \in Asked /\ "login" \in Asked
      /\ "anonymously" \in Asked
  BY DEF Asked
<1> DEFINE Is(s, k) == GetBoolean(d, Entry(s, k), FALSE) = SaysYes(E, s, k)
<1>2. \A s \in Asked : \A k \in Asked : Is(s, k)
  BY SwitchIs, Zenon
<1> HIDE DEF Is
<1>3. Is("info", "tls") /\ Is("log", "log") /\ Is("login", "anonymously")
  BY <1>1, <1>2
<1>4. GetBoolean(d, Entry("info", "tls"), FALSE) = SaysYes(E, "info", "tls")
  BY <1>3, Zenon DEF Is
<1>5. GetBoolean(d, Entry("log", "log"), FALSE) = SaysYes(E, "log", "log")
  BY <1>3, Zenon DEF Is
<1>6. GetBoolean(d, Entry("login", "anonymously"), FALSE) = SaysYes(E, "login", "anonymously")
  BY <1>3, Zenon DEF Is
<1> QED BY <1>4, <1>5, <1>6, Zenon DEF TlsIn, LogIn, LoginIn

(* What it gets for the number of a port.                                  *)
PortIn(v) == IF v = Absent THEN DefaultPort
             ELSE IF v # <<>> /\ v[1] \in DOMAIN Number THEN Number[v[1]]
             ELSE 0

(* A port is the number the file gives, or else the default. *)
LEMMA PortIs ==
  ASSUME NEW d, NEW E, Represents(d, MeaningOf(E)), NEW section \in Asked, NEW key \in Asked
  PROVE  GetInt(d, Entry(section, key), DefaultPort) = PortIn(Meant(E, Entry(section, key)))
<1> DEFINE v == Meant(E, Entry(section, key))
<1>1. GetString(d, Entry(section, key), Absent) = v
  BY GetStringIs
<1>2. GetInt(d, Entry(section, key), DefaultPort) =
        IF v = Absent THEN DefaultPort
        ELSE IF v = <<>> \/ v[1] \notin DOMAIN Number THEN 0 ELSE Number[v[1]]
  BY <1>1 DEF GetInt
<1> HIDE DEF v
<1>3. GetInt(d, Entry(section, key), DefaultPort) = PortIn(v)
  BY <1>2 DEF PortIn
<1> QED BY <1>3 DEF v

(* Of the keys that are read, the first at which the program stops.        *)
Read == {Entry(section, key) : section \in Asked, key \in Asked} \X BOOLEAN
Covers(reads, read) == \E i \in 1..Len(reads) : reads[i] = read

(* More keys to read cover no less. *)
LEMMA CoversMore ==
  ASSUME NEW p \in Seq(Read), NEW q \in Seq(Read), NEW read
  PROVE  p \o q \in Seq(Read) /\ (Covers(p, read) \/ Covers(q, read) => Covers(p \o q, read))
<1> DEFINE r == p \o q
<1>1. /\ r \in Seq(Read) /\ Len(r) = Len(p) + Len(q) /\ Len(p) \in Nat /\ Len(q) \in Nat
      /\ \A i \in 1..Len(p) + Len(q) : r[i] = IF i <= Len(p) THEN p[i] ELSE q[i - Len(p)]
  BY ConcatProperties
<1> HIDE DEF r
<1>2. Covers(p, read) => Covers(r, read)
  <2> HAVE Covers(p, read)
  <2>1. PICK i \in 1..Len(p) : p[i] = read
    BY DEF Covers
  <2>2. i \in 1..Len(r) /\ r[i] = p[i]
    BY <1>1
  <2> QED BY <2>1, <2>2 DEF Covers
<1>3. Covers(q, read) => Covers(r, read)
  <2> HAVE Covers(q, read)
  <2>1. PICK i \in 1..Len(q) : q[i] = read
    BY DEF Covers
  <2>2. i + Len(p) \in 1..(Len(p) + Len(q)) /\ ~(i + Len(p) <= Len(p)) /\ (i + Len(p)) - Len(p) = i
    BY <1>1
  <2>3. i + Len(p) \in 1..Len(r) /\ r[i + Len(p)] = q[i]
    BY <1>1, <2>1, <2>2
  <2> QED BY <2>1, <2>3 DEF Covers
<1> QED BY <1>1, <1>2, <1>3 DEF r

(* The two ways to read a key. *)
LEMMA ReadIs ==
  ASSUME NEW section \in Asked, NEW key \in Asked
  PROVE  /\ Number_(section, key) \in Seq(Read)
         /\ Text_(section, key) \in Seq(Read)
         /\ Covers(Text_(section, key), <<Entry(section, key), TRUE>>)
<1> DEFINE a == <<Entry(section, key), FALSE>>
           b == <<Entry(section, key), TRUE>>
<1>1. a \in Read /\ b \in Read
  <2> DEFINE A == {Entry(s, k) : s \in Asked, k \in Asked}
             e == Entry(section, key)
  <2>1. e \in A
    OBVIOUS
  <2>2. Read = A \X BOOLEAN /\ a = <<e, FALSE>> /\ b = <<e, TRUE>>
    BY DEF Read
  <2> HIDE DEF A, e, a, b
  <2>3. <<e, FALSE>> \in A \X BOOLEAN /\ <<e, TRUE>> \in A \X BOOLEAN
    BY <2>1
  <2> QED BY <2>2, <2>3
<1>2. Number_(section, key) = <<a>> /\ Text_(section, key) = <<b>>
  BY DEF Number_, Text_
<1> HIDE DEF a, b
<1>3. <<a>> \in Seq(Read) /\ <<b>> \in Seq(Read) /\ Covers(<<b>>, b)
  BY <1>1 DEF Covers
<1> QED BY <1>2, <1>3 DEF b

(* Every text that is asked for is among the keys that are read.           *)
LEMMA KeysReadIs ==
  ASSUME NEW d
  PROVE  /\ KeysRead(d) \in Seq(Read)
         /\ TlsIn(d) => /\ Covers(KeysRead(d), <<Entry("info", "key"), TRUE>>)
                        /\ Covers(KeysRead(d), <<Entry("info", "cert"), TRUE>>)
         /\ LogIn(d) => Covers(KeysRead(d), <<Entry("log", "log_file"), TRUE>>)
         /\ LoginIn(d) => Covers(KeysRead(d), <<Entry("login", "control_type"), TRUE>>)
<1> DEFINE pPort == Number_("info", "port")
           pTls == Number_("info", "tls")
           pKey == Text_("info", "key")
           pCert == Text_("info", "cert")
           pFiles == IF TlsIn(d) THEN pKey \o pCert ELSE <<>>
           pLevel == Number_("log", "log_level")
           pLog == Number_("log", "log")
           pLogFile == IF LogIn(d) THEN Text_("log", "log_file") ELSE <<>>
           pLogin == Number_("login", "anonymously")
           pType == Text_("login", "control_type")
           pDir == Text_("control", "dir")
           pPlugin == IF LoginIn(d) THEN pType \o pDir ELSE <<>>
           rKey == <<Entry("info", "key"), TRUE>>
           rCert == <<Entry("info", "cert"), TRUE>>
           rLog == <<Entry("log", "log_file"), TRUE>>
           rType == <<Entry("login", "control_type"), TRUE>>
<1>1. {"info", "port", "tls", "key", "cert", "log", "log_level", "log_file", "login",
       "anonymously", "control_type", "control", "dir"} \subseteq Asked
  BY DEF Asked
<1>2. <<>> \in Seq(Read)
  OBVIOUS
<1>3. /\ pPort \in Seq(Read) /\ pTls \in Seq(Read) /\ pKey \in Seq(Read) /\ pCert \in Seq(Read)
      /\ pLevel \in Seq(Read) /\ pLog \in Seq(Read) /\ pLogin \in Seq(Read)
      /\ pType \in Seq(Read) /\ pDir \in Seq(Read)
      /\ Covers(pKey, rKey) /\ Covers(pCert, rCert) /\ Covers(pType, rType)
      /\ pLogFile \in Seq(Read) /\ (LogIn(d) => Covers(pLogFile, rLog))
  BY <1>1, <1>2, ReadIs
<1>4. KeysRead(d) = pPort \o pTls \o pFiles \o pLevel \o pLog \o pLogFile \o pLogin \o pPlugin
  BY DEF KeysRead
<1>5. pFiles = (IF TlsIn(d) THEN pKey \o pCert ELSE <<>>)
      /\ pPlugin = (IF LoginIn(d) THEN pType \o pDir ELSE <<>>)
  OBVIOUS
<1> HIDE DEF pPort, pTls, pKey, pCert, pFiles, pLevel, pLog, pLogFile, pLogin, pType, pDir,
             pPlugin, rKey, rCert, rLog, rType
<1>6. pKey \o pCert \in Seq(Read) /\ Covers(pKey \o pCert, rKey) /\ Covers(pKey \o pCert, rCert)
  BY <1>3, CoversMore
<1>7. pType \o pDir \in Seq(Read) /\ Covers(pType \o pDir, rType)
  BY <1>3, CoversMore
<1>8. /\ pFiles \in Seq(Read)
      /\ TlsIn(d) => Covers(pFiles, rKey) /\ Covers(pFiles, rCert)
  BY <1>2, <1>5, <1>6
<1>9. pPlugin \in Seq(Read) /\ (LoginIn(d) => Covers(pPlugin, rType))
  BY <1>2, <1>5, <1>7
<1> DEFINE q2 == pPort \o pTls
           q3 == q2 \o pFiles
           q4 == q3 \o pLevel
           q5 == q4 \o pLog
           q6 == q5 \o pLogFile
           q7 == q6 \o pLogin
           q8 == q7 \o pPlugin
<1>10. KeysRead(d) = q8
  BY <1>4
<1>11. q2 \in Seq(Read)
  BY <1>3, CoversMore
<1> HIDE DEF q2
<1>12. q3 \in Seq(Read) /\ \A r : Covers(pFiles, r) => Covers(q3, r)
  BY <1>8, <1>11, CoversMore
<1> HIDE DEF q3
<1>13. q4 \in Seq(Read) /\ \A r : Covers(q3, r) => Covers(q4, r)
  BY <1>3, <1>12, CoversMore
<1> HIDE DEF q4
<1>14. q5 \in Seq(Read) /\ \A r : Covers(q4, r) => Covers(q5, r)
  BY <1>3, <1>13, CoversMore
<1> HIDE DEF q5
<1>15. q6 \in Seq(Read) /\ \A r : Covers(q5, r) \/ Covers(pLogFile, r) => Covers(q6, r)
  BY <1>3, <1>14, CoversMore
<1> HIDE DEF q6
<1>16. q7 \in Seq(Read) /\ \A r : Covers(q6, r) => Covers(q7, r)
  BY <1>3, <1>15, CoversMore
<1> HIDE DEF q7
<1>17. q8 \in Seq(Read) /\ \A r : Covers(q7, r) \/ Covers(pPlugin, r) => Covers(q8, r)
  BY <1>9, <1>16, CoversMore
<1> HIDE DEF q8
<1>18. TlsIn(d) => Covers(q8, rKey) /\ Covers(q8, rCert)
  BY <1>8, <1>12, <1>13, <1>14, <1>15, <1>16, <1>17
<1>19. LogIn(d) => Covers(q8, rLog)
  BY <1>3, <1>15, <1>16, <1>17
<1>20. LoginIn(d) => Covers(q8, rType)
  BY <1>9, <1>17
<1> QED BY <1>10, <1>17, <1>18, <1>19, <1>20 DEF rKey, rCert, rLog, rType

(* Nothing stops it when there is no first stop. *)
LEMMA FirstStopIs ==
  ASSUME NEW d
  PROVE  /\ FirstStop(d) = 0 => \A read : Covers(KeysRead(d), read) => ~Stops(d, read)
         /\ FirstStop(d) # 0 => FirstStop(d) \in 1..Len(KeysRead(d))
<1> DEFINE p == KeysRead(d)
           I == {i \in 1..Len(p) : Stops(d, p[i])}
<1>1. FirstStop(d) = IF I # {} THEN Min(I) ELSE 0
  BY DEF FirstStop, SelectInSeq
<1>2. p \in Seq(Read) /\ Len(p) \in Nat
  BY KeysReadIs
<1>3. I \subseteq 1..Len(p) /\ I \subseteq Nat
  OBVIOUS
<1>4. \A read : Covers(p, read) /\ Stops(d, read) => I # {}
  BY DEF Covers
<1> HIDE DEF I, p
<1>5. I # {} => Min(I) \in I
  <2> HAVE I # {}
  <2>1. \E x \in I : \A y \in I : x <= y
    BY <1>3, LeastNumber
  <2> QED BY <2>1 DEF Min
<1>6. I # {} => FirstStop(d) \in 1..Len(p) /\ FirstStop(d) # 0
  <2> HAVE I # {}
  <2>1. FirstStop(d) \in I
    BY <1>1, <1>5
  <2>2. \A i \in 1..Len(p) : i # 0
    BY <1>2
  <2> QED BY <2>1, <2>2, <1>3
<1> QED BY <1>1, <1>4, <1>6 DEF p

-----------------------------------------------------------------------------
(* A configuration that says what some entries mean.                       *)
Applies(c, E) ==
  /\ c.port = PortIn(Meant(E, Entry("info", "port")))
  /\ c.tls = SaysYes(E, "info", "tls")
  /\ c.tls => /\ c.key = Meant(E, Entry("info", "key"))
              /\ c.cert = Meant(E, Entry("info", "cert"))
              /\ {c.key, c.cert} \cap {Absent, Null, NullText} = {}
  /\ c.log = SaysYes(E, "log", "log")
  /\ c.log => c.logFile = Meant(E, Entry("log", "log_file"))
  /\ c.login = SaysYes(E, "login", "anonymously")
  /\ c.login => c.controlType = Meant(E, Entry("login", "control_type"))

(* Entries with a line each, and with values.                              *)
Given(E, n) == \A y \in E : y.line \in 1..n /\ y.value # Absent

(* So are the entries of every file. *)
LEMMA EntriesGiven ==
  ASSUME NEW lines \in Seq(PhysicalLine)
  PROVE  Given(Entries(lines), Len(lines))
<1> SUFFICES ASSUME NEW y \in Entries(lines)
             PROVE  y.line \in 1..Len(lines) /\ y.value # Absent
  BY DEF Given
<1>1. PICK e \in Ends(lines) : Says(lines, e, y)
  BY EntriesAre
<1>2. e \in 1..Len(lines)
  BY LineIs
<1>3. Text(lines, e) \in Seq(Token)
  BY <1>2, TextTypes
<1>4. Value(Text(lines, e)) # Absent /\ Null # Absent
  BY <1>3, ValueIs DEF Null, Absent
<1>5. y = HeaderEntry(lines, e) \/ y = PairEntry(lines, e)
  BY <1>1 DEF Says
<1>6. y.line = e /\ y.value \in {Null, Value(Text(lines, e))}
  BY <1>5 DEF HeaderEntry, PairEntry
<1> QED BY <1>2, <1>4, <1>6

(* A text that must be there is.                                           *)
LEMMA TextGiven ==
  ASSUME NEW d, NEW E, NEW n \in Nat, Represents(d, MeaningOf(E)), Given(E, n),
         NEW section \in Asked, NEW key \in Asked, FirstStop(d) = 0,
         Covers(KeysRead(d), <<Entry(section, key), TRUE>>)
  PROVE  /\ GetString(d, Entry(section, key), NullText) = Meant(E, Entry(section, key))
         /\ Meant(E, Entry(section, key)) \notin {Absent, Null, NullText}
<1> DEFINE e == Entry(section, key)
           v == GetString(d, e, NullText)
           read == <<e, TRUE>>
<1>1. ~Stops(d, read)
  BY FirstStopIs
<1>2. v # Null /\ v # NullText
  BY <1>1 DEF Stops
<1>3. v = IF e \in KeysOf(E) THEN Meant(E, e) ELSE NullText
  BY GetStringIs
<1> HIDE DEF v, e
<1>4. e \in KeysOf(E) /\ v = Meant(E, e)
  BY <1>2, <1>3
<1>5. \E y \in E : y.key = e /\ y.value = Meant(E, e)
  <2>1. \A y \in E : y.line \in 1..n
    BY DEF Given
  <2> QED BY <2>1, <1>4, MeantIs
<1>6. Meant(E, e) # Absent
  BY <1>5 DEF Given
<1> QED BY <1>2, <1>4, <1>6 DEF v, e

(* config_file_load applies the file it read.                              *)
LEMMA ConfiguredIs ==
  ASSUME NEW d, NEW c, NEW E, NEW n \in Nat, Represents(d, MeaningOf(E)), Given(E, n),
         FirstStop(d) = 0
  PROVE  Applies(Configured(d, c), E)
<1> DEFINE r == Configured(d, c)
           Says_(section, key) == Meant(E, Entry(section, key))
           T(section, key) == GetString(d, Entry(section, key), NullText)
<1>1. /\ "info" \in Asked /\ "port" \in Asked /\ "tls" \in Asked /\ "key" \in Asked
      /\ "cert" \in Asked /\ "log" \in Asked /\ "log_file" \in Asked /\ "login" \in Asked
      /\ "anonymously" \in Asked /\ "control_type" \in Asked
  BY DEF Asked
<1>2. /\ r.port = GetInt(d, Entry("info", "port"), DefaultPort)
      /\ r.tls = TlsIn(d) /\ r.log = LogIn(d) /\ r.login = LoginIn(d)
      /\ r.key = (IF TlsIn(d) THEN T("info", "key") ELSE c.key)
      /\ r.cert = (IF TlsIn(d) THEN T("info", "cert") ELSE c.cert)
      /\ r.logFile = (IF LogIn(d) THEN T("log", "log_file") ELSE c.logFile)
      /\ r.controlType = (IF LoginIn(d) THEN T("login", "control_type") ELSE c.controlType)
  BY DEF Configured
<1>3. /\ TlsIn(d) = SaysYes(E, "info", "tls") /\ LogIn(d) = SaysYes(E, "log", "log")
      /\ LoginIn(d) = SaysYes(E, "login", "anonymously")
  BY SwitchesAre, Zenon
<1>4. r.port = PortIn(Meant(E, Entry("info", "port")))
  BY <1>1, <1>2, PortIs
<1>5. TlsIn(d) => /\ T("info", "key") = Says_("info", "key")
                  /\ T("info", "cert") = Says_("info", "cert")
                  /\ {Says_("info", "key"), Says_("info", "cert")} \cap {Absent, Null, NullText} = {}
  <2> HAVE TlsIn(d)
  <2>1. /\ Covers(KeysRead(d), <<Entry("info", "key"), TRUE>>)
        /\ Covers(KeysRead(d), <<Entry("info", "cert"), TRUE>>)
    BY KeysReadIs
  <2>2. T("info", "key") = Says_("info", "key") /\ Says_("info", "key") \notin {Absent, Null, NullText}
    BY <2>1, <1>1, TextGiven
  <2>3. T("info", "cert") = Says_("info", "cert") /\ Says_("info", "cert") \notin {Absent, Null, NullText}
    BY <2>1, <1>1, TextGiven
  <2> QED BY <2>2, <2>3
<1>6. LogIn(d) => T("log", "log_file") = Says_("log", "log_file")
  <2> HAVE LogIn(d)
  <2>1. Covers(KeysRead(d), <<Entry("log", "log_file"), TRUE>>)
    BY KeysReadIs
  <2>2. /\ T("log", "log_file") = Says_("log", "log_file")
        /\ Says_("log", "log_file") \notin {Absent, Null, NullText}
    BY <2>1, <1>1, TextGiven
  <2> QED BY <2>2
<1>7. LoginIn(d) => T("login", "control_type") = Says_("login", "control_type")
  <2> HAVE LoginIn(d)
  <2>1. Covers(KeysRead(d), <<Entry("login", "control_type"), TRUE>>)
    BY KeysReadIs
  <2>2. /\ T("login", "control_type") = Says_("login", "control_type")
        /\ Says_("login", "control_type") \notin {Absent, Null, NullText}
    BY <2>1, <1>1, TextGiven
  <2> QED BY <2>2
<1> HIDE DEF r, Says_, T
<1>8. r.tls => r.key = Says_("info", "key") /\ r.cert = Says_("info", "cert")
               /\ {r.key, r.cert} \cap {Absent, Null, NullText} = {}
  BY <1>2, <1>5
<1>9. r.log => r.logFile = Says_("log", "log_file")
  BY <1>2, <1>6
<1>10. r.login => r.controlType = Says_("login", "control_type")
  BY <1>2, <1>7
<1>11. r.tls = SaysYes(E, "info", "tls") /\ r.log = SaysYes(E, "log", "log")
       /\ r.login = SaysYes(E, "login", "anonymously")
  BY <1>2, <1>3
<1> HIDE DEF SaysYes
<1>12. Applies(r, E)
  BY <1>4, <1>8, <1>9, <1>10, <1>11 DEF Applies, Says_
<1> QED BY <1>12 DEF r

(* What stops it with a NULL pointer is a section with the name of a key.  *)
LEMMA NullIs ==
  ASSUME NEW d, NEW E, NEW n \in Nat, Represents(d, MeaningOf(E)), Given(E, n),
         FirstStop(d) # 0, GetString(d, KeysRead(d)[FirstStop(d)][1], NullText) = Null
  PROVE  \E y \in E : Len(y.key) = 3 /\ y.value = Null
<1> DEFINE read == KeysRead(d)[FirstStop(d)]
<1>1. read \in Read
  BY FirstStopIs, KeysReadIs
<1>2. PICK section \in Asked, key \in Asked : read[1] = Entry(section, key)
  <2> DEFINE A == {Entry(s, k) : s \in Asked, k \in Asked}
  <2>1. Read = A \X BOOLEAN
    BY DEF Read
  <2> HIDE DEF A, read
  <2>2. read[1] \in A
    BY <1>1, <2>1
  <2> QED BY <2>2 DEF A
<1> DEFINE e == Entry(section, key)
<1>3. Len(e) = 3
  BY EntryIs
<1>4. GetString(d, e, NullText) = Null
  BY <1>2
<1>5. GetString(d, e, NullText) = IF e \in KeysOf(E) THEN Meant(E, e) ELSE NullText
  BY GetStringIs
<1>6. Null # NullText
  BY DEF Null, NullText
<1> HIDE DEF e
<1>7. e \in KeysOf(E) /\ Meant(E, e) = Null
  BY <1>4, <1>5, <1>6
<1>8. \E y \in E : y.key = e /\ y.value = Meant(E, e)
  <2>1. \A y \in E : y.line \in 1..n
    BY DEF Given
  <2> QED BY <2>1, <1>7, MeantIs
<1> QED BY <1>3, <1>7, <1>8

-----------------------------------------------------------------------------
(* The beginnings of the files there are.                                  *)
LEMMA PrefixIs ==
  ASSUME NEW f \in Files, NEW n \in 0..Len(f)
  PROVE  /\ f \in Seq(PhysicalLine)
         /\ SubSeq(f, 1, n) \in Seq(PhysicalLine) /\ Len(SubSeq(f, 1, n)) = n
         /\ Agree(SubSeq(f, 1, n), f, n)
         /\ Nameless(SubSeq(f, 1, n))
<1> DEFINE p == SubSeq(f, 1, n)
<1>1. f \in Seq(PhysicalLine)
  BY StartupAssumption
<1>2. Len(f) \in Nat /\ n \in Nat /\ n <= Len(f) /\ \A i \in 1..n : f[i] \in PhysicalLine
  BY <1>1
<1>3. /\ p \in Seq(PhysicalLine) /\ Len(p) = n
      /\ \A i \in 1..n : p[i] = f[i]
  <2>1. /\ p \in Seq(PhysicalLine)
        /\ Len(p) = IF 1 <= n THEN n - 1 + 1 ELSE 0
        /\ \A i \in 1..(n - 1 + 1) : p[i] = f[1 + i - 1]
    BY <1>2, SubSeqProperties
  <2>2. n - 1 + 1 = n /\ \A i \in 1..n : 1 + i - 1 = i
    BY <1>2
  <2> HIDE DEF p
  <2> QED BY <2>1, <2>2, <1>2
<1> HIDE DEF p
<1>4. Agree(p, f, n)
  BY <1>1, <1>2, <1>3 DEF Agree, Alike
<1>5. Nameless(p)
  <2> SUFFICES ASSUME NEW e \in Ends(p), HeaderLine(Text(p, e)), Text(p, e)[2] = "]"
               PROVE  Len(Text(p, e)) = 2
    BY DEF Nameless
  <2>1. e \in 1..n
    BY <1>3, LineIs
  <2>2. e \in Ends(f) /\ Text(p, e) = Text(f, e)
    BY <2>1, <1>4, EndsSame, TextSame
  <2> QED BY <2>2, NamelessAssumption
<1> QED BY <1>1, <1>3, <1>4, <1>5 DEF p

(* One line more. *)
LEMMA PrefixMore ==
  ASSUME NEW f \in Files, NEW n \in Nat, n < Len(f)
  PROVE  /\ SubSeq(f, 1, n + 1) = Append(SubSeq(f, 1, n), f[n + 1])
         /\ f[n + 1] \in PhysicalLine
<1> DEFINE p == SubSeq(f, 1, n)
           q == SubSeq(f, 1, n + 1)
           x == f[n + 1]
           r == Append(p, x)
<1>1. f \in Seq(PhysicalLine) /\ Len(f) \in Nat
  BY StartupAssumption
<1>2. n \in 0..Len(f) /\ n + 1 \in 0..Len(f) /\ n + 1 \in 1..Len(f)
  BY <1>1
<1>3. x \in PhysicalLine
  BY <1>1, <1>2
<1>4. p \in Seq(PhysicalLine) /\ Len(p) = n /\ Agree(p, f, n)
  BY <1>2, PrefixIs
<1>5. q \in Seq(PhysicalLine) /\ Len(q) = n + 1 /\ Agree(q, f, n + 1)
  BY <1>2, PrefixIs
<1> HIDE DEF p, q, x
<1>6. /\ r \in Seq(PhysicalLine) /\ Len(r) = n + 1 /\ r[n + 1] = x
      /\ Agree(p, r, n)
  BY <1>3, <1>4, MoreLines
<1> HIDE DEF r
<1>7. \A i \in 1..(n + 1) : q[i] = r[i]
  <2> TAKE i \in 1..(n + 1)
  <2>1. q[i] = f[i]
    BY <1>5 DEF Agree, Alike
  <2>2. i = n + 1 \/ i \in 1..n
    BY <1>2
  <2>3. i \in 1..n => r[i] = p[i] /\ p[i] = f[i]
    BY <1>4, <1>6 DEF Agree, Alike
  <2> QED BY <2>1, <2>2, <2>3, <1>6 DEF x
<1>8. q = r
  BY <1>5, <1>6, <1>7, SeqEqual
<1> QED BY <1>3, <1>8 DEF p, q, r, x

-----------------------------------------------------------------------------
(* The inductive invariant: the lines that are read are the ones taken in, *)
(* and from the options on the configuration says what the last file says. *)
Reading ==
  pc = "reading" =>
    /\ file \in Files /\ at \in 0..Len(file)
    /\ reader.fits => Reads(reader, SubSeq(file, 1, at))

AsConfigured ==
  pc \notin {"reading", "stopped"} =>
    /\ file = <<>>
    /\ given \in Seq(PhysicalLine) /\ WellFormed(given) /\ Applies(config, Entries(given))

PluginFits ==
  /\ pc \in {"options", "reading"} => plugin = "none"
  /\ pc \in {"log", "start", "listen", "serve"} =>
       /\ plugin # "none" <=> config.login
       /\ plugin = "loaded" => \E info \in PluginInfos : config.controlType = <<info>>

Handled ==
  /\ pc \in {"options", "reading"} => ~handler
  /\ pc \in {"listen", "serve"} => handler

Running == how # "running" => pc = "stopped"

SInv == Reading /\ AsConfigured /\ PluginFits /\ Handled /\ Running /\ DiesOnly

(* The invariant holds before the first option. *)
LEMMA SInvInit == Init => SInv
<1> HAVE Init
<1>1. pc = "options" /\ how = "running" /\ file = <<>> /\ config = ConfigInit /\ given = <<>>
      /\ plugin = "none" /\ handler = FALSE
  BY DEF Init
<1>2. Ends(<<>>) = {}
  BY DEF Ends
<1>3. Entries(<<>>) = {}
  BY <1>2 DEF Entries
<1>4. WellFormed(<<>>)
  BY <1>2 DEF WellFormed
<1>5. Applies(ConfigInit, {})
  <2>1. \A key : Meant({}, key) = Absent
    BY DEF Meant
  <2>2. /\ SaysYes({}, "info", "tls") = FALSE /\ SaysYes({}, "log", "log") = FALSE
        /\ SaysYes({}, "login", "anonymously") = FALSE
    BY <2>1 DEF SaysYes
  <2>3. PortIn(Meant({}, Entry("info", "port"))) = DefaultPort
    BY <2>1 DEF PortIn
  <2> HIDE DEF SaysYes
  <2> QED BY <2>2, <2>3 DEF Applies, ConfigInit
<1>6. AsConfigured
  BY <1>1, <1>3, <1>4, <1>5 DEF AsConfigured
<1> QED BY <1>1, <1>6 DEF SInv, Reading, PluginFits, Handled, Running, DiesOnly

(* What DiesOnly allows a crash for.                                       *)
Reason ==
  \/ file = <<>> /\ ~handler /\ options < MaxOptions
  \/ file # <<>> /\ \E entry \in Entries(file) : Len(entry.key) = 3 /\ entry.value = Null
  \/ handler /\ config.tls
  \/ handler /\ (sessions > 0 \/ pounds)

(* Stopping keeps the invariant if a crash has a reason.                   *)
LEMMA StopKeeps ==
  ASSUME NEW outcome, Stop(outcome), outcome = "crash" => Reason
  PROVE  SInv'
<1>1. pc' = "stopped" /\ how' = outcome /\ UNCHANGED <<options, file, handler, config, sessions, pounds>>
  BY DEF Stop, fileVars, serviceVars
<1>2. DiesOnly'
  <2> SUFFICES ASSUME how' = "crash" PROVE Reason'
    BY DEF DiesOnly, Reason
  <2>1. Reason
    BY <1>1
  <2> QED BY <2>1, <1>1 DEF Reason
<1> QED BY <1>1, <1>2 DEF SInv, Reading, AsConfigured, PluginFits, Handled, Running

(* The steps of the start and of the service read no file.                 *)
LEMMA FileStays ==
  ASSUME SInv, UNCHANGED <<file, config, given, how>>,
         pc \notin {"reading", "stopped"}, pc' \notin {"reading", "stopped"}
  PROVE  Reading' /\ AsConfigured' /\ Running' /\ DiesOnly'
<1>1. how = "running" /\ how' = "running"
  BY DEF SInv, Running
<1>2. AsConfigured'
  BY DEF SInv, AsConfigured
<1> QED BY <1>1, <1>2 DEF Reading, Running, DiesOnly

(* -c: nothing of the new file is read yet. *)
LEMMA OptionFileKeeps == SInv /\ OptionFile => SInv'
<1> SUFFICES ASSUME SInv, OptionFile PROVE SInv'
  OBVIOUS
<1>1. CASE Stop("failure")
  BY <1>1, StopKeeps
<1>2. CASE /\ \E f \in Files : file' = f
           /\ pc' = "reading" /\ at' = 0 /\ reader' = Reader /\ given' = <<>>
           /\ options' = options + 1
           /\ UNCHANGED <<how, config, serviceVars>>
  <2>1. pc = "options" /\ how = "running" /\ plugin = "none" /\ ~handler
    BY DEF OptionFile, Option, SInv, Running, PluginFits, Handled
  <2>2. pc' = "reading" /\ how' = "running" /\ plugin' = "none" /\ ~handler'
    BY <1>2, <2>1 DEF serviceVars
  <2>3. PICK f \in Files : file' = f
    BY <1>2
  <2>4. Len(f) \in Nat
    BY StartupAssumption
  <2>5. 0 \in 0..Len(f) /\ SubSeq(f, 1, 0) = <<>>
    BY <2>4, SubSeqEmpty
  <2>6. Reading'
    BY <1>2, <2>3, <2>5, ReadsNothing DEF Reading
  <2> QED BY <2>2, <2>6 DEF SInv, AsConfigured, PluginFits, Handled, Running, DiesOnly
<1> QED BY <1>1, <1>2 DEF OptionFile

(* One turn of iniparser_load: what is read grows by a line. *)
LEMMA ReadLineKeeps == SInv /\ ReadLine => SInv'
<1> SUFFICES ASSUME SInv, ReadLine PROVE SInv'
  OBVIOUS
<1>1. /\ pc = "reading" /\ at < Len(file) /\ reader.fits
      /\ reader' = TakeLine(reader, file[at + 1]) /\ at' = at + 1
      /\ UNCHANGED <<pc, how, options, file, config, given, plugin, handler, sessions, pounds>>
  BY DEF ReadLine, serviceVars
<1>2. file \in Files /\ at \in 0..Len(file) /\ Reads(reader, SubSeq(file, 1, at))
  BY <1>1 DEF SInv, Reading
<1>3. how = "running" /\ plugin = "none" /\ ~handler
  BY <1>1 DEF SInv, Running, PluginFits, Handled
<1> DEFINE p == SubSeq(file, 1, at)
           x == file[at + 1]
<1>4. Len(file) \in Nat /\ at \in Nat
  BY <1>2, StartupAssumption
<1>5. SubSeq(file, 1, at + 1) = Append(p, x) /\ x \in PhysicalLine
  BY <1>1, <1>2, <1>4, PrefixMore
<1>6. at + 1 \in 0..Len(file)
  BY <1>1, <1>4
<1>7. Nameless(Append(p, x)) /\ p \in Seq(PhysicalLine)
  BY <1>2, <1>5, <1>6, PrefixIs
<1>8. Reading'
  <2>1. CASE x.fits
    <3>1. Reads(TakeLine(reader, x), Append(p, x))
      BY <2>1, <1>2, <1>5, <1>7, ReadsMore
    <3> QED BY <3>1, <1>1, <1>2, <1>5, <1>6 DEF Reading
  <2>2. CASE ~x.fits
    <3>1. reader' = [reader EXCEPT !.fits = FALSE]
      BY <2>2, <1>1 DEF TakeLine
    <3>2. ~reader'.fits
      BY <3>1, <1>2 DEF Reads
    <3> QED BY <3>2, <1>1, <1>2, <1>6 DEF Reading
  <2> QED BY <2>1, <2>2
<1> QED BY <1>1, <1>3, <1>8 DEF SInv, AsConfigured, PluginFits, Handled, Running, DiesOnly

(* config_file_load: stopped for a reason, or configured as the file says. *)
LEMMA ConfigFileLoadKeeps == SInv /\ ConfigFileLoad => SInv'
<1> SUFFICES ASSUME SInv, ConfigFileLoad PROVE SInv'
  OBVIOUS
<1> DEFINE d == reader.dict
           E == Entries(file)
           n == Len(file)
<1>1. pc = "reading" /\ (at = Len(file) \/ ~reader.fits)
  BY DEF ConfigFileLoad
<1>2. file \in Files /\ at \in 0..Len(file)
      /\ (reader.fits => Reads(reader, SubSeq(file, 1, at)))
  BY <1>1 DEF SInv, Reading
<1>3. how = "running" /\ plugin = "none" /\ ~handler
  BY <1>1 DEF SInv, Running, PluginFits, Handled
<1>4. CASE ~Loaded(reader)
  <2>1. Stop("failure")
    BY <1>4 DEF ConfigFileLoad
  <2> QED BY <2>1, StopKeeps
<1>5. CASE Loaded(reader)
  <2>1. reader.fits /\ reader.errs = 0 /\ at = Len(file)
    BY <1>1, <1>5 DEF Loaded
  <2>2. file \in Seq(PhysicalLine) /\ n \in Nat /\ n \in 0..n
    BY <1>2, StartupAssumption
  <2>3. SubSeq(file, 1, n) = file
    <3>1. /\ SubSeq(file, 1, n) \in Seq(PhysicalLine) /\ Len(SubSeq(file, 1, n)) = n
          /\ Agree(SubSeq(file, 1, n), file, n)
      BY <1>2, <2>2, PrefixIs
    <3>2. \A i \in 1..n : SubSeq(file, 1, n)[i] = file[i]
      BY <3>1 DEF Agree, Alike
    <3> QED BY <2>2, <3>1, <3>2, SeqEqual
  <2>4. Reads(reader, file)
    BY <1>2, <2>1, <2>3
  <2>5. Represents(d, MeaningOf(E)) /\ Given(E, n)
    BY <2>2, <2>4, EntriesGiven DEF Reads
  <2>6. WellFormed(file)
    BY <2>1, <2>4 DEF Reads, WellFormed, Readable
  <2>7. /\ FirstStop(d) # 0 => Stop(IF GetString(d, KeysRead(d)[FirstStop(d)][1], NullText) = Null
                                    THEN "crash" ELSE "failure")
        /\ FirstStop(d) = 0 =>
             /\ config' = Configured(d, config) /\ given' = file
             /\ pc' = "options" /\ file' = <<>> /\ at' = 0 /\ reader' = Reader
             /\ UNCHANGED <<how, options, serviceVars>>
    BY <1>5 DEF ConfigFileLoad
  <2> HIDE DEF d, E, n
  <2>8. CASE FirstStop(d) # 0
    <3> DEFINE null == GetString(d, KeysRead(d)[FirstStop(d)][1], NullText) = Null
               outcome == IF null THEN "crash" ELSE "failure"
    <3>1. Stop(outcome)
      BY <2>7, <2>8
    <3>2. null => Reason
      <4> HAVE null
      <4>1. \E y \in E : Len(y.key) = 3 /\ y.value = Null
        BY <2>2, <2>5, <2>8, NullIs
      <4>2. file # <<>>
        <5>1. Entries(<<>>) = {}
          BY DEF Entries, Ends
        <5> QED BY <5>1, <4>1 DEF E
      <4> QED BY <4>1, <4>2 DEF Reason, E
    <3>3. outcome = "crash" => Reason
      BY <3>2
    <3> HIDE DEF outcome
    <3> QED BY <3>1, <3>3, StopKeeps
  <2>9. CASE FirstStop(d) = 0
    <3>1. /\ config' = Configured(d, config) /\ given' = file /\ pc' = "options" /\ file' = <<>>
          /\ how' = "running" /\ plugin' = "none" /\ ~handler'
      BY <2>7, <2>9, <1>3 DEF serviceVars
    <3>2. Applies(Configured(d, config), E)
      BY <2>2, <2>5, <2>9, ConfiguredIs
    <3>3. AsConfigured'
      BY <3>1, <3>2, <2>2, <2>6 DEF AsConfigured, E
    <3> QED BY <3>1, <3>3 DEF SInv, Reading, PluginFits, Handled, Running, DiesOnly
  <2> QED BY <2>8, <2>9
<1> QED BY <1>4, <1>5

(* SIGINT: the handler dies only over sessions or a lone "#" array. *)
LEMMA InterruptKeeps == SInv /\ Interrupt => SInv'
<1> SUFFICES ASSUME SInv, Interrupt PROVE SInv'
  OBVIOUS
<1>1. CASE ~handler /\ Stop("killed")
  BY <1>1, StopKeeps
<1>2. CASE handler /\ config.tls /\ Stop("success")
  BY <1>2, StopKeeps
<1>3. CASE handler /\ ~config.tls /\ \E outcome \in ServerSocketUltimately : Stop(outcome)
  <2>1. PICK outcome \in ServerSocketUltimately : Stop(outcome)
    BY <1>3
  <2>2. outcome = "crash" => sessions > 0 \/ pounds
    BY DEF ServerSocketUltimately, SessionDeleteAll, SessionTopicDeleteAll
  <2>3. outcome = "crash" => Reason
    BY <2>2, <1>3 DEF Reason
  <2> QED BY <2>1, <2>3, StopKeeps
<1> QED BY <1>1, <1>2, <1>3 DEF Interrupt

(* main, from the options to serving.                                      *)
LEMMA ServiceKeeps ==
  ASSUME SInv, OptionPort \/ OptionHelp \/ PluginInit \/ PluginFails \/ OpenLog \/ OpenLogFails
               \/ ServiceStart \/ ServiceSocketInit \/ ServiceSocketInitFails \/ Traffic
  PROVE  SInv'
<1>1. CASE OptionPort
  <2>1. pc = "options" /\ options < MaxOptions /\ Stop("crash")
    BY <1>1 DEF OptionPort, Option
  <2>2. file = <<>> /\ ~handler
    BY <2>1 DEF SInv, AsConfigured, Handled
  <2>3. Reason
    BY <2>1, <2>2 DEF Reason
  <2> QED BY <2>1, <2>3, StopKeeps
<1>2. CASE OptionHelp \/ PluginFails \/ OpenLogFails
  <2>1. Stop("success") \/ Stop("failure")
    BY <1>2 DEF OptionHelp, PluginFails, OpenLogFails
  <2> QED BY <2>1, StopKeeps
<1>3. CASE ServiceSocketInitFails
  <2>1. pc = "listen" /\ (Stop("failure") \/ (config.tls /\ Stop("crash")))
    BY <1>3 DEF ServiceSocketInitFails
  <2>2. handler
    BY <2>1 DEF SInv, Handled
  <2>3. config.tls => Reason
    BY <2>2 DEF Reason
  <2> QED BY <2>1, <2>3, StopKeeps
<1>4. CASE PluginInit
  <2>1. /\ pc = "options" /\ pc' = "log" /\ UNCHANGED <<how, file, config, given, handler>>
        /\ \/ ~config.login /\ plugin' = plugin
           \/ config.login /\ plugin' = "null"
           \/ config.login /\ plugin' = "loaded" /\ \E info \in PluginInfos : config.controlType = <<info>>
    BY <1>4 DEF PluginInit, fileVars
  <2>2. plugin = "none" /\ ~handler
    BY <2>1 DEF SInv, PluginFits, Handled
  <2>3. PluginFits'
    BY <2>1, <2>2 DEF PluginFits
  <2>4. Handled'
    BY <2>1, <2>2 DEF Handled
  <2> QED BY <2>1, <2>3, <2>4, FileStays DEF SInv
<1>5. CASE OpenLog \/ ServiceSocketInit
  <2>1. /\ <<pc, pc'>> \in {<<"log", "start">>, <<"listen", "serve">>}
        /\ UNCHANGED <<how, file, config, given, plugin, handler>>
    BY <1>5 DEF OpenLog, ServiceSocketInit, fileVars, serviceVars
  <2>2. PluginFits' /\ Handled'
    BY <2>1 DEF SInv, PluginFits, Handled
  <2> QED BY <2>1, <2>2, FileStays DEF SInv
<1>6. CASE ServiceStart
  <2>1. /\ pc = "start" /\ pc' = "listen" /\ handler' = TRUE
        /\ UNCHANGED <<how, file, config, given, plugin>>
    BY <1>6 DEF ServiceStart, fileVars
  <2>2. PluginFits' /\ Handled'
    BY <2>1 DEF SInv, PluginFits, Handled
  <2> QED BY <2>1, <2>2, FileStays DEF SInv
<1>7. CASE Traffic
  <2>1. pc = "serve" /\ UNCHANGED <<pc, how, file, config, given, plugin, handler>>
    BY <1>7 DEF Traffic, fileVars
  <2>2. PluginFits' /\ Handled'
    BY <2>1 DEF SInv, PluginFits, Handled
  <2> QED BY <2>1, <2>2, FileStays DEF SInv
<1> QED BY <1>1, <1>2, <1>3, <1>4, <1>5, <1>6, <1>7

(* The invariant holds in every state of every start and stop. *)
THEOREM StartsSoundly == Spec => []SInv
<1>1. ASSUME SInv, [Next]_vars PROVE SInv'
  <2>1. CASE OptionFile
    BY <1>1, <2>1, OptionFileKeeps
  <2>2. CASE ReadLine
    BY <1>1, <2>2, ReadLineKeeps
  <2>3. CASE ConfigFileLoad
    BY <1>1, <2>3, ConfigFileLoadKeeps
  <2>4. CASE Interrupt
    BY <1>1, <2>4, InterruptKeeps
  <2>5. CASE OptionPort \/ OptionHelp \/ PluginInit \/ PluginFails \/ OpenLog \/ OpenLogFails
             \/ ServiceStart \/ ServiceSocketInit \/ ServiceSocketInitFails \/ Traffic
    BY <1>1, <2>5, ServiceKeeps
  <2>6. CASE UNCHANGED vars
    <3>1. UNCHANGED <<pc, how, options, file, at, reader, config, given, plugin, handler,
                      sessions, pounds>>
      BY <2>6 DEF vars
    <3> QED BY <3>1, <1>1 DEF SInv, Reading, AsConfigured, PluginFits, Handled, Running, DiesOnly
  <2> QED BY <1>1, <2>1, <2>2, <2>3, <2>4, <2>5, <2>6 DEF Next
<1> QED BY <1>1, SInvInit, PTL DEF Spec

(* The process dies of nothing but what DiesOnly lists (main.c:40,
   config.c:28-60, service_socket_tls.c:50, session.c:256, filtering.c:506). *)
THEOREM DiesForAReason == Spec => []DiesOnly
<1>1. SInv => DiesOnly
  BY DEF SInv
<1> QED BY <1>1, StartsSoundly, PTL

(* At every line of every file the dictionary is the function the last
   assignments so far mean (dictionary.c:255, iniparser.c:749-811). *)
THEOREM LastAssignmentCounts == Spec => []LastAssignmentHolds
<1>1. SInv => LastAssignmentHolds
  <2> SUFFICES ASSUME SInv, pc = "reading", reader.fits
               PROVE  LET entries == Entries(SubSeq(file, 1, at))
                          keys == {entry.key : entry \in entries}
                      IN /\ reader.dict.n = Cardinality(keys)
                         /\ \A key \in keys :
                              DictionaryGet(reader.dict, key, Absent) = Meant(entries, key)
    BY DEF LastAssignmentHolds
  <2> DEFINE E == Entries(SubSeq(file, 1, at))
             d == reader.dict
             m == MeaningOf(E)
  <2>1. Represents(d, m)
    BY DEF SInv, Reading, Reads
  <2>2. KeysOf(E) = {entry.key : entry \in E}
    BY DEF KeysOf
  <2>3. DOMAIN m = KeysOf(E) /\ \A key \in KeysOf(E) : m[key] = Meant(E, key)
    BY DEF MeaningOf
  <2> HIDE DEF E, d, m
  <2>4. d.n = Cardinality(KeysOf(E))
    BY <2>1, <2>3 DEF Represents
  <2>5. \A key \in KeysOf(E) : DictionaryGet(d, key, Absent) = Meant(E, key)
    BY <2>1, <2>3, GetIs
  <2> QED BY <2>2, <2>4, <2>5 DEF E, d
<1> QED BY <1>1, StartsSoundly, PTL

(* A server that serves is configured as the last file that was read says,
   and that file has no error in it (config.c:15-77). *)
THEOREM ConfiguredAsWritten == Spec => []ServesAsWritten
<1>1. SInv => ServesAsWritten
  <2> SUFFICES ASSUME SInv, pc = "serve" PROVE ServesAsWritten
    BY DEF ServesAsWritten
  <2> DEFINE E == Entries(given)
  <2>1. WellFormed(given) /\ Applies(config, E)
    BY DEF SInv, AsConfigured
  <2>2. /\ plugin # "none" <=> config.login
        /\ plugin = "loaded" => \E info \in PluginInfos : config.controlType = <<info>>
    BY DEF SInv, PluginFits
  <2> HIDE DEF E
  <2>3. /\ config.port = PortIn(Meant(E, Entry("info", "port")))
        /\ config.tls = SaysYes(E, "info", "tls")
        /\ config.tls => /\ config.key = Meant(E, Entry("info", "key"))
                         /\ config.cert = Meant(E, Entry("info", "cert"))
                         /\ {config.key, config.cert} \cap {Absent, Null, NullText} = {}
        /\ config.log = SaysYes(E, "log", "log")
        /\ config.log => config.logFile = Meant(E, Entry("log", "log_file"))
    BY <2>1 DEF Applies
  <2>4. plugin # "none" <=> SaysYes(E, "login", "anonymously")
    BY <2>1, <2>2 DEF Applies
  <2>5. plugin = "loaded" =>
          \E info \in PluginInfos : Meant(E, Entry("login", "control_type")) = <<info>>
    BY <2>1, <2>2, <2>4 DEF Applies
  <2> QED BY <2>1, <2>3, <2>4, <2>5 DEF ServesAsWritten, SaysYes, PortIn, E
<1> QED BY <1>1, StartsSoundly, PTL
=============================================================================

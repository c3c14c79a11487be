---------------------------- MODULE DedupProofs ----------------------------
(***************************************************************************)
(* What the loop of deduplication does to an array of any length: it comes *)
(* back with one entry a client, the first of each, exactly when no more   *)
(* than one entry is surplus.                                              *)
(***************************************************************************)
EXTENDS Dedup, FiniteSetTheorems, SequenceTheorems, TLAPS

Entry == [client : 1..Clients, from : Nat]

(* The array as utarray_sort leaves it.                                    *)
GivenSorted ==
  /\ given \in Seq(Entry)
  /\ \A k \in 1..Len(given) : given[k].from = k
  /\ \A k \in 1..(Len(given) - 1) : given[k].client <= given[k + 1].client

Typed ==
  /\ GivenSorted
  /\ array \in Seq(Entry)
  /\ i \in Nat
  /\ tmp \in 0..Len(array)
  /\ pc \in {"loop", "done", "crashed"}

(* The entries kept so far are of different clients, in order.             *)
KeptApart == \A j, k \in 1..tmp : j < k => array[j].client < array[k].client

NoneErased == i = tmp /\ array = given /\ KeptApart

(* The entry at r was erased, behind another of its client.                *)
OneErased(r) ==
  /\ i = tmp + 1
  /\ r \in 2..Len(given) /\ r <= tmp + 1
  /\ given[r].client = given[r - 1].client
  /\ Len(array) = Len(given) - 1
  /\ \A k \in 1..Len(array) : array[k] = IF k < r THEN given[k] ELSE given[k + 1]
  /\ KeptApart

(* Entries a and b can both go without a client losing its last entry.     *)
BothSurplus(a, b) ==
  /\ a # b
  /\ \A k \in {a, b} : \E j \in (1..Len(given)) \ {a, b} :
       given[j].client = given[k].client

TwoSurplus == \E a, b \in 1..Len(given) : BothSurplus(a, b)

(* The place of the next erasure has run past the duplicate, which stays.  *)
Behind ==
  /\ i >= tmp + 2 /\ pc # "done"
  /\ tmp >= 1 /\ tmp + 1 <= Len(array)
  /\ array[tmp + 1].client = array[tmp].client
  /\ TwoSurplus

Progress == NoneErased \/ (\E r \in 2..Len(given) : OneErased(r)) \/ Behind

DInv ==
  /\ Typed
  /\ Progress
  /\ pc = "done" => tmp = Len(array)
  /\ pc = "crashed" => TwoSurplus

----------------------------------------------------------------------------
(* utarray_erase of one entry: those behind it move up.                    *)
LEMMA Erased ==
  ASSUME NEW S, NEW s \in Seq(S), NEW r \in 1..Len(s)
  PROVE  /\ RemoveAt(s, r) \in Seq(S)
         /\ Len(RemoveAt(s, r)) = Len(s) - 1
         /\ \A k \in 1..(Len(s) - 1) :
              RemoveAt(s, r)[k] = IF k < r THEN s[k] ELSE s[k + 1]
<1> DEFINE front == SubSeq(s, 1, r - 1)
           back  == SubSeq(s, r + 1, Len(s))
<1>1. front \in Seq(S) /\ Len(front) = r - 1 /\ \A k \in 1..(r - 1) : front[k] = s[k]
  <2>1. \A k \in 1..(r - 1) : s[k] \in S
    BY ElementOfSeq
  <2> QED  BY <2>1, SubSeqProperties
<1>2. back \in Seq(S) /\ Len(back) = Len(s) - r
      /\ \A k \in 1..(Len(s) - r) : back[k] = s[r + k]
  <2>1. \A k \in (r + 1)..Len(s) : s[k] \in S
    BY ElementOfSeq
  <2> QED  BY <2>1, SubSeqProperties
<1>3. RemoveAt(s, r) = front \o back
  BY DEF RemoveAt
<1>4. /\ front \o back \in Seq(S)
      /\ Len(front \o back) = Len(front) + Len(back)
      /\ \A k \in 1..(Len(front) + Len(back)) :
           (front \o back)[k] = IF k <= Len(front) THEN front[k] ELSE back[k - Len(front)]
  BY <1>1, <1>2, ConcatProperties
<1> HIDE DEF front, back
<1>5. Len(s) \in Nat
  BY LenProperties
<1> QED  BY <1>1, <1>2, <1>3, <1>4, <1>5

(* What the loop is given is sorted, each entry with its place.            *)
LEMMA DInit ==
  ASSUME Init
  PROVE  DInv
<1>1. PICK s \in {r \in UNION {[1..n -> 1..Clients] : n \in 0..MaxEntries} : Sorted(r)} :
        given = [j \in DOMAIN s |-> [client |-> s[j], from |-> j]]
  BY DEF Init, SortedArrays
<1>2. PICK n \in 0..MaxEntries : s \in [1..n -> 1..Clients]
  OBVIOUS
<1>3. n \in Nat /\ DOMAIN s = 1..n /\ s \in Seq(1..Clients) /\ Len(s) = n
  BY <1>2, DedupAssumption
<1>4. given \in [1..n -> Entry]
  BY <1>1, <1>2, <1>3 DEF Entry
<1>5. given \in Seq(Entry) /\ Len(given) = n
  BY <1>3, <1>4
<1>6. Sorted(s)
  OBVIOUS
<1>7. \A k \in 1..(n - 1) : s[k] <= s[k + 1]
  BY <1>3, <1>6 DEF Sorted
<1>8. GivenSorted
  BY <1>1, <1>3, <1>5, <1>7 DEF GivenSorted
<1>9. Typed /\ NoneErased
  BY <1>5, <1>8 DEF Init, Typed, NoneErased, KeptApart
<1> QED  BY <1>9 DEF Init, DInv, Progress

(* An entry that differs from the last one kept is of a later client.      *)
LEMMA DKeep ==
  ASSUME DInv, Keep
  PROVE  DInv'
<1>1. /\ tmp' = tmp + 1 /\ i' = i + 1 /\ tmp + 1 <= Len(array) /\ pc = "loop"
      /\ array' = array /\ given' = given /\ pc' = pc
      /\ tmp # 0 => array[tmp + 1].client # array[tmp].client
  BY DEF Keep, NextEntry, Duplicate, DInv, Typed
<1>2. /\ GivenSorted /\ array \in Seq(Entry) /\ i \in Nat /\ tmp \in Nat
      /\ Len(array) \in Nat /\ Len(given) \in Nat
  BY LenProperties DEF DInv, Typed, GivenSorted
<1>3. Typed' /\ (TwoSurplus' <=> TwoSurplus)
  BY <1>1, <1>2 DEF Typed, GivenSorted, DInv, TwoSurplus, BothSurplus
<1>4. \A k \in 1..Len(array) : array[k] \in Entry
  BY <1>2, ElementOfSeq
<1>5. \A k \in 1..Len(array) : array[k].client \in Int
  BY <1>4 DEF Entry
<1>6. \A k \in 1..Len(given) : given[k].client \in Int
  <2>1. \A k \in 1..Len(given) : given[k] \in Entry
    BY <1>2, ElementOfSeq DEF GivenSorted
  <2> QED  BY <2>1 DEF Entry
<1>7. ASSUME KeptApart, tmp # 0 => array[tmp].client <= array[tmp + 1].client
      PROVE  KeptApart'
  <2> SUFFICES ASSUME NEW j \in 1..(tmp + 1), NEW k \in 1..(tmp + 1), j < k
               PROVE  array[j].client < array[k].client
    BY <1>1 DEF KeptApart
  <2>1. CASE k <= tmp
    BY <1>2, <1>7, <2>1 DEF KeptApart
  <2>2. CASE k = tmp + 1
    <3>1. tmp # 0 /\ array[tmp].client < array[tmp + 1].client
      BY <1>1, <1>2, <1>5, <1>7, <2>2
    <3>2. j = tmp \/ array[j].client < array[tmp].client
      BY <1>2, <1>7, <2>2 DEF KeptApart
    <3> QED  BY <1>1, <1>2, <1>5, <2>2, <3>1, <3>2
  <2> QED  BY <1>2, <2>1, <2>2
<1>8. CASE NoneErased
  <2>1. tmp # 0 => array[tmp].client <= array[tmp + 1].client
    BY <1>1, <1>2, <1>8 DEF NoneErased, GivenSorted
  <2>2. KeptApart'
    BY <1>7, <1>8, <2>1 DEF NoneErased
  <2>3. NoneErased'
    BY <1>1, <1>8, <2>2 DEF NoneErased
  <2> QED  BY <1>1, <1>3, <2>3 DEF DInv, Progress
<1>9. ASSUME NEW r \in 2..Len(given), OneErased(r)
      PROVE  DInv'
  <2>1. tmp # 0 => array[tmp].client <= array[tmp + 1].client
    <3> SUFFICES ASSUME tmp # 0  PROVE array[tmp].client <= array[tmp + 1].client
      OBVIOUS
    <3>1. CASE tmp + 1 < r
      BY <1>1, <1>2, <1>9, <3>1 DEF OneErased, GivenSorted
    <3>2. CASE tmp + 1 = r
      <4>1. array[tmp] = given[r - 1] /\ array[tmp + 1] = given[r + 1]
        BY <1>1, <1>2, <1>9, <3>2 DEF OneErased
      <4>2. given[r].client <= given[r + 1].client
        BY <1>1, <1>2, <1>9, <3>2 DEF OneErased, GivenSorted
      <4> QED  BY <1>9, <4>1, <4>2 DEF OneErased
    <3>3. CASE r <= tmp
      <4>1. array[tmp] = given[tmp + 1] /\ array[tmp + 1] = given[tmp + 2]
        <5>1. tmp \in 1..Len(array) /\ ~(tmp < r) /\ tmp + 1 \in 1..Len(array)
              /\ ~(tmp + 1 < r)
          BY <1>1, <1>2, <3>3
        <5>2. \A k \in 1..Len(array) : ~(k < r) => array[k] = given[k + 1]
          BY <1>9 DEF OneErased
        <5> QED  BY <1>2, <5>1, <5>2
      <4>2. given[tmp + 1].client <= given[tmp + 2].client
        BY <1>1, <1>2, <1>9, <3>3 DEF OneErased, GivenSorted
      <4> QED  BY <4>1, <4>2
    <3> QED  BY <1>2, <3>1, <3>2, <3>3
  <2>2. KeptApart'
    BY <1>7, <1>9, <2>1 DEF OneErased
  <2>3. OneErased(r)'
    BY <1>1, <1>2, <1>9, <2>2 DEF OneErased
  <2>4. r \in 2..Len(given')
    BY <1>1
  <2> QED  BY <1>1, <1>3, <2>3, <2>4 DEF DInv, Progress
<1>10. CASE Behind
  BY <1>1, <1>2, <1>10 DEF Behind
<1> QED  BY <1>8, <1>9, <1>10 DEF DInv, Progress

(* The first surplus entry is erased, the second one missed.               *)
LEMMA DErase ==
  ASSUME DInv, Erase
  PROVE  DInv'
<1>1. /\ tmp' = tmp /\ given' = given /\ pc = "loop"
      /\ tmp # 0 /\ tmp + 1 <= Len(array)
      /\ array[tmp + 1].client = array[tmp].client
  BY DEF Erase, NextEntry, Duplicate
<1>2. /\ GivenSorted /\ array \in Seq(Entry) /\ i \in Nat /\ tmp \in Nat
      /\ Len(array) \in Nat /\ Len(given) \in Nat
  BY LenProperties DEF DInv, Typed, GivenSorted
<1>3. CASE i >= Len(array)
  <2>1. array' = array /\ i' = i /\ pc' = "crashed"
    BY <1>3 DEF Erase
  <2>2. Typed' /\ (TwoSurplus' <=> TwoSurplus)
    BY <1>1, <1>2, <2>1 DEF Typed, DInv, GivenSorted, TwoSurplus, BothSurplus
  <2>3. ~NoneErased
    BY <1>1, <1>2, <1>3 DEF NoneErased
  <2>4. ASSUME NEW r \in 2..Len(given), OneErased(r)
        PROVE  DInv'
    <3>1. TwoSurplus
      <4>1. BothSurplus(r, tmp + 2)
        <5>1. array[tmp + 1] = given[tmp + 2] /\ tmp + 2 <= Len(given)
          BY <1>1, <1>2, <2>4 DEF OneErased
        <5>2. PICK j \in {tmp, tmp + 1} : j # r /\ array[tmp] = given[j]
          BY <1>1, <1>2, <2>4 DEF OneErased
        <5>3. j \in (1..Len(given)) \ {r, tmp + 2} /\ given[j].client = given[tmp + 2].client
          BY <1>1, <1>2, <5>1, <5>2
        <5>4. r - 1 \in (1..Len(given)) \ {r, tmp + 2} /\ given[r - 1].client = given[r].client
          BY <1>1, <1>2, <2>4 DEF OneErased
        <5>5. r # tmp + 2
          BY <1>2, <2>4 DEF OneErased
        <5> QED  BY <5>3, <5>4, <5>5 DEF BothSurplus
      <4>2. tmp + 2 \in 1..Len(given) /\ r \in 1..Len(given)
        BY <1>1, <1>2, <2>4 DEF OneErased
      <4> QED  BY <4>1, <4>2 DEF TwoSurplus
    <3>2. OneErased(r)'
      BY <1>1, <2>1, <2>4 DEF OneErased, KeptApart
    <3>3. r \in 2..Len(given')
      BY <1>1
    <3> QED  BY <2>1, <2>2, <3>1, <3>2, <3>3 DEF DInv, Progress
  <2>5. CASE Behind
    <3>1. Behind'
      BY <1>1, <2>1, <2>2, <2>5 DEF Behind
    <3> QED  BY <2>1, <2>2, <2>5, <3>1 DEF DInv, Progress, Behind
  <2> QED  BY <2>3, <2>4, <2>5 DEF DInv, Progress
<1>4. CASE i < Len(array)
  <2>1. array' = RemoveAt(array, i + 1) /\ i' = i + 1 /\ pc' = pc
    BY <1>2, <1>4 DEF Erase
  <2>2. i + 1 \in 1..Len(array)
    BY <1>2, <1>4
  <2>3. /\ array' \in Seq(Entry) /\ Len(array') = Len(array) - 1
        /\ \A k \in 1..(Len(array) - 1) :
             array'[k] = IF k < i + 1 THEN array[k] ELSE array[k + 1]
    BY <1>2, <2>1, <2>2, Erased
  <2>4. Typed' /\ (TwoSurplus' <=> TwoSurplus)
    <3>1. tmp \in 0..Len(array')
      BY <1>1, <1>2, <2>3
    <3> QED  BY <1>1, <1>2, <2>1, <2>3, <3>1 DEF Typed, GivenSorted, DInv, TwoSurplus, BothSurplus
  <2>5. CASE NoneErased
    <3>1. tmp + 1 \in 2..Len(given) /\ i = tmp /\ array = given
      BY <1>1, <1>2, <2>5 DEF NoneErased
    <3>2. KeptApart'
      BY <1>1, <1>2, <2>3, <2>5 DEF NoneErased, KeptApart
    <3>3. OneErased(tmp + 1)'
      <4>1. \A k \in 1..Len(array') :
              array'[k] = IF k < tmp + 1 THEN given[k] ELSE given[k + 1]
        BY <1>2, <2>3, <3>1
      <4> QED  BY <1>1, <1>2, <2>1, <2>3, <3>1, <3>2, <4>1 DEF OneErased
    <3>4. \E r \in 2..Len(given') : OneErased(r)'
      BY <1>1, <3>1, <3>3
    <3> QED  BY <1>1, <2>1, <2>4, <3>4 DEF DInv, Progress
  <2>6. ASSUME NEW r \in 2..Len(given), OneErased(r)
        PROVE  DInv'
    <3>1. BothSurplus(r, tmp + 2) /\ tmp + 2 \in 1..Len(given)
      <4>1. array[tmp + 1] = given[tmp + 2] /\ tmp + 2 <= Len(given)
        BY <1>1, <1>2, <2>6 DEF OneErased
      <4>2. PICK j \in {tmp, tmp + 1} : j # r /\ array[tmp] = given[j]
        BY <1>1, <1>2, <2>6 DEF OneErased
      <4>3. j \in (1..Len(given)) \ {r, tmp + 2} /\ given[j].client = given[tmp + 2].client
        BY <1>1, <1>2, <4>1, <4>2
      <4>4. r - 1 \in (1..Len(given)) \ {r, tmp + 2} /\ given[r - 1].client = given[r].client
        BY <1>1, <1>2, <2>6 DEF OneErased
      <4>5. r # tmp + 2
        BY <1>2, <2>6 DEF OneErased
      <4> QED  BY <1>2, <4>1, <4>3, <4>4, <4>5 DEF BothSurplus
    <3>2. TwoSurplus
      BY <1>2, <3>1 DEF TwoSurplus
    <3>3. i = tmp + 1
      BY <2>6 DEF OneErased
    <3>4. array'[tmp + 1] = array[tmp + 1] /\ array'[tmp] = array[tmp]
      BY <1>1, <1>2, <1>4, <2>3, <3>3
    <3>5. Behind'
      BY <1>1, <1>2, <1>4, <2>1, <2>3, <2>4, <3>2, <3>3, <3>4 DEF Behind
    <3> QED  BY <1>1, <2>1, <2>4, <3>5 DEF DInv, Progress
  <2>7. CASE Behind
    <3>1. array'[tmp + 1] = array[tmp + 1] /\ array'[tmp] = array[tmp]
      BY <1>1, <1>2, <1>4, <2>3, <2>7 DEF Behind
    <3>2. Behind'
      BY <1>1, <1>2, <1>4, <2>1, <2>3, <2>4, <2>7, <3>1 DEF Behind
    <3> QED  BY <1>1, <2>1, <2>4, <3>2 DEF DInv, Progress
  <2> QED  BY <2>5, <2>6, <2>7 DEF DInv, Progress
<1> QED  BY <1>2, <1>3, <1>4

(* The loop stops behind the last entry.                                   *)
LEMMA DStop ==
  ASSUME DInv, Stop
  PROVE  DInv'
<1>1. /\ pc' = "done" /\ pc = "loop" /\ tmp + 1 > Len(array)
      /\ given' = given /\ array' = array /\ i' = i /\ tmp' = tmp
  BY DEF Stop, NextEntry
<1>2. /\ tmp \in 0..Len(array) /\ Len(array) \in Nat
  BY LenProperties DEF DInv, Typed
<1>3. ~Behind
  BY <1>1, <1>2 DEF Behind
<1>4. Progress'
  BY <1>1, <1>3 DEF DInv, Progress, NoneErased, OneErased, KeptApart
<1> QED  BY <1>1, <1>2, <1>4 DEF DInv, Typed, GivenSorted

(* The invariant holds of every reachable state.                           *)
LEMMA DHolds == Spec => []DInv
<1>1. Init => DInv
  BY DInit
<1>2. DInv /\ [Next]_vars => DInv'
  <2>1. ASSUME DInv, UNCHANGED vars  PROVE DInv'
    BY <2>1 DEF vars, DInv, Typed, GivenSorted, Progress, NoneErased, OneErased,
                KeptApart, Behind, TwoSurplus, BothSurplus
  <2> QED  BY <2>1, DKeep, DErase, DStop DEF Next
<1> QED  BY <1>1, <1>2, PTL DEF Spec

----------------------------------------------------------------------------
(* Behind the last entry the invariant is what comes back.                 *)
LEMMA DoneRight ==
  ASSUME DInv
  PROVE  DoneIsRight
<1> SUFFICES ASSUME DInv, pc = "done"
             PROVE  DoneIsRight
  BY DEF DoneIsRight
<1>1. /\ tmp = Len(array) /\ GivenSorted /\ array \in Seq(Entry)
      /\ Len(array) \in Nat /\ Len(given) \in Nat
      /\ Entries = {given[k] : k \in 1..Len(given)}
      /\ ToSet(array) = {array[k] : k \in 1..Len(array)}
  BY LenProperties DEF DInv, Typed, GivenSorted, Entries, ToSet
<1>2. /\ \A k \in 1..Len(given) : given[k].client \in Int /\ given[k].from = k
      /\ \A k \in 1..Len(array) : array[k].client \in Int
  <2>1. \A k \in 1..Len(given) : given[k] \in Entry
    BY <1>1, ElementOfSeq DEF GivenSorted
  <2>2. \A k \in 1..Len(array) : array[k] \in Entry
    BY <1>1, ElementOfSeq
  <2> QED  BY <1>1, <2>1, <2>2 DEF Entry, GivenSorted
<1>3. KeptApart
  BY DEF DInv, Progress, NoneErased, OneErased, Behind
<1>4. \A j \in 1..(Len(array) - 1) : array[j].client < array[j + 1].client
  BY <1>1, <1>3 DEF KeptApart
<1>5. \A j, k \in 1..Len(array) : array[j].client = array[k].client => j = k
  BY <1>1, <1>2, <1>3 DEF KeptApart
<1>6. ASSUME NEW d \in Entries
      PROVE  \E k \in 1..Len(array) : array[k].client = d.client /\ array[k].from <= d.from
  <2>1. PICK m \in 1..Len(given) : d = given[m]
    BY <1>1
  <2>2. CASE NoneErased
    BY <1>1, <1>2, <2>1, <2>2 DEF NoneErased
  <2>3. ASSUME NEW r \in 2..Len(given), OneErased(r)
        PROVE  \E k \in 1..Len(array) : array[k].client = d.client /\ array[k].from <= d.from
    <3>1. CASE m < r
      <4>1. m \in 1..Len(array) /\ array[m] = given[m]
        BY <1>1, <2>3, <3>1 DEF OneErased
      <4> QED  BY <1>2, <2>1, <4>1
    <3>2. CASE m = r
      <4>1. r - 1 \in 1..Len(array) /\ array[r - 1] = given[r - 1]
        BY <1>1, <2>3 DEF OneErased
      <4>2. given[r - 1].from = r - 1 /\ given[r].from = r
        BY <1>1, <1>2
      <4> QED  BY <2>1, <2>3, <3>2, <4>1, <4>2 DEF OneErased
    <3>3. CASE m > r
      <4>1. m - 1 \in 1..Len(array) /\ ~(m - 1 < r)
        BY <1>1, <2>3, <3>3 DEF OneErased
      <4>2. array[m - 1] = given[m]
        BY <1>1, <2>3, <4>1 DEF OneErased
      <4> QED  BY <1>2, <2>1, <4>1, <4>2
    <3> QED  BY <1>1, <3>1, <3>2, <3>3
  <2> QED  BY <2>2, <2>3 DEF DInv, Progress, Behind
<1>7. ToSet(array) \subseteq Entries
  <2> SUFFICES ASSUME NEW k \in 1..Len(array)
               PROVE  array[k] \in Entries
    BY <1>1
  <2>1. CASE NoneErased
    BY <1>1, <2>1 DEF NoneErased
  <2>2. ASSUME NEW r \in 2..Len(given), OneErased(r)
        PROVE  array[k] \in Entries
    <3>1. array[k] = given[k] \/ array[k] = given[k + 1]
      BY <2>2 DEF OneErased
    <3>2. k \in 1..Len(given) /\ k + 1 \in 1..Len(given)
      BY <1>1, <2>2 DEF OneErased
    <3> QED  BY <1>1, <3>1, <3>2
  <2> QED  BY <2>1, <2>2 DEF DInv, Progress, Behind
<1>8. {e.client : e \in ToSet(array)} = {e.client : e \in Entries}
  BY <1>1, <1>6, <1>7
<1>9. ASSUME NEW e \in ToSet(array), NEW d \in Entries, d.client = e.client
      PROVE  e.from <= d.from
  <2>1. PICK j \in 1..Len(array) : e = array[j]
    BY <1>1
  <2>2. PICK k \in 1..Len(array) : array[k].client = d.client /\ array[k].from <= d.from
    BY <1>6
  <2> QED  BY <1>5, <1>9, <2>1, <2>2
<1> QED  BY <1>4, <1>8, <1>9 DEF DoneIsRight

(* A deduplication that comes back leaves one entry per client, the first  *)
(* of each, in order: what Filtering!Intercept and Answers take it to do.  *)
THEOREM ComesBackRight == Spec => []DoneIsRight
BY DoneRight, DHolds, PTL

(* There are n places up to n.                                             *)
LEMMA PlacesCounted ==
  ASSUME NEW n \in Nat
  PROVE  IsFiniteSet(1..n) /\ Cardinality(1..n) = n
<1>1. 1 \in Int /\ n \in Int
  OBVIOUS
<1>2. IsFiniteSet(1..n) /\ Cardinality(1..n) = IF 1 > n THEN 0 ELSE n - 1 + 1
  BY <1>1, FS_Interval, Zenon
<1> QED  BY <1>2

(* Entries are told apart by their places: there are as many as places.    *)
LEMMA EntriesCounted ==
  ASSUME Typed
  PROVE  IsFiniteSet(Entries) /\ Cardinality(Entries) = Len(given)
<1> DEFINE f == [k \in 1..Len(given) |-> given[k]]
<1>1. Len(given) \in Nat /\ DOMAIN given = 1..Len(given)
  BY LenProperties DEF Typed, GivenSorted
<1>2. f \in Bijection(1..Len(given), Entries)
  <2>1. \A j, k \in 1..Len(given) : f[j] = f[k] => j = k
    BY DEF Typed, GivenSorted
  <2>2. \A e \in Entries : \E k \in 1..Len(given) : f[k] = e
    BY <1>1 DEF Entries, ToSet
  <2>3. f \in [1..Len(given) -> Entries]
    BY <1>1 DEF Entries, ToSet
  <2> QED  BY <2>1, <2>2, <2>3 DEF Bijection, Injection, Surjection, IsInjective
<1>3. ExistsBijection(1..Len(given), Entries)
  BY <1>2 DEF ExistsBijection
<1>4. IsFiniteSet(1..Len(given)) /\ Cardinality(1..Len(given)) = Len(given)
  BY <1>1, PlacesCounted
<1> QED  BY <1>3, <1>4, FS_Bijection

(* It does not come back exactly when two entries or more are surplus,     *)
(* whether of one client or of two: what Filtering!SearchCrashes says.     *)
THEOREM CrashesWhenItMust == Spec => []CrashesOnSurplus
<1> DEFINE Who == {e.client : e \in Entries}
<1>1. ASSUME DInv
      PROVE  /\ Len(given) \in Nat /\ Len(array) \in Nat /\ Cardinality(Entries) = Len(given)
             /\ Who = {given[k].client : k \in 1..Len(given)}
  <2>1. Typed /\ given \in Seq(Entry) /\ array \in Seq(Entry)
    BY <1>1 DEF DInv, Typed, GivenSorted
  <2>2. Len(given) \in Nat /\ Len(array) \in Nat /\ DOMAIN given = 1..Len(given)
    BY <2>1, LenProperties
  <2>3. Entries = {given[k] : k \in 1..Len(given)}
    BY <2>2 DEF Entries, ToSet
  <2> QED  BY <2>1, <2>2, <2>3, EntriesCounted
<1>2. ASSUME DInv, pc = "done"
      PROVE  SurplusOf(Entries) <= 1
  <2> DEFINE g == [k \in 1..Len(array) |-> array[k].client]
  <2>1. DoneIsRight /\ KeptApart /\ tmp = Len(array)
    BY <1>2, DoneRight DEF DInv, Progress, NoneErased, OneErased, Behind
  <2>2. Who = {array[k].client : k \in 1..Len(array)}
    <3>1. ToSet(array) = {array[k] : k \in 1..Len(array)}
      BY <1>2, LenProperties DEF DInv, Typed, ToSet
    <3> QED  BY <1>2, <2>1, <3>1 DEF DoneIsRight
  <2>3. \A j, k \in 1..Len(array) : array[j].client = array[k].client => j = k
    <3>1. \A k \in 1..Len(array) : array[k].client \in Int
      <4>1. \A k \in 1..Len(array) : array[k] \in Entry
        BY <1>2, ElementOfSeq DEF DInv, Typed
      <4> QED  BY <4>1 DEF Entry
    <3> QED  BY <1>1, <1>2, <2>1, <3>1 DEF KeptApart
  <2>4. g \in Bijection(1..Len(array), Who)
    BY <2>2, <2>3 DEF Bijection, Injection, Surjection, IsInjective
  <2>5. ExistsBijection(1..Len(array), Who)
    BY <2>4 DEF ExistsBijection
  <2>6. IsFiniteSet(1..Len(array)) /\ Cardinality(1..Len(array)) = Len(array)
    BY <1>1, <1>2, PlacesCounted
  <2>7. Cardinality(Who) = Len(array)
    BY <2>5, <2>6, FS_Bijection
  <2>8. Len(given) - Len(array) <= 1
    BY <1>1, <1>2 DEF DInv, Progress, NoneErased, OneErased, Behind
  <2> QED  BY <1>1, <1>2, <2>7, <2>8 DEF SurplusOf
<1>3. ASSUME DInv, pc = "crashed"
      PROVE  SurplusOf(Entries) >= 2
  <2>1. PICK a, b \in 1..Len(given) : BothSurplus(a, b)
    BY <1>3 DEF DInv, TwoSurplus
  <2> DEFINE J == ((1..Len(given)) \ {a}) \ {b}
             h == [k \in J |-> given[k].client]
  <2>2. IsFiniteSet(J) /\ Cardinality(J) = Len(given) - 2
    <3>1. IsFiniteSet(1..Len(given)) /\ Cardinality(1..Len(given)) = Len(given)
      BY <1>1, <1>3, PlacesCounted
    <3>2. IsFiniteSet((1..Len(given)) \ {a}) /\ Cardinality((1..Len(given)) \ {a}) = Len(given) - 1
      BY <3>1, FS_RemoveElement
    <3>3. b \in (1..Len(given)) \ {a}
      BY <2>1 DEF BothSurplus
    <3>4. IsFiniteSet(J) /\ Cardinality(J) = (Len(given) - 1) - 1
      BY <3>2, <3>3, FS_RemoveElement
    <3> QED  BY <1>1, <1>3, <3>4
  <2>3. h \in Surjection(J, Who)
    <3>1. h \in [J -> Who]
      BY <1>1, <1>3
    <3>2. ASSUME NEW k \in 1..Len(given)
          PROVE  \E j \in J : h[j] = given[k].client
      <4>1. CASE k \in {a, b}
        BY <2>1, <4>1 DEF BothSurplus
      <4>2. CASE k \notin {a, b}
        BY <4>2
      <4> QED  BY <4>1, <4>2
    <3>3. ASSUME NEW c \in Who
          PROVE  \E j \in J : h[j] = c
      <4>1. PICK k \in 1..Len(given) : c = given[k].client
        BY <1>1, <1>3
      <4> QED  BY <3>2, <4>1
    <3> QED  BY <3>1, <3>3 DEF Surjection
  <2>4. IsFiniteSet(Who) /\ Cardinality(Who) <= Len(given) - 2
    BY <2>2, <2>3, FS_Surjection
  <2>5. Cardinality(Who) \in Nat
    BY <2>4, FS_CardinalityType
  <2> HIDE DEF Who
  <2>6. SurplusOf(Entries) = Cardinality(Entries) - Cardinality(Who)
    BY DEF SurplusOf, Who
  <2> QED  BY <1>1, <1>3, <2>4, <2>5, <2>6
<1>4. DInv => CrashesOnSurplus
  BY <1>2, <1>3 DEF CrashesOnSurplus
<1> QED  BY <1>4, DHolds, PTL
=============================================================================

---------------------------- MODULE OrderedTable ----------------------------
(***************************************************************************)
(* What a hash table of uthash.h promises the program: the elements that   *)
(* were added and not deleted, in the order they were added, which is the  *)
(* order HASH_ITER visits them in, and how many they are (HASH_COUNT).     *)
(***************************************************************************)
EXTENDS Integers, SequencesExt

CONSTANT Elem
VARIABLES items, count

Init == items = <<>> /\ count = 0

Add(e) ==
  /\ e \notin ToSet(items)
  /\ items' = Append(items, e) /\ count' = count + 1

Delete(e) ==
  /\ \E i \in DOMAIN items : items[i] = e /\ items' = RemoveAt(items, i)
  /\ count' = count - 1

Next == \E e \in Elem : Add(e) \/ Delete(e)

Spec == Init /\ [][Next]_<<items, count>>
=============================================================================

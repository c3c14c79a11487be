----------------------------- MODULE Dictionary -----------------------------
(***************************************************************************)
(* dictionary.c: the table iniparser keeps a file in, as operators on one  *)
(* value.  A dictionary is a record                                        *)
(*   n    : the number of entries                                          *)
(*   slot : the parallel arrays key, val and hash, index i of the code at  *)
(*          i + 1: Free, or <<key, value>>                                 *)
(* The hash of a key only saves comparisons (equal keys have equal hashes, *)
(* and the keys are compared as well), so it is left out.  Allocation does *)
(* not fail here.                                                          *)
(***************************************************************************)
EXTENDS Integers, SequencesExt

CONSTANT MinSize   \* DICTMINSZ, 128 in the code

ASSUME MinSizeAssumption == MinSize \in Nat \ {0}

Free == <<>>

(* dictionary_new(0). *)
DictionaryNew == [n |-> 0, slot |-> [i \in 1..MinSize |-> Free]]

(* Where a key is found: the scan goes up from the first slot.             *)
Holding(d, key) == {i \in DOMAIN d.slot : d.slot[i] # Free /\ d.slot[i][1] = key}
FirstHolding(d, key) == CHOOSE i \in Holding(d, key) :
                          \A j \in Holding(d, key) : i <= j

DictionaryGet(d, key, def) ==
  IF Holding(d, key) = {} THEN def ELSE d.slot[FirstHolding(d, key)][2]

(* dictionary_grow: the first half as it was, the second free. *)
DictionaryGrow(d) ==
  [d EXCEPT !.slot = @ \o [i \in DOMAIN @ |-> Free]]

(* The first free slot from the n-th on, past the end from the start: the  *)
(* loop ends because there is one.                                         *)
FreeSlots(d) == {i \in DOMAIN d.slot : d.slot[i] = Free}
NextFree(d) ==
  LET from == {i \in FreeSlots(d) : i > d.n}
      candidates == IF from # {} THEN from ELSE FreeSlots(d)
  IN CHOOSE i \in candidates : \A j \in candidates : i <= j

Insert(d, key, val) ==
  [n |-> d.n + 1, slot |-> [d.slot EXCEPT ![NextFree(d)] = <<key, val>>]]

(* dictionary_set. *)
DictionarySet(d, key, val) ==
  IF Holding(d, key) # {}
  THEN [d EXCEPT !.slot[FirstHolding(d, key)][2] = val]
  ELSE Insert(IF d.n = Len(d.slot) THEN DictionaryGrow(d) ELSE d, key, val)
=============================================================================

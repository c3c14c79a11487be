------------------------------- MODULE Dedup -------------------------------
(***************************************************************************)
(* The loop of deduplication in filtering.c, one iteration a step, on the  *)
(* array utarray_sort has just sorted by client.  It compares each entry   *)
(* with the last one it kept (tmp), but erases at the number of entries it *)
(* has visited (i), which runs ahead of the shrinking array.               *)
(***************************************************************************)
EXTENDS Integers, SequencesExt

CONSTANTS Clients,     \* how many clients; they are 1..Clients, in strcmp order
          MaxEntries   \* the longest array given to deduplication

ASSUME DedupAssumption == Clients \in Nat /\ MaxEntries \in Nat

VARIABLES given,   \* the sorted array as it was at entry
          array,   \* the UT_array
          i,       \* the loop counter
          tmp,     \* position of the last entry kept, counted from 1; 0 is NULL
          pc       \* "loop", "done" or "crashed"

vars == <<given, array, i, tmp, pc>>

Sorted(s) == \A j \in 1..(Len(s) - 1) : s[j] <= s[j + 1]

(* Arrays sorted by client.  An entry is its client and where it stands    *)
(* before the loop, which tells entries of one client apart as their       *)
(* max_qos may.                                                            *)
SortedArrays ==
  { [j \in DOMAIN s |-> [client |-> s[j], from |-> j]] :
      s \in {r \in UNION {[1..n -> 1..Clients] : n \in 0..MaxEntries} : Sorted(r)} }

Init ==
  /\ given \in SortedArrays
  /\ array = given
  /\ i = 0
  /\ tmp = 0
  /\ pc = "loop"

(* utarray_next: the entry after tmp, the first one when tmp is NULL.      *)
NextEntry == tmp + 1

Duplicate == tmp # 0 /\ array[NextEntry].client = array[tmp].client

Keep ==
  /\ pc = "loop" /\ NextEntry <= Len(array) /\ ~Duplicate
  /\ tmp' = NextEntry
  /\ i' = i + 1
  /\ UNCHANGED <<given, array, pc>>

(* Three mutants of the next action: an erase past the end that waits; one *)
(* that counts i from 1; one that erases the entry it has just compared.   *)
EraseStalling ==
  /\ pc = "loop" /\ NextEntry <= Len(array) /\ Duplicate
  /\ i < Len(array)
  /\ array' = RemoveAt(array, i + 1)
  /\ i' = i + 1
  /\ UNCHANGED <<given, tmp, pc>>

EraseOneEarly ==
  /\ pc = "loop" /\ NextEntry <= Len(array) /\ Duplicate
  /\ IF i >= Len(array)
     THEN pc' = "crashed" /\ UNCHANGED <<array, i>>
     ELSE /\ array' = RemoveAt(array, i)
          /\ i' = i + 1
          /\ UNCHANGED pc
  /\ UNCHANGED <<given, tmp>>

EraseCompared ==
  /\ pc = "loop" /\ NextEntry <= Len(array) /\ Duplicate
  /\ array' = RemoveAt(array, NextEntry)
  /\ i' = i + 1
  /\ UNCHANGED <<given, tmp, pc>>

(* utarray_erase(array, i, 1), i counted from 0: past the end the          *)
(* destructor childer_node_dtor is handed NULL and dereferences it.        *)
Erase ==
  /\ pc = "loop" /\ NextEntry <= Len(array) /\ Duplicate
  /\ IF i >= Len(array)
     THEN pc' = "crashed" /\ UNCHANGED <<array, i>>
     ELSE /\ array' = RemoveAt(array, i + 1)
          /\ i' = i + 1
          /\ UNCHANGED pc
  /\ UNCHANGED <<given, tmp>>

Stop ==
  /\ pc = "loop" /\ NextEntry > Len(array)
  /\ pc' = "done"
  /\ UNCHANGED <<given, array, i, tmp>>

Next == Keep \/ Erase \/ Stop

Spec == Init /\ [][Next]_vars /\ WF_vars(Next)

----------------------------------------------------------------------------
Entries == ToSet(given)

SurplusOf(entries) ==
  Cardinality(entries) - Cardinality({e.client : e \in entries})

(* A deduplication that comes back leaves one entry per client, the first  *)
(* of each, in order: what Filtering!Intercept and Answers take it to do.  *)
DoneIsRight ==
  pc = "done" =>
    /\ {e.client : e \in ToSet(array)} = {e.client : e \in Entries}
    /\ \A j \in 1..(Len(array) - 1) : array[j].client < array[j + 1].client
    /\ \A e \in ToSet(array), d \in Entries :
         d.client = e.client => e.from <= d.from

(* It does not come back exactly when two entries or more are surplus,     *)
(* whether of one client or of two: what Filtering!SearchCrashes says.     *)
CrashesOnSurplus ==
  /\ pc = "done" => SurplusOf(Entries) <= 1
  /\ pc = "crashed" => SurplusOf(Entries) >= 2

(* The loop ends, one way or the other, on every array.                    *)
Terminates == <>(pc # "loop")
=============================================================================

------------------------------- MODULE Lookup -------------------------------
(***************************************************************************)
(* utarray_find as delete_client_id and delete_topic use it (filtering.c): *)
(* the loop of glibc's bsearch over an array of subscribers as             *)
(* deduplication left it, with struct_str_sort for its comparison.         *)
(* Client identifiers are numbers in strcmp order; one step is one probe.  *)
(***************************************************************************)
EXTENDS Integers, Sequences

VARIABLES array,   \* the client_id of each entry
          key,     \* the client_id looked for
          l, u,    \* what is left to search: indexes l..u-1, counted from 0
          answer   \* the index found, NULL, or Searching

vars == <<array, key, l, u, answer>>

NULL      == -1
Searching == -2

Sign(n) == IF n < 0 THEN -1 ELSE IF n > 0 THEN 1 ELSE 0

(* bsearch hands the key in first and the entry second; struct_str_sort's  *)
(* parameters are named and used the other way round.                      *)
(* A mutant: they are compared in the order bsearch means.                 *)
StructStrSortAsMeant(first, second) == Sign(first - second)

StructStrSort(first, second) == Sign(second - first)

Begin ==
  /\ l = 0 /\ u = Len(array)
  /\ answer = Searching

Probe ==
  LET idx == (l + u) \div 2
      comparison == StructStrSort(key, array[idx + 1])
  IN  /\ answer = Searching /\ l < u
      /\ \/ comparison < 0 /\ u' = idx /\ UNCHANGED <<l, answer>>
         \/ comparison > 0 /\ l' = idx + 1 /\ UNCHANGED <<u, answer>>
         \/ comparison = 0 /\ answer' = idx /\ UNCHANGED <<l, u>>
      /\ UNCHANGED <<array, key>>

GiveUp ==
  /\ answer = Searching /\ l >= u
  /\ answer' = NULL
  /\ UNCHANGED <<array, key, l, u>>

Next == Probe \/ GiveUp

(* Of the subscribers to one filter the search finds the one in the middle *)
(* of the array, and misses all others: of two, the first cannot be        *)
(* deleted (filtering.c:40, 366, 439).                                     *)
OnlyTheMiddle ==
  answer # Searching =>
    LET middle == Len(array) \div 2
    IN  answer = IF array # <<>> /\ array[middle + 1] = key THEN middle ELSE NULL
=============================================================================

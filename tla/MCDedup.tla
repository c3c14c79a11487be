------------------------------ MODULE MCDedup ------------------------------
(* An array is deduplicated, and then a client is looked for in what has   *)
(* been left.  Instance of Dedup and Lookup for TLC.                       *)
EXTENDS Dedup

VARIABLES key, l, u, answer

Find == INSTANCE Lookup WITH array <- [j \in DOMAIN array |-> array[j].client]

MCInit ==
  /\ Init
  /\ key \in 1..Clients
  /\ Find!Begin

Deduplicate ==
  /\ Next
  /\ u' = Len(array')
  /\ UNCHANGED <<key, l, answer>>

LookUp ==
  /\ pc = "done" /\ UNCHANGED vars
  /\ Find!Next

MCNext == Deduplicate \/ LookUp

MCSpec == MCInit /\ [][MCNext]_<<vars, key, l, u, answer>> /\ WF_vars(Next)

(* Of the subscribers to one filter the search finds the one in the middle *)
(* of the array, and misses all others: of two, the first cannot be        *)
(* deleted (filtering.c:40, 366, 439).                                     *)
OnlyTheMiddle == Find!OnlyTheMiddle
=============================================================================

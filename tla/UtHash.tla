------------------------------- MODULE UtHash -------------------------------
(***************************************************************************)
(* The hash table of uthash.h as the program uses it: HASH_ADD and         *)
(* HASH_DELETE with the expansion of the buckets, HASH_FIND, HASH_ITER.    *)
(* Keys may be equal: session_add adds sessions of one client_id and of    *)
(* one socket side by side.  malloc does not fail; there is no bloom       *)
(* filter, and deletions are of elements that are in the table.            *)
(***************************************************************************)
EXTENDS Integers, FiniteSets, SequencesExt, FiniteSetsExt

CONSTANTS Elem,         \* the structures with a hash handle
          Nil,          \* NULL
          KeyOf,        \* the key of each
          Hash,         \* HASH_JEN: the hash value of each key
          InitBuckets,  \* HASH_INITIAL_NUM_BUCKETS, 32
          Thresh,       \* HASH_BKT_CAPACITY_THRESH, 10
          MaxBuckets    \* bound: expansions up to this size

Key == {KeyOf[e] : e \in Elem}

PowersOfTwo == {1, 2, 4, 8, 16, 32, 64, 128, 256, 512, 1024}

ASSUME UtHashAssumption ==
  /\ IsFiniteSet(Elem) /\ Nil \notin Elem
  /\ DOMAIN KeyOf = Elem /\ Hash \in [Key -> Nat]
  /\ InitBuckets \in PowersOfTwo /\ Thresh \in Nat \ {0} /\ MaxBuckets \in Nat

VARIABLES
  table,  \* the user's head pointer, UT_hash_table, its buckets, the handles
  since   \* history: elements added since the buckets were last rearranged

vars == <<table, since>>

Ptr == Elem \cup {Nil}

NoBucket == [first |-> Nil, count |-> 0, mult |-> 0]
NoHandle == [prev |-> Nil, next |-> Nil, hh_prev |-> Nil, hh_next |-> Nil]

(* No table.  What HASH_MAKE_TABLE puts there is the same but for head and *)
(* tail; handles of elements outside the table mean nothing.               *)
NoTable ==
  [head |-> Nil, tail |-> Nil, num_items |-> 0, num_buckets |-> InitBuckets,
   ineff |-> 0, noexpand |-> FALSE,
   bucket |-> [b \in 0..(InitBuckets - 1) |-> NoBucket],
   hh |-> [e \in Elem |-> NoHandle]]

TypeOK ==
  /\ {table.head, table.tail} \subseteq Ptr
  /\ table.num_items \in 0..Cardinality(Elem)
  /\ table.num_buckets \in Nat \ {0}
  /\ table.ineff \in 0..2 /\ table.noexpand \in BOOLEAN
  /\ table.bucket \in [0..(table.num_buckets - 1) -> [first : Ptr, count : Nat, mult : Nat]]
  /\ table.hh \in [Elem -> [prev : Ptr, next : Ptr, hh_prev : Ptr, hh_next : Ptr]]
  /\ since \subseteq Elem

Init == table = NoTable /\ since = {}

(* Following one link of the handles from an element; no longer than there *)
(* are elements and one more.                                              *)
Path(start, link) ==
  LET at[n \in 1..(Cardinality(Elem) + 1)] ==
        IF n = 1 THEN start ELSE IF at[n - 1] = Nil THEN Nil ELSE link[at[n - 1]]
  IN  [n \in {m \in 1..(Cardinality(Elem) + 1) : at[m] # Nil} |-> at[n]]

AppOrder(t) == Path(t.head, [e \in Elem |-> t.hh[e].next])
Chain(t, b) == Path(t.bucket[b].first, [e \in Elem |-> t.hh[e].hh_next])

Present == ToSet(AppOrder(table))

----------------------------------------------------------------------------
(* HASH_TO_BKT: the mask of a power of two is the remainder. *)
ToBkt(hashv, num_buckets) == hashv % num_buckets

(* HASH_FIND: the first of the chain with the key.  A mutant: the last.    *)
FindLast(k) ==
  IF table.head = Nil THEN Nil
  ELSE LET chain == Chain(table, ToBkt(Hash[k], table.num_buckets))
           hits  == {n \in DOMAIN chain : KeyOf[chain[n]] = k}
       IN  IF hits = {} THEN Nil ELSE chain[Max(hits)]

Find(k) ==
  IF table.head = Nil THEN Nil
  ELSE LET chain == Chain(table, ToBkt(Hash[k], table.num_buckets))
           hits  == {n \in DOMAIN chain : KeyOf[chain[n]] = k}
       IN  IF hits = {} THEN Nil ELSE chain[Min(hits)]

(* HASH_MAKE_TABLE for the first element, HASH_APPEND_LIST for another.    *)
Listed(t, e) ==
  IF t.head = Nil THEN [NoTable EXCEPT !.head = e, !.tail = e, !.num_items = 1]
  ELSE [t EXCEPT !.hh[e] = [NoHandle EXCEPT !.prev = t.tail], !.hh[t.tail].next = e,
                 !.tail = e, !.num_items = @ + 1]

(* HASH_ADD_TO_BKT: at the head of the chain. *)
Pushed(t, e, b) ==
  LET first == t.bucket[b].first
      back  == IF first = Nil THEN t ELSE [t EXCEPT !.hh[first].hh_prev = e]
  IN  [back EXCEPT !.hh[e].hh_next = first, !.hh[e].hh_prev = Nil,
                   !.bucket[b].first = e, !.bucket[b].count = @ + 1]

(* Afterwards, is the chain too long? *)
TooLong(t, b) ==
  ~t.noexpand /\ t.bucket[b].count >= (t.bucket[b].mult + 1) * Thresh

(* ideal_chain_maxlen: the items over the new number of buckets, rounded up. *)
Ideal(t) ==
  LET size == 2 * t.num_buckets
  IN  t.num_items \div size + IF t.num_items % size # 0 THEN 1 ELSE 0

(* The body of the loop of HASH_EXPAND_BUCKETS: one element moves from its *)
(* old chain to the head of its new one.  A mutant: the chain found there  *)
(* is dropped.                                                             *)
MovedAlone(t, e, ideal) ==
  LET b == ToBkt(Hash[KeyOf[e]], 2 * t.num_buckets)
  IN  Pushed([t EXCEPT !.bucket[b].first = Nil], e, b)

Moved(t, e, ideal) ==
  LET b == ToBkt(Hash[KeyOf[e]], 2 * t.num_buckets)
      p == Pushed(t, e, b)
      n == p.bucket[b].count
  IN  IF n > p.bucket[b].mult * ideal /\ n > ideal
      THEN [p EXCEPT !.bucket[b].mult = @ + 1] ELSE p

NonIdeal(t, ideal) ==
  FoldFunction(+, 0, [b \in DOMAIN t.bucket |-> Max({0, t.bucket[b].count - ideal})])

(* HASH_EXPAND_BUCKETS: the old chains are walked one after the other.     *)
Emptied(t) == [t EXCEPT !.bucket = [b \in 0..(2 * t.num_buckets - 1) |-> NoBucket]]

Rehashed(t, chain, ideal) ==
  LET after[n \in 0..Len(chain)] ==
        IF n = 0 THEN t ELSE Moved(after[n - 1], chain[n], ideal)
  IN  after[Len(chain)]

Expanded(t) ==
  LET after[n \in 0..t.num_buckets] ==
        IF n = 0 THEN Emptied(t) ELSE Rehashed(after[n - 1], Chain(t, n - 1), Ideal(t))
      moved == after[t.num_buckets]
      ineff == IF NonIdeal(moved, Ideal(t)) > t.num_items \div 2 THEN t.ineff + 1 ELSE 0
  IN  [moved EXCEPT !.num_buckets = 2 * @, !.ineff = ineff, !.noexpand = ineff > 1]

(* HASH_ADD *)
Add(e) ==
  /\ e \notin Present
  /\ LET listed == Listed(table, e)
         b      == ToBkt(Hash[KeyOf[e]], listed.num_buckets)
         pushed == Pushed(listed, e, b)
     IN  /\ pushed.num_buckets < MaxBuckets \/ ~TooLong(pushed, b)
         /\ IF TooLong(pushed, b)
            THEN table' = Expanded(pushed) /\ since' = {}
            ELSE table' = pushed /\ since' = since \cup {e}

(* HASH_DEL_IN_BKT.  A mutant: the head of the chain is not moved on.      *)
UnchainedInside(t, e, b) ==
  LET h == t.hh[e]
      f == IF h.hh_prev = Nil THEN t ELSE [t EXCEPT !.hh[h.hh_prev].hh_next = h.hh_next]
  IN  IF h.hh_next = Nil THEN f ELSE [f EXCEPT !.hh[h.hh_next].hh_prev = h.hh_prev]

Unchained(t, e, b) ==
  LET h == t.hh[e]
      c == [t EXCEPT !.bucket[b].count = @ - 1,
                     !.bucket[b].first = IF @ = e THEN h.hh_next ELSE @]
      f == IF h.hh_prev = Nil THEN c ELSE [c EXCEPT !.hh[h.hh_prev].hh_next = h.hh_next]
  IN  IF h.hh_next = Nil THEN f ELSE [f EXCEPT !.hh[h.hh_next].hh_prev = h.hh_prev]

(* The list the program sees.  A mutant: the tail stays with the deleted.  *)
Unlinked(t, e) ==
  LET h == t.hh[e]
      f == IF h.prev = Nil THEN [t EXCEPT !.head = h.next]
           ELSE [t EXCEPT !.hh[h.prev].next = h.next]
  IN  IF h.next = Nil THEN f ELSE [f EXCEPT !.hh[h.next].prev = h.prev]

UnlistedTailKept(t, e) == [Unlinked(t, e) EXCEPT !.num_items = @ - 1]
Unlisted(t, e) ==
  [Unlinked(t, e) EXCEPT !.num_items = @ - 1, !.tail = IF @ = e THEN t.hh[e].prev ELSE @]

(* HASH_DELETE_HH: with the last element goes the table.                   *)
Delete(e) ==
  /\ e \in Present
  /\ table' = IF table.hh[e].prev = Nil /\ table.hh[e].next = Nil THEN NoTable
              ELSE LET b == ToBkt(Hash[KeyOf[e]], table.num_buckets)
                   IN  [Unchained(Unlisted(table, e), e, b) EXCEPT !.hh[e] = NoHandle]
  /\ since' = IF table'.head = Nil THEN {} ELSE since \ {e}

Next == \E e \in Elem : Add(e) \/ Delete(e)

Spec == Init /\ [][Next]_vars

----------------------------------------------------------------------------
(* What HASH_FSCK asserts (uthash.h 519-566): the links backward mirror    *)
(* those forward, the counts are right, every element is in one chain.     *)
Mirrored(seq, back(_)) ==
  \A n \in DOMAIN seq : back(seq[n]) = IF n = 1 THEN Nil ELSE seq[n - 1]

Fsck ==
  /\ TypeOK
  /\ Mirrored(AppOrder(table), LAMBDA e : table.hh[e].prev)
  /\ Len(AppOrder(table)) = table.num_items
  /\ \A b \in DOMAIN table.bucket :
       /\ Mirrored(Chain(table, b), LAMBDA e : table.hh[e].hh_prev)
       /\ Len(Chain(table, b)) = table.bucket[b].count
  /\ FoldFunction(+, 0, [b \in DOMAIN table.bucket |-> table.bucket[b].count]) = table.num_items

(* HASH_FIND finds an element if there is one with the key, whatever the   *)
(* expansions and deletions before (uthash.h 156, 836).                    *)
FindsWhatIsThere ==
  \A k \in Key :
    IF \E e \in Present : KeyOf[e] = k THEN Find(k) \in Present /\ KeyOf[Find(k)] = k
    ELSE Find(k) = Nil

(* Of several with one key it finds the newest of those that were added    *)
(* since the buckets were last rearranged, for an expansion turns every    *)
(* chain around (uthash.h 866): session_client_id (session.c 134) relies   *)
(* on which of a client's sessions is found.                               *)
NewestSince ==
  \A k \in Key :
    LET items  == AppOrder(table)
        newest == SelectLastInSeq(items, LAMBDA e : KeyOf[e] = k)
    IN  (\E e \in since : KeyOf[e] = k) => Find(k) = items[newest]

(* The table is the list of its elements: OrderedTable.                    *)
Abstract == INSTANCE OrderedTable WITH items <- AppOrder(table), count <- table.num_items
Implements == Abstract!Spec
=============================================================================

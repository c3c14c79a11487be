----------------------------- MODULE Filtering -----------------------------
(***************************************************************************)
(* The subscription trie of filtering.c, as operators on one value.        *)
(*                                                                         *)
(* A key (topic or topic filter) is the sequence of its levels: "a//b" is  *)
(* <<"a", "", "b">>.  A trie node is the path of hash keys that leads to   *)
(* it; `children' and `plus_children' never share a key ("+" is only ever  *)
(* in plus_children), so one path names one node, and the first label      *)
(* tells root.children from sys.children.  A UT_array of subscribers is    *)
(* named by its PLACE: node n's own array childer_node is at n, its        *)
(* PoundNode.childer_node at n followed by "#", root.childer_node at       *)
(* <<"#">>.  A trie is a record                                            *)
(*   nodes : the nodes that exist (the root itself is not one of them)     *)
(*   alloc : the places whose UT_array pointer is not NULL                 *)
(*   subs  : the ChilderNode entries, [place, client, qos]                 *)
(* An array that was emptied stays allocated until its node is dropped,    *)
(* which the search and the deletion can tell from one never allocated.    *)
(* Clients are numbers in strcmp order, the order deduplication keeps an   *)
(* array in.                                                               *)
(*                                                                         *)
(* Left out: a first level is copied into a block of exactly its length,   *)
(* and the terminator goes one byte behind it (intercept, delete_topic;    *)
(* for '$' in search too).  malloc rounds blocks up, so nothing is hit     *)
(* unless the length is a block size, 24, 40, 56...: first levels are      *)
(* assumed to be of other lengths.                                         *)
(***************************************************************************)
EXTENDS Integers, SequencesExt

CONSTANT Misread   \* pairs <<level, longer>>: see Heard

ASSUME MisreadAssumption ==
  /\ Misread \subseteq STRING \X STRING
  /\ \A m \in Misread : m[1] # "" /\ m[2] \notin {m[1], "", "/", "+", "#"}

(* First levels that start with '$': `key[0] == '$''. *)
DollarLevels == {"$SYS"}

IsSys(key) == key[1] \in DollarLevels

(* struct RootNode root, struct SYSNode sys: zero-initialised. *)
EmptyTrie == [nodes |-> {}, alloc |-> {}, subs |-> {}]

(***************************************************************************)
(* The walk over a key that intercept, search and delete_topic share.  An  *)
(* empty level is the node "/"; of the two empty levels a key "//..."      *)
(* starts with, only one gets a node (i starts at 1, past the first '/',   *)
(* and the '/' found there makes a node only when another '/' or the end   *)
(* follows).                                                               *)
(***************************************************************************)
Label(level) == IF level = "" THEN "/" ELSE level

Walked(key) ==
  IF Len(key) > 1 /\ key[1] = "" /\ key[2] = "" THEN Tail(key) ELSE key

Place(key) == [i \in 1..Len(Walked(key)) |-> Label(Walked(key)[i])]

IsPound(place) == place[Len(place)] = "#"

(* The node a place's array hangs from; <<>>, the root, for <<"#">>. *)
NodeOf(place) == IF IsPound(place) THEN Front(place) ELSE place

(* The nodes on the way to a node, the node included. *)
Chain(node) == Prefixes(node) \ {<<>>}

(***************************************************************************)
(* intercept: make the nodes of the filter, allocate its array, append the *)
(* entry and deduplicate.  The array had at most one entry of this client, *)
(* so deduplication meets at most one pair, of which the one that was      *)
(* there stays (glibc sorts arrays of this size by merging, which is       *)
(* stable): a second subscription leaves max_qos alone.                    *)
(* First a wrong version, a mutant the runs have to tell from it: the      *)
(* later subscription replaces the earlier.                                *)
(***************************************************************************)
InterceptReplacing(t, key, q, c) ==
  LET mine(e) == e.place = Place(key) /\ e.client = c
  IN  [ nodes |-> t.nodes \cup Chain(NodeOf(Place(key))),
        alloc |-> t.alloc \cup {Place(key)},
        subs  |-> {e \in t.subs : ~mine(e)} \cup
                    {[place |-> Place(key), client |-> c, qos |-> q]} ]

Intercept(t, key, q, c) ==
  LET place == Place(key)
      held  == \E e \in t.subs : e.place = place /\ e.client = c
  IN  [ nodes |-> t.nodes \cup Chain(NodeOf(place)),
        alloc |-> t.alloc \cup {place},
        subs  |-> IF held THEN t.subs
                  ELSE t.subs \cup {[place |-> place, client |-> c, qos |-> q]} ]

(***************************************************************************)
(* What a topic is searched for as.  search copies every level but the     *)
(* first into a block of exactly its length, without a terminator: what    *)
(* HASH_FIND_STR takes for the level goes on into the bytes behind it, as  *)
(* far as the next zero.  Misread says what may be read for a level.       *)
(***************************************************************************)
ReadAs(level) == {level} \cup {m[2] : m \in {n \in Misread : n[1] = level}}

Heard(topic) ==
  {h \in [DOMAIN topic -> UNION {ReadAs(topic[i]) : i \in DOMAIN topic}] :
     h[1] = topic[1] /\ \A i \in DOMAIN topic : h[i] \in ReadAs(topic[i])}

(***************************************************************************)
(* search: level by level the nodes whose labels are the topic's or "+".   *)
(* The "#" arrays of the nodes passed on the way count; of a node the      *)
(* topic ends at its own array counts, or else (the pointer being NULL)    *)
(* its "#" array.  root.childer_node counts unless the topic starts with   *)
(* '$'; root.plus_children is followed for such a topic too.               *)
(***************************************************************************)
Follows(node, labels) ==
  /\ Len(node) <= Len(labels)
  /\ \A i \in 1..Len(node) : node[i] \in {labels[i], "+"}

Reached(t, topic) ==
  {n \in t.nodes : Follows(n, Place(topic)) /\ Chain(n) \subseteq t.nodes}

Scanned(t, topic) ==
  LET depth == Len(Place(topic))
      ends(n) == Len(n) = depth
  IN  {p \in t.alloc :
         \/ p = <<"#">> /\ ~IsSys(topic)
         \/ /\ NodeOf(p) \in Reached(t, topic)
            /\ IsPound(p) => (ends(NodeOf(p)) => NodeOf(p) \notin t.alloc)
            /\ ~IsPound(p) => ends(NodeOf(p))}

(* tmp_array before the final deduplication. *)
Gathered(t, topic) == {e \in t.subs : e.place \in Scanned(t, topic)}

ClientsOf(entries) == {e.client : e \in entries}

(***************************************************************************)
(* deduplication indexes the array it is shrinking by the number of        *)
(* entries visited: the second entry it means to drop is looked up one     *)
(* position late, and utarray_erase ends up past the end, where the        *)
(* destructor is handed NULL.  With at most one surplus entry it is right  *)
(* (module Dedup runs the loop itself).                                    *)
(***************************************************************************)
Surplus(entries) == Cardinality(entries) - Cardinality(ClientsOf(entries))

SearchCrashes(t, topic) == Surplus(Gathered(t, topic)) >= 2

(* What search may return, as max_qos by client.  Of two entries of one    *)
(* client the one gathered first stays; the order in which the arrays are  *)
(* gathered is left out, so it may be either.                              *)
Answers(t, topic) ==
  LET found == Gathered(t, topic)
  IN  {a \in [ClientsOf(found) -> {e.qos : e \in found}] :
         \A c \in ClientsOf(found) :
           \E e \in found : e.client = c /\ e.qos = a[c]}

(***************************************************************************)
(* utarray_find with struct_str_sort: bsearch hands the key in first and   *)
(* struct_str_sort compares the other way round, so that after the first   *)
(* probe, in the middle of the array, the search goes on in the wrong half *)
(* (module Lookup runs the loop).  An entry is found only in the middle.   *)
(***************************************************************************)
Found(t, e) ==
  LET array == {d \in t.subs : d.place = e.place}
  IN  Cardinality({d \in array : d.client < e.client}) = Cardinality(array) \div 2

(* delete_client_id: the client's entries go from the arrays at these      *)
(* places, where they are found.                                           *)
WithoutClient(t, places, c) ==
  {e \in t.subs : ~(e.place \in places /\ e.client = c /\ Found(t, e))}

(***************************************************************************)
(* delete_topic, delete_node, delete_client_id and the macro DELETE, for a *)
(* set of filters at once (session_delete deletes them one by one; the     *)
(* order matters only to DeleteCrashes).  A node on the way is dropped,    *)
(* from the deepest up, once nothing is left in it or below it; an entry   *)
(* that was not found keeps its node.                                      *)
(* Three mutants first: only the deepest node is ever dropped; a node is   *)
(* dropped although it still has a "+" below it; everyone's entries go.    *)
(***************************************************************************)
DeleteLeafOnly(t, keys, c) ==
  LET places == {Place(k) : k \in keys}
      kept   == WithoutClient(t, places, c)
      gone   == {n \in t.nodes \cap {NodeOf(p) : p \in places} :
                   \A m \in t.nodes : IsPrefix(n, m) =>
                     /\ m \in {NodeOf(p) : p \in places}
                     /\ \A e \in kept : NodeOf(e.place) # m}
  IN  [ nodes |-> t.nodes \ gone,
        alloc |-> {p \in t.alloc : NodeOf(p) \notin gone},
        subs  |-> kept ]

DeleteOverPlus(t, keys, c) ==
  LET places == {Place(k) : k \in keys}
      chain  == UNION {Chain(NodeOf(p)) : p \in places}
      kept   == WithoutClient(t, places, c)
      bare(n) == \A e \in kept : NodeOf(e.place) # n
      gone   == {n \in t.nodes \cap chain :
                   \A m \in t.nodes : IsPrefix(n, m) =>
                     (m \in chain /\ bare(m)) \/ (m # n /\ Last(m) = "+")}
  IN  [ nodes |-> t.nodes \ gone,
        alloc |-> {p \in t.alloc : NodeOf(p) \notin gone},
        subs  |-> kept ]

DeleteEveryones(t, keys, c) ==
  LET places == {Place(k) : k \in keys}
      chain  == UNION {Chain(NodeOf(p)) : p \in places}
      kept   == {e \in t.subs : e.place \notin places}
      bare(n) == \A e \in kept : NodeOf(e.place) # n
      gone   == {n \in t.nodes \cap chain :
                   \A m \in t.nodes : IsPrefix(n, m) => m \in chain /\ bare(m)}
  IN  [ nodes |-> t.nodes \ gone,
        alloc |-> {p \in t.alloc : NodeOf(p) \notin gone},
        subs  |-> kept ]

DeleteTopics(t, keys, c) ==
  LET places == {Place(k) : k \in keys}
      chain  == UNION {Chain(NodeOf(p)) : p \in places}
      kept   == WithoutClient(t, places, c)
      bare(n) == \A e \in kept : NodeOf(e.place) # n
      gone   == {n \in t.nodes \cap chain :
                   \A m \in t.nodes : IsPrefix(n, m) => m \in chain /\ bare(m)}
  IN  [ nodes |-> t.nodes \ gone,
        alloc |-> {p \in t.alloc : NodeOf(p) \notin gone},
        subs  |-> kept ]

(* utarray_find on a NULL array: the node is there (or the filter is "#")  *)
(* and nobody ever subscribed to exactly this filter while it was.         *)
DeleteCrashes(t, key) ==
  LET place == Place(key)
  IN  /\ place \notin t.alloc
      /\ Chain(NodeOf(place)) \subseteq t.nodes
=============================================================================

----------------------------- MODULE TopicTrie -----------------------------
(***************************************************************************)
(* The trie of filtering.c in use: any order of subscriptions,             *)
(* unsubscriptions and searches, as event_handle and session_delete issue  *)
(* them through session_topic_subscribe, _unsubscribe and _search.         *)
(***************************************************************************)
EXTENDS Filtering

CONSTANTS Client,   \* client identifiers, as numbers in strcmp order
          Filter,   \* topic filters clients use
          Topic,    \* topics messages are published on
          QoS,      \* the QoS values clients ask for
          Usages    \* bound: who uses what together, as
                    \*   [clients, filters, topics, qos]

(* A "#" stands alone at the end of a filter, topics have no wildcards,    *)
(* and no two of the filters are the same walk ("//a" and "/a" would be).  *)
ASSUME FilterAssumption ==
  /\ Filter \subseteq Seq(STRING) /\ Topic \subseteq Seq(STRING)
  /\ \A f \in Filter : f # <<>> /\ \A i \in 1..(Len(f) - 1) : f[i] # "#"
  /\ \A t \in Topic : t # <<>> /\ \A i \in 1..Len(t) : t[i] \notin {"+", "#"}
  /\ \A f, g \in Filter : Place(f) = Place(g) => f = g

ASSUME ClientAssumption == Client \subseteq Nat

ASSUME QoSAssumption == QoS \subseteq 0..2

ASSUME UsageAssumption ==
  Usages \subseteq [clients : SUBSET Client, filters : SUBSET Filter,
                    topics : SUBSET Topic, qos : SUBSET QoS]

VARIABLES usage,   \* which of the Usages this behaviour is about
          up,      \* FALSE once the process has died of a NULL pointer
          trie,    \* the globals root and sys
          found    \* what the last search returned

vars == <<usage, up, trie, found>>

Nobody == <<>>

Entry == [place : {Place(f) : f \in Filter}, client : Client, qos : QoS]

TypeOK ==
  /\ usage \in Usages
  /\ up \in BOOLEAN
  /\ trie.nodes \subseteq UNION {Chain(NodeOf(Place(f))) : f \in Filter}
  /\ trie.alloc \subseteq {Place(f) : f \in Filter}
  /\ trie.subs \subseteq Entry
  /\ DOMAIN found \subseteq Client
  /\ \A c \in DOMAIN found : found[c] \in QoS

Init ==
  /\ usage \in Usages
  /\ up = TRUE
  /\ trie = EmptyTrie
  /\ found = Nobody

Subscribe(c, f, q) ==
  /\ up
  /\ trie' = Intercept(trie, f, q, c)
  /\ found' = Nobody
  /\ UNCHANGED <<usage, up>>

Unsubscribe(c, f) ==
  /\ up
  /\ UNCHANGED usage
  /\ found' = Nobody
  /\ IF DeleteCrashes(trie, f)
     THEN up' = FALSE /\ UNCHANGED trie
     ELSE trie' = DeleteTopics(trie, {f}, c) /\ UNCHANGED up

Search(h) ==
  /\ up
  /\ UNCHANGED <<usage, trie>>
  /\ IF SearchCrashes(trie, h)
     THEN up' = FALSE /\ found' = Nobody
     ELSE found' \in Answers(trie, h) /\ UNCHANGED up

Publish(t) == \E h \in Heard(t) : Search(h)

Next ==
  \/ \E c \in usage.clients, f \in usage.filters, q \in usage.qos : Subscribe(c, f, q)
  \/ \E c \in usage.clients, f \in usage.filters : Unsubscribe(c, f)
  \/ \E t \in usage.topics : Publish(t)

Spec == Init /\ [][Next]_vars

----------------------------------------------------------------------------
(* The four structural facts every walk over the trie relies on: a node's  *)
(* ancestors exist, an array hangs from a node that exists, an entry is in *)
(* an array that is allocated, and an array has a client at most once      *)
(* (filtering.c, intercept and delete_node together).                      *)
Rooted(t)   == \A n \in t.nodes : Chain(n) \subseteq t.nodes
Hanging(t)  == \A p \in t.alloc : Chain(NodeOf(p)) \subseteq t.nodes
Filed(t)    == \A e \in t.subs : e.place \in t.alloc
Distinct(t) == \A d, e \in t.subs : d.place = e.place /\ d.client = e.client => d = e

WellFormed == TypeOK /\ Rooted(trie) /\ Hanging(trie) /\ Filed(trie) /\ Distinct(trie)

(* No dead branch: every node leads to an entry.  What stays in the trie   *)
(* beyond what is subscribed to is what delete_client_id did not find, and *)
(* the nodes that leads to; DELETE leaves nothing of its own               *)
(* (filtering.c:51, delete_node).                                          *)
NoDeadBranch ==
  \A n \in trie.nodes : \E e \in trie.subs : IsPrefix(n, NodeOf(e.place))

(* Closing a session, which deletes its filters one by one (session_delete *)
(* in session.c), is deleting them as one set, in either order.            *)
OneByOne ==
  \A c \in usage.clients : \A f, g \in usage.filters :
    LET first == DeleteTopics(trie, {f}, c)
    IN  ~DeleteCrashes(trie, f) /\ ~DeleteCrashes(first, g)
          => DeleteTopics(first, {g}, c) = DeleteTopics(trie, {f, g}, c)

(* The store the broker relies on, read off the arrays.                    *)
GrantOf(c, f) ==
  LET mine == {e \in trie.subs : e.client = c /\ e.place = Place(f)}
  IN  IF mine = {} THEN -1 ELSE (CHOOSE e \in mine : TRUE).qos

Store == INSTANCE Subscriptions
           WITH granted <- [h \in Client \X Filter |-> GrantOf(h[1], h[2])]

(* The trie is the store: nobody's grant changes by what others do, every  *)
(* search answers from the current grants, whoever has a filter to itself  *)
(* gets rid of it by giving it up, and the process dies on no other        *)
(* occasion than the two the store names -- in particular never on giving  *)
(* up a filter that is held.                                               *)
ImplementsStore == Store!Spec
=============================================================================

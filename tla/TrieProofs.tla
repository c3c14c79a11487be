----------------------------- MODULE TrieProofs -----------------------------
(***************************************************************************)
(* The trie hangs together and has no dead branches, whatever the filters, *)
(* clients and topics, and in whatever order they subscribe, give up and   *)
(* search.  Rooted is what makes dropping nodes safe: nothing that stays   *)
(* loses an ancestor.  From these, what a deletion leaves depends only on  *)
(* the entries it keeps, so deletions can be taken one by one; and the     *)
(* trie is the store of module Subscriptions.                              *)
(***************************************************************************)
EXTENDS TopicTrie, SequenceTheorems, FiniteSetTheorems, TLAPS

(* What levels become in the trie: an empty one is "/".                    *)
Step == STRING \cup {"/"}
Path == Seq(Step)

TInv == WellFormed /\ NoDeadBranch

----------------------------------------------------------------------------
(* Prefixes.                                                               *)

LEMMA PrefixIs ==
  ASSUME NEW s \in Path, NEW t \in Path
  PROVE  IsPrefix(s, t) <=> Len(s) <= Len(t) /\ \A i \in 1..Len(s) : s[i] = t[i]
<1>1. ASSUME NEW u \in Path, NEW n \in 0..Len(u)
      PROVE  /\ SubSeq(u, 1, n) \in Path /\ Len(SubSeq(u, 1, n)) = n
             /\ \A i \in 1..n : SubSeq(u, 1, n)[i] = u[i]
  <2>1. \A i \in 1..n : u[i] \in Step
    BY ElementOfSeq DEF Path
  <2> QED BY <2>1, SubSeqProperties DEF Path
<1>2. Len(s) \in Nat /\ Len(t) \in Nat
  BY LenProperties DEF Path
<1>3. ASSUME Len(s) <= Len(t), \A i \in 1..Len(s) : s[i] = t[i]
      PROVE  SubSeq(s, 1, Len(s)) = SubSeq(t, 1, Len(s))
  <2>1. PICK a, b : a = SubSeq(s, 1, Len(s)) /\ b = SubSeq(t, 1, Len(s))
    OBVIOUS
  <2>2. a \in Path /\ b \in Path /\ Len(a) = Len(b)
        /\ \A i \in 1..Len(a) : a[i] = b[i]
    BY <1>1, <1>2, <1>3, <2>1
  <2> QED BY <2>1, <2>2, SeqEqual DEF Path
<1>4. ASSUME Len(s) <= Len(t), SubSeq(s, 1, Len(s)) = SubSeq(t, 1, Len(s)),
             NEW i \in 1..Len(s)
      PROVE  s[i] = t[i]
  BY <1>1, <1>2, <1>4
<1> QED BY <1>3, <1>4 DEF IsPrefix

LEMMA PrefixReflexive ==
  ASSUME NEW s \in Path
  PROVE  IsPrefix(s, s)
BY PrefixIs, LenProperties DEF Path

LEMMA PrefixTransitive ==
  ASSUME NEW s \in Path, NEW t \in Path, NEW u \in Path, IsPrefix(s, t), IsPrefix(t, u)
  PROVE  IsPrefix(s, u)
BY PrefixIs, LenProperties DEF Path

(* The chain of a node is the prefixes it has, but for the root. *)
LEMMA ChainIs ==
  ASSUME NEW s \in Path
  PROVE  Chain(s) = {p \in Path : p # <<>> /\ IsPrefix(p, s)}
<1>1. ASSUME NEW p \in Chain(s)
      PROVE  p \in Path /\ p # <<>> /\ IsPrefix(p, s)
  <2>1. PICK n \in 0..Len(s) : p = SubSeq(s, 1, n)
    BY DEF Chain, Prefixes
  <2>2. \A i \in 1..n : s[i] \in Step
    BY LenProperties, ElementOfSeq DEF Path
  <2>3. p \in Path /\ Len(p) = n /\ \A i \in 1..n : p[i] = s[i]
    BY <2>1, <2>2, LenProperties, SubSeqProperties DEF Path
  <2> QED BY <2>3, PrefixIs DEF Chain
<1>2. ASSUME NEW p \in Path, p # <<>>, IsPrefix(p, s)
      PROVE  p \in Chain(s)
  <2>1. Len(p) \in 0..Len(s) /\ \A i \in 1..Len(p) : p[i] = s[i]
    BY <1>2, PrefixIs, LenProperties DEF Path
  <2>2. \A i \in 1..Len(p) : s[i] \in Step
    BY <2>1, LenProperties, ElementOfSeq DEF Path
  <2>3. PICK a : a = SubSeq(s, 1, Len(p))
    OBVIOUS
  <2>4. a \in Path /\ Len(a) = Len(p) /\ \A i \in 1..Len(p) : a[i] = s[i]
    BY <2>1, <2>2, <2>3, LenProperties, SubSeqProperties DEF Path
  <2>5. a = p
    BY <2>1, <2>4, SeqEqual DEF Path
  <2> QED BY <1>2, <2>1, <2>3, <2>5 DEF Chain, Prefixes
<1> QED BY <1>1, <1>2

LEMMA FilterIsPath ==
  ASSUME NEW f \in Filter
  PROVE  f \in Path /\ f # <<>>
<1>1. f \in Seq(STRING) /\ f # <<>>
  BY FilterAssumption
<1>2. Len(f) \in Nat /\ \A i \in 1..Len(f) : f[i] \in STRING
  BY <1>1, LenProperties, ElementOfSeq
<1>3. \A i \in 1..Len(f) : f[i] \in Step
  BY <1>2, Zenon DEF Step
<1>4. f = [i \in 1..Len(f) |-> f[i]]
  BY <1>1, LenProperties
<1>5. f \in [1..Len(f) -> Step]
  BY <1>3, <1>4
<1>6. f \in Path
  BY <1>2, <1>5, SeqDef DEF Path
<1> QED BY <1>1, <1>6

(* Every place has a node, and every node is a path. *)
LEMMA PlaceIsPath ==
  ASSUME NEW f \in Filter
  PROVE  Place(f) \in Path /\ NodeOf(Place(f)) \in Path
<1>1. f \in Path /\ f # <<>>
  BY FilterIsPath
<1>2. Walked(f) \in Path
  <2>1. Tail(f) \in Path
    BY <1>1, HeadTailProperties DEF Path
  <2> QED BY <1>1, <2>1 DEF Walked
<1>3. Place(f) \in Path
  <2>1. Len(Walked(f)) \in Nat /\ \A i \in 1..Len(Walked(f)) : Walked(f)[i] \in Step
    BY <1>2, LenProperties, ElementOfSeq DEF Path
  <2>2. ASSUME NEW i \in 1..Len(Walked(f))
        PROVE  Label(Walked(f)[i]) \in Step
    <3>1. Walked(f)[i] \in Step /\ "/" \in Step
      BY <2>1 DEF Step
    <3> QED BY <3>1 DEF Label
  <2> QED BY <2>1, <2>2 DEF Place, Path
<1>4. Front(Place(f)) \in Path
  <2>1. \A i \in 1..(Len(Place(f)) - 1) : Place(f)[i] \in Step
    BY <1>3, LenProperties, ElementOfSeq DEF Path
  <2> QED BY <1>3, <2>1, LenProperties, SubSeqProperties DEF Front, Path
<1> QED BY <1>3, <1>4 DEF NodeOf

(* What the types say about paths. *)
LEMMA TriePaths ==
  ASSUME TypeOK
  PROVE  /\ trie.nodes \subseteq Path /\ <<>> \notin trie.nodes
         /\ \A p \in trie.alloc : NodeOf(p) \in Path
         /\ \A e \in trie.subs : NodeOf(e.place) \in Path
<1>1. \A f \in Filter : Chain(NodeOf(Place(f))) \subseteq Path \ {<<>>}
  BY PlaceIsPath, ChainIs
<1> QED BY <1>1, PlaceIsPath DEF TypeOK, Entry

----------------------------------------------------------------------------
(* intercept.                                                              *)

LEMMA InterceptKeeps ==
  ASSUME TInv, NEW c \in Client, NEW f \in Filter, NEW q \in QoS,
         trie' = Intercept(trie, f, q, c)
  PROVE  /\ trie'.nodes \subseteq UNION {Chain(NodeOf(Place(g))) : g \in Filter}
         /\ trie'.alloc \subseteq {Place(g) : g \in Filter}
         /\ trie'.subs \subseteq Entry
         /\ Rooted(trie') /\ Hanging(trie') /\ Filed(trie') /\ Distinct(trie')
         /\ NoDeadBranch'
<1> DEFINE place == Place(f)
           new == [place |-> place, client |-> c, qos |-> q]
<1>1. /\ trie'.nodes = trie.nodes \cup Chain(NodeOf(place))
      /\ trie'.alloc = trie.alloc \cup {place}
      /\ trie'.subs = IF \E e \in trie.subs : e.place = place /\ e.client = c
                      THEN trie.subs ELSE trie.subs \cup {new}
  BY DEF Intercept
<1>2. NodeOf(place) \in Path /\ new \in Entry
  BY PlaceIsPath DEF Entry
<1> HIDE DEF new
<1>3. /\ trie'.nodes \subseteq UNION {Chain(NodeOf(Place(g))) : g \in Filter}
      /\ trie'.alloc \subseteq {Place(g) : g \in Filter}
      /\ trie'.subs \subseteq Entry
  BY <1>1, <1>2 DEF TInv, WellFormed, TypeOK
<1>4. Rooted(trie')
  <2>1. ASSUME NEW n \in Chain(NodeOf(place))
        PROVE  Chain(n) \subseteq Chain(NodeOf(place))
    BY <1>2, ChainIs, PrefixTransitive
  <2> QED BY <1>1, <2>1 DEF TInv, WellFormed, Rooted
<1>5. Hanging(trie')
  BY <1>1 DEF TInv, WellFormed, Hanging
<1>6. new.place = place /\ new.client = c
  BY DEF new
<1>7. Filed(trie') /\ Distinct(trie')
  BY <1>1, <1>6 DEF TInv, WellFormed, Filed, Distinct
<1>8. NoDeadBranch'
  <2>1. \E e \in trie'.subs : e.place = place
    BY <1>1, <1>6
  <2>2. \A n \in Chain(NodeOf(place)) : IsPrefix(n, NodeOf(place))
    BY <1>2, ChainIs
  <2>3. trie.subs \subseteq trie'.subs
    BY <1>1
  <2> QED BY <1>1, <2>1, <2>2, <2>3 DEF TInv, NoDeadBranch
<1> QED BY <1>3, <1>4, <1>5, <1>7, <1>8

----------------------------------------------------------------------------
(* delete_topic: what is dropped has nothing left below it, so that what   *)
(* is kept still hangs from the root; and what is kept has something left. *)

LEMMA DeleteKeeps ==
  ASSUME TInv, NEW c, NEW keys \in SUBSET Filter,
         trie' = DeleteTopics(trie, keys, c)
  PROVE  /\ trie'.nodes \subseteq UNION {Chain(NodeOf(Place(g))) : g \in Filter}
         /\ trie'.alloc \subseteq {Place(g) : g \in Filter}
         /\ trie'.subs \subseteq Entry
         /\ Rooted(trie') /\ Hanging(trie') /\ Filed(trie') /\ Distinct(trie')
         /\ NoDeadBranch'
<1> DEFINE places == {Place(k) : k \in keys}
           chain  == UNION {Chain(NodeOf(p)) : p \in places}
           kept   == {e \in trie.subs :
                        ~(e.place \in places /\ e.client = c /\ Found(trie, e))}
           bare(n) == \A e \in kept : NodeOf(e.place) # n
           gone   == {n \in trie.nodes \cap chain :
                        \A m \in trie.nodes : IsPrefix(n, m) => m \in chain /\ bare(m)}
<1>1. /\ trie'.nodes = trie.nodes \ gone
      /\ trie'.alloc = {p \in trie.alloc : NodeOf(p) \notin gone}
      /\ trie'.subs = kept
  BY DEF DeleteTopics, WithoutClient
<1>2. /\ trie.nodes \subseteq Path /\ <<>> \notin trie.nodes
      /\ \A p \in trie.alloc : NodeOf(p) \in Path
      /\ \A e \in trie.subs : NodeOf(e.place) \in Path
  BY TriePaths DEF TInv, WellFormed
<1>3. /\ trie'.nodes \subseteq UNION {Chain(NodeOf(Place(g))) : g \in Filter}
      /\ trie'.alloc \subseteq {Place(g) : g \in Filter}
      /\ trie'.subs \subseteq Entry
  BY <1>1 DEF TInv, WellFormed, TypeOK
<1>4. ASSUME NEW n \in trie.nodes, n \notin gone, NEW m \in Chain(n)
      PROVE  m \in trie.nodes /\ m \notin gone
  <2>1. m \in trie.nodes /\ m \in Path /\ IsPrefix(m, n)
    BY <1>2, <1>4, ChainIs DEF TInv, WellFormed, Rooted
  <2>2. ASSUME m \in gone
        PROVE  FALSE
    <3>1. n \in chain
      BY <2>1, <2>2
    <3>2. ASSUME NEW k \in trie.nodes, IsPrefix(n, k)
          PROVE  k \in chain /\ bare(k)
      <4>1. IsPrefix(m, k)
        BY <1>2, <2>1, <3>2, PrefixTransitive
      <4> QED BY <2>2, <4>1
    <3> QED BY <1>4, <3>1, <3>2
  <2> QED BY <2>1, <2>2
<1>5. Rooted(trie')
  BY <1>1, <1>4 DEF Rooted
<1>6. ASSUME NEW p \in trie'.alloc
      PROVE  Chain(NodeOf(p)) \subseteq trie'.nodes
  <2>1. /\ p \in trie.alloc /\ NodeOf(p) \notin gone /\ NodeOf(p) \in Path
        /\ Chain(NodeOf(p)) \subseteq trie.nodes
    BY <1>1, <1>2 DEF TInv, WellFormed, Hanging
  <2>2. ASSUME NEW m \in Chain(NodeOf(p))
        PROVE  m \in trie'.nodes
    <3>1. m \in Path /\ m # <<>> /\ IsPrefix(m, NodeOf(p))
      BY <2>1, ChainIs
    <3>2. NodeOf(p) # <<>>
      <4>1. Len(m) \in Nat /\ Len(m) # 0
        BY <3>1 DEF Path
      <4>2. Len(m) <= Len(NodeOf(p))
        BY <2>1, <3>1, PrefixIs
      <4> QED BY <4>1, <4>2
    <3>3. NodeOf(p) \in Chain(NodeOf(p))
      BY <2>1, <3>2, ChainIs, PrefixReflexive
    <3>4. NodeOf(p) \in trie.nodes
      BY <2>1, <3>3
    <3> QED BY <1>1, <1>4, <2>1, <2>2, <3>4
  <2> QED BY <2>2
<1>7. Hanging(trie')
  BY <1>6 DEF Hanging
<1>8. Filed(trie')
  <2>1. ASSUME NEW e \in kept
        PROVE  e.place \in trie'.alloc
    <3>1. e.place \in trie.alloc /\ NodeOf(e.place) \in Path
      BY <1>2 DEF TInv, WellFormed, Filed
    <3>2. NodeOf(e.place) \notin gone
      <4>1. IsPrefix(NodeOf(e.place), NodeOf(e.place))
        BY <3>1, PrefixReflexive
      <4> QED BY <4>1
    <3> QED BY <1>1, <3>1, <3>2
  <2> QED BY <1>1, <2>1 DEF Filed
<1>9. Distinct(trie')
  BY <1>1 DEF TInv, WellFormed, Distinct
<1>10. ASSUME NEW n \in trie.nodes, n \notin gone
       PROVE  \E e \in kept : IsPrefix(n, NodeOf(e.place))
  <2> SUFFICES ASSUME \A e \in kept : ~IsPrefix(n, NodeOf(e.place))
               PROVE  n \in gone
    BY <1>10
  <2>1. n \in Path /\ n # <<>>
    BY <1>2
  <2>2. ASSUME NEW m \in trie.nodes, IsPrefix(n, m)
        PROVE  m \in chain /\ bare(m)
    <3>1. m \in Path /\ m # <<>>
      BY <1>2
    <3>2. PICK e \in trie.subs : IsPrefix(m, NodeOf(e.place))
      BY DEF TInv, NoDeadBranch
    <3>3. NodeOf(e.place) \in Path
      BY <1>2
    <3>4. IsPrefix(n, NodeOf(e.place))
      BY <2>1, <2>2, <3>1, <3>2, <3>3, PrefixTransitive
    <3>5. e \notin kept
      BY <3>4
    <3>6. e.place \in places
      BY <3>5
    <3>7. m \in Chain(NodeOf(e.place))
      BY <3>1, <3>2, <3>3, ChainIs
    <3>8. bare(m)
      BY <2>2
    <3> QED BY <3>6, <3>7, <3>8
  <2>3. n \in chain
    BY <2>1, <2>2, PrefixReflexive
  <2> QED BY <2>2, <2>3
<1>11. NoDeadBranch'
  BY <1>1, <1>10 DEF NoDeadBranch
<1> QED BY <1>3, <1>5, <1>7, <1>8, <1>9, <1>11

----------------------------------------------------------------------------
LEMMA TInit == Init => TInv
<1> SUFFICES ASSUME Init PROVE TInv
  OBVIOUS
<1>1. TypeOK
  BY DEF Init, TypeOK, EmptyTrie, Nobody
<1>2. Rooted(trie) /\ Hanging(trie) /\ Filed(trie) /\ Distinct(trie) /\ NoDeadBranch
  BY DEF Init, EmptyTrie, Rooted, Hanging, Filed, Distinct, NoDeadBranch
<1> QED BY <1>1, <1>2 DEF TInv, WellFormed

LEMMA TSame ==
  ASSUME TInv, UNCHANGED <<trie, usage>>, up' \in BOOLEAN, DOMAIN found' \subseteq Client,
         \A c \in DOMAIN found' : found'[c] \in QoS
  PROVE  TInv'
BY DEF TInv, WellFormed, TypeOK, NoDeadBranch

LEMMA TNext == TInv /\ [Next]_vars => TInv'
<1> SUFFICES ASSUME TInv, [Next]_vars PROVE TInv'
  OBVIOUS
<1>1. /\ usage.clients \subseteq Client
      /\ usage.filters \subseteq Filter /\ usage.qos \subseteq QoS
  BY UsageAssumption DEF TInv, WellFormed, TypeOK
<1>2. DOMAIN Nobody = {}
  BY DEF Nobody
<1>3. ASSUME NEW c \in usage.clients, NEW f \in usage.filters, NEW q \in usage.qos,
             Subscribe(c, f, q)
      PROVE  TInv'
  <2>1. c \in Client /\ f \in Filter /\ q \in QoS /\ trie' = Intercept(trie, f, q, c)
        /\ found' = Nobody /\ UNCHANGED <<usage, up>>
    BY <1>1, <1>3 DEF Subscribe
  <2>2. /\ trie'.nodes \subseteq UNION {Chain(NodeOf(Place(g))) : g \in Filter}
        /\ trie'.alloc \subseteq {Place(g) : g \in Filter}
        /\ trie'.subs \subseteq Entry
        /\ Rooted(trie') /\ Hanging(trie') /\ Filed(trie') /\ Distinct(trie')
        /\ NoDeadBranch'
    BY <2>1, InterceptKeeps
  <2>3. TypeOK'
    BY <1>2, <2>1, <2>2 DEF TypeOK, TInv, WellFormed
  <2> QED BY <2>2, <2>3 DEF TInv, WellFormed
<1>4. ASSUME NEW c \in usage.clients, NEW f \in usage.filters, Unsubscribe(c, f)
      PROVE  TInv'
  <2>1. found' = Nobody /\ UNCHANGED usage
    BY <1>4 DEF Unsubscribe
  <2>2. CASE DeleteCrashes(trie, f)
    BY <1>2, <1>4, <2>1, <2>2, TSame DEF Unsubscribe
  <2>3. CASE ~DeleteCrashes(trie, f)
    <3>1. trie' = DeleteTopics(trie, {f}, c) /\ UNCHANGED up /\ {f} \in SUBSET Filter
      BY <1>1, <1>4, <2>3 DEF Unsubscribe
    <3>2. /\ trie'.nodes \subseteq UNION {Chain(NodeOf(Place(g))) : g \in Filter}
          /\ trie'.alloc \subseteq {Place(g) : g \in Filter}
          /\ trie'.subs \subseteq Entry
          /\ Rooted(trie') /\ Hanging(trie') /\ Filed(trie') /\ Distinct(trie')
          /\ NoDeadBranch'
      BY <3>1, DeleteKeeps
    <3>3. TypeOK'
      BY <1>2, <2>1, <3>1, <3>2 DEF TypeOK, TInv, WellFormed
    <3> QED BY <3>2, <3>3 DEF TInv, WellFormed
  <2> QED BY <2>2, <2>3
<1>5. ASSUME NEW t \in usage.topics, Publish(t)
      PROVE  TInv'
  <2> PICK h \in Heard(t) : Search(h)
    BY <1>5 DEF Publish
  <2>1. CASE SearchCrashes(trie, h)
    BY <1>2, <2>1, TSame DEF Search
  <2>2. CASE ~SearchCrashes(trie, h)
    <3>1. found' \in Answers(trie, h) /\ UNCHANGED <<usage, trie, up>>
      BY <2>2 DEF Search
    <3>2. Gathered(trie, h) \subseteq Entry
      BY DEF Gathered, TInv, WellFormed, TypeOK
    <3>3. found' \in [ClientsOf(Gathered(trie, h)) -> {e.qos : e \in Gathered(trie, h)}]
      BY <3>1 DEF Answers
    <3>4. /\ ClientsOf(Gathered(trie, h)) \subseteq Client
          /\ {e.qos : e \in Gathered(trie, h)} \subseteq QoS
      BY <3>2 DEF ClientsOf, Entry
    <3>5. DOMAIN found' \subseteq Client /\ \A c \in DOMAIN found' : found'[c] \in QoS
      BY <3>3, <3>4
    <3>6. up' \in BOOLEAN
      BY <3>1 DEF TInv, WellFormed, TypeOK
    <3> QED BY <3>1, <3>5, <3>6, TSame
  <2> QED BY <2>1, <2>2
<1>6. CASE UNCHANGED vars
  BY <1>6, TSame DEF vars, TInv, WellFormed, TypeOK
<1> QED BY <1>3, <1>4, <1>5, <1>6 DEF Next

LEMMA TThroughout == Spec => []TInv
BY TInit, TNext, PTL DEF Spec

(* In whatever order clients subscribe, give up filters and search: a      *)
(* node's ancestors exist, arrays hang from nodes that exist, entries are  *)
(* in allocated arrays, and a client is in an array at most once           *)
(* (filtering.c, intercept and delete_node together).                      *)
THEOREM TrieHangsTogether == Spec => []WellFormed
<1>1. TInv => WellFormed
  BY DEF TInv
<1> QED BY <1>1, TThroughout, PTL

(* And no node is left over: each leads to an entry, be it one that        *)
(* delete_client_id missed (filtering.c:51, delete_node's DELETE).         *)
THEOREM NoNodeLeftOver == Spec => []NoDeadBranch
<1>1. TInv => NoDeadBranch
  BY DEF TInv
<1> QED BY <1>1, TThroughout, PTL

----------------------------------------------------------------------------
(* Deletion as what it leaves: the entries that are kept, the nodes that   *)
(* still lead to one, and the arrays of nodes that are not dropped.        *)

Kept(t, keys, c) == WithoutClient(t, {Place(k) : k \in keys}, c)

Leads(n, entries) == \E e \in entries : IsPrefix(n, NodeOf(e.place))

Pruned(t, entries) ==
  [ nodes |-> {n \in t.nodes : Leads(n, entries)},
    alloc |-> {p \in t.alloc : NodeOf(p) \in t.nodes => Leads(NodeOf(p), entries)},
    subs  |-> entries ]

(* What of TInv this takes, of any trie. *)
Sound(t) ==
  /\ t.nodes \subseteq Path /\ <<>> \notin t.nodes
  /\ \A e \in t.subs : NodeOf(e.place) \in Path /\ Chain(NodeOf(e.place)) \subseteq t.nodes
  /\ \A n \in t.nodes : Leads(n, t.subs)

LEMMA SoundTrie == TInv => Sound(trie)
<1> SUFFICES ASSUME TInv PROVE Sound(trie)
  OBVIOUS
<1>1. /\ trie.nodes \subseteq Path /\ <<>> \notin trie.nodes
      /\ \A e \in trie.subs : NodeOf(e.place) \in Path
  BY TriePaths DEF TInv, WellFormed
<1>2. \A e \in trie.subs : Chain(NodeOf(e.place)) \subseteq trie.nodes
  BY DEF TInv, WellFormed, Filed, Hanging
<1> QED BY <1>1, <1>2 DEF TInv, NoDeadBranch, Sound, Leads

LEMMA DeletionPrunes ==
  ASSUME NEW t, Sound(t), NEW keys, NEW c
  PROVE  DeleteTopics(t, keys, c) = Pruned(t, Kept(t, keys, c))
<1> DEFINE places == {Place(k) : k \in keys}
           chain  == UNION {Chain(NodeOf(p)) : p \in places}
           kept   == Kept(t, keys, c)
           bare(n) == \A e \in kept : NodeOf(e.place) # n
           gone   == {n \in t.nodes \cap chain :
                        \A m \in t.nodes : IsPrefix(n, m) => m \in chain /\ bare(m)}
<1>1. DeleteTopics(t, keys, c) =
        [ nodes |-> t.nodes \ gone,
          alloc |-> {p \in t.alloc : NodeOf(p) \notin gone},
          subs  |-> kept ]
  BY DEF DeleteTopics, Kept
<1>2. ASSUME NEW n \in t.nodes, n \notin gone
      PROVE  Leads(n, kept)
  <2> SUFFICES ASSUME \A e \in kept : ~IsPrefix(n, NodeOf(e.place))
               PROVE  n \in gone
    BY <1>2 DEF Leads
  <2>1. n \in Path /\ n # <<>>
    BY DEF Sound
  <2>2. ASSUME NEW m \in t.nodes, IsPrefix(n, m)
        PROVE  m \in chain /\ bare(m)
    <3>1. m \in Path /\ m # <<>>
      BY DEF Sound
    <3>2. PICK e \in t.subs : IsPrefix(m, NodeOf(e.place)) /\ NodeOf(e.place) \in Path
      BY DEF Sound, Leads
    <3>3. IsPrefix(n, NodeOf(e.place))
      BY <2>1, <2>2, <3>1, <3>2, PrefixTransitive
    <3>4. e \notin kept
      BY <3>3
    <3>5. e.place \in places
      BY <3>4 DEF Kept, WithoutClient
    <3>6. m \in Chain(NodeOf(e.place))
      BY <3>1, <3>2, ChainIs
    <3>7. bare(m)
      BY <2>2
    <3> QED BY <3>5, <3>6, <3>7
  <2>3. n \in chain
    BY <2>1, <2>2, PrefixReflexive
  <2> QED BY <2>2, <2>3
<1>3. ASSUME NEW n \in gone
      PROVE  ~Leads(n, kept)
  <2> SUFFICES ASSUME NEW e \in kept, IsPrefix(n, NodeOf(e.place))
               PROVE  FALSE
    BY DEF Leads
  <2>1. n \in Path /\ n # <<>> /\ e \in t.subs
    BY DEF Sound, Kept, WithoutClient
  <2>2. NodeOf(e.place) \in Path /\ Chain(NodeOf(e.place)) \subseteq t.nodes
    BY <2>1 DEF Sound
  <2>3. NodeOf(e.place) # <<>>
    <3>1. Len(n) \in Nat /\ Len(n) # 0
      BY <2>1 DEF Path
    <3>2. Len(n) <= Len(NodeOf(e.place))
      BY <2>1, <2>2, PrefixIs
    <3> QED BY <3>1, <3>2
  <2>4. NodeOf(e.place) \in t.nodes
    BY <2>2, <2>3, ChainIs, PrefixReflexive
  <2> QED BY <2>4
<1>4. \A n \in t.nodes : n \in gone <=> ~Leads(n, kept)
  BY <1>2, <1>3
<1>5. gone \subseteq t.nodes
  OBVIOUS
<1> HIDE DEF gone, kept, chain, places, bare
<1>6. t.nodes \ gone = {n \in t.nodes : Leads(n, kept)}
  BY <1>4, <1>5
<1>7. {p \in t.alloc : NodeOf(p) \notin gone} =
        {p \in t.alloc : NodeOf(p) \in t.nodes => Leads(NodeOf(p), kept)}
  BY <1>4, <1>5
<1> QED BY <1>1, <1>6, <1>7 DEF Pruned, kept

(* Pruning for fewer and fewer entries is pruning for the fewest. *)
LEMMA PrunedTwice ==
  ASSUME NEW t, NEW more, NEW fewer \in SUBSET more
  PROVE  Pruned(Pruned(t, more), fewer) = Pruned(t, fewer)
<1>1. \A n : Leads(n, fewer) => Leads(n, more)
  BY DEF Leads
<1>2. PICK u : u = Pruned(t, more)
  OBVIOUS
<1>3. /\ u.nodes = {n \in t.nodes : Leads(n, more)}
      /\ u.alloc = {p \in t.alloc : NodeOf(p) \in t.nodes => Leads(NodeOf(p), more)}
  BY <1>2 DEF Pruned
<1>4. {n \in u.nodes : Leads(n, fewer)} = {n \in t.nodes : Leads(n, fewer)}
  BY <1>1, <1>3
<1>5. {p \in u.alloc : NodeOf(p) \in u.nodes => Leads(NodeOf(p), fewer)}
        = {p \in t.alloc : NodeOf(p) \in t.nodes => Leads(NodeOf(p), fewer)}
  BY <1>1, <1>3
<1> QED BY <1>2, <1>4, <1>5 DEF Pruned

(* What a deletion leaves is as sound as what it found. *)
LEMMA PrunedIsSound ==
  ASSUME NEW t, Sound(t), NEW entries \in SUBSET t.subs
  PROVE  Sound(Pruned(t, entries))
<1>1. PICK u : u = Pruned(t, entries)
  OBVIOUS
<1>2. /\ u.nodes = {n \in t.nodes : Leads(n, entries)} /\ u.subs = entries
  BY <1>1 DEF Pruned
<1>3. ASSUME NEW e \in entries, NEW n \in Chain(NodeOf(e.place))
      PROVE  n \in u.nodes
  <2>1. NodeOf(e.place) \in Path /\ n \in t.nodes
    BY <1>3 DEF Sound
  <2>2. IsPrefix(n, NodeOf(e.place))
    BY <1>3, <2>1, ChainIs
  <2> QED BY <1>2, <2>1, <2>2 DEF Leads
<1> QED BY <1>1, <1>2, <1>3 DEF Sound

(* A deletion leaves the arrays as they were in which the client still has *)
(* an entry: what it does not find it would not find a second time.        *)
LEMMA FoundLater ==
  ASSUME TInv, NEW c, NEW keys, NEW later, later.subs = Kept(trie, keys, c),
         NEW e \in later.subs, e.client = c
  PROVE  Found(later, e) <=> Found(trie, e)
<1>1. \A d \in trie.subs :
        d \notin later.subs => d.client = c /\ d \in trie.subs
  BY DEF Kept, WithoutClient
<1>2. e \in trie.subs
  BY DEF Kept, WithoutClient
<1>3. later.subs \subseteq trie.subs
  BY DEF Kept, WithoutClient
<1>4. ASSUME NEW d \in trie.subs, d.place = e.place
      PROVE  d \in later.subs
  <2> SUFFICES ASSUME d \notin later.subs PROVE FALSE
    OBVIOUS
  <2>1. d.client = e.client
    BY <1>1
  <2>2. d = e
    BY <1>2, <1>4, <2>1 DEF TInv, WellFormed, Distinct
  <2> QED BY <2>2
<1>5. {d \in later.subs : d.place = e.place} = {d \in trie.subs : d.place = e.place}
  BY <1>3, <1>4
<1> QED BY <1>5 DEF Found

LEMMA TwoDeletions ==
  ASSUME TInv, NEW c, NEW f, NEW g
  PROVE  DeleteTopics(DeleteTopics(trie, {f}, c), {g}, c)
           = DeleteTopics(trie, {f, g}, c)
<1>1. PICK more, fewer : more = Kept(trie, {f}, c) /\ fewer = Kept(trie, {f, g}, c)
  OBVIOUS
<1>2. PICK first : first = DeleteTopics(trie, {f}, c)
  OBVIOUS
<1>3. more \in SUBSET trie.subs /\ fewer \in SUBSET more
  BY <1>1 DEF Kept, WithoutClient
<1>4. first = Pruned(trie, more) /\ Sound(first)
  BY <1>1, <1>2, <1>3, SoundTrie, DeletionPrunes, PrunedIsSound
<1>5. first.subs = more
  BY <1>4 DEF Pruned
<1>6. Kept(first, {g}, c) = fewer
  <2>1. \A e \in more : e.client = c => (Found(first, e) <=> Found(trie, e))
    BY <1>1, <1>5, FoundLater
  <2> QED BY <1>1, <1>5, <2>1 DEF Kept, WithoutClient
<1>7. DeleteTopics(first, {g}, c) = Pruned(first, fewer)
  BY <1>4, <1>6, DeletionPrunes
<1>8. Pruned(first, fewer) = Pruned(trie, fewer)
  BY <1>3, <1>4, PrunedTwice
<1>9. DeleteTopics(trie, {f, g}, c) = Pruned(trie, fewer)
  BY <1>1, SoundTrie, DeletionPrunes
<1> QED BY <1>2, <1>7, <1>8, <1>9

(* session_delete takes a session's filters out of the trie one by one     *)
(* (session.c:196); whichever goes first, it comes to taking them out      *)
(* together.                                                               *)
THEOREM OneByOneIsTogether == Spec => []OneByOne
<1>1. TInv => OneByOne
  BY TwoDeletions DEF OneByOne
<1> QED BY <1>1, TThroughout, PTL

----------------------------------------------------------------------------
(* The trie against the store: filters that cover a topic are those whose  *)
(* arrays the search scans.                                                *)

(* Keys whose walk is the key itself: no two empty levels in front (of     *)
(* which intercept drops one), no level with a '/' in it.                  *)
KeepsLevels(k) == Walked(k) = k /\ \A i \in 1..Len(k) : k[i] # "/"

Straight == \A k \in Filter \cup Topic : KeepsLevels(k)

(* What is searched for is as straight as the topic. *)
Searched(h) == Len(h) \in Nat /\ KeepsLevels(h)

LEMMA HeardIsSearched ==
  ASSUME Straight, NEW t \in Topic, NEW h \in Heard(t)
  PROVE  Searched(h)
<1>1. /\ t \in Seq(STRING) /\ t # <<>>
      /\ Len(t) \in Nat \ {0} /\ DOMAIN t = 1..Len(t)
  BY FilterAssumption, LenProperties
<1>2. /\ DOMAIN h = 1..Len(t) /\ h[1] = t[1]
      /\ \A i \in 1..Len(t) : h[i] \in ReadAs(t[i])
      /\ h \in [1..Len(t) -> UNION {ReadAs(t[i]) : i \in 1..Len(t)}]
  BY <1>1 DEF Heard
<1>3. Len(h) = Len(t)
  <2>1. h \in Seq(UNION {ReadAs(t[i]) : i \in 1..Len(t)})
    BY <1>1, <1>2, SeqDef
  <2> QED BY <1>1, <1>2, <2>1, LenProperties
<1>4. ASSUME NEW i \in 1..Len(t)
      PROVE  h[i] = t[i] \/ h[i] \notin {"", "/"}
  BY <1>2, MisreadAssumption DEF ReadAs
<1>5. KeepsLevels(t)
  BY DEF Straight
<1>6. \A i \in 1..Len(h) : h[i] # "/"
  BY <1>3, <1>4, <1>5 DEF KeepsLevels
<1>7. ASSUME Len(h) > 1, h[1] = "", h[2] = ""
      PROVE  FALSE
  <2>1. PICK n : n = Len(t) /\ n \in Nat
    BY <1>1
  <2>2. n > 1
    BY <1>3, <1>7, <2>1
  <2>3. 1 \in 1..n /\ 2 \in 1..n
    BY <2>1, <2>2
  <2>4. t[1] = "" /\ t[2] = ""
    BY <1>2, <1>4, <1>7, <2>1, <2>3
  <2>5. Tail(t) = t
    BY <1>5, <2>1, <2>2, <2>4 DEF KeepsLevels, Walked
  <2>6. Len(Tail(t)) = Len(t) - 1
    BY <1>1, HeadTailProperties
  <2>7. n = n - 1
    BY <2>1, <2>5, <2>6
  <2> QED BY <2>1, <2>7
<1> QED BY <1>1, <1>3, <1>6, <1>7 DEF Searched, KeepsLevels, Walked

(* How many levels of a filter have a node. *)
Depth(f) == IF f[Len(f)] = "#" THEN Len(f) - 1 ELSE Len(f)

LEMMA FilterIs ==
  ASSUME NEW f \in Filter
  PROVE  /\ f \in Seq(STRING) /\ f # <<>>
         /\ Len(f) \in Nat \ {0} /\ DOMAIN f = 1..Len(f)
         /\ \A i \in 1..Len(f) : f[i] \in STRING
         /\ Depth(f) \in Nat /\ Depth(f) <= Len(f)
<1>1. f \in Seq(STRING) /\ f # <<>>
  BY FilterAssumption
<1>2. Len(f) \in Nat /\ DOMAIN f = 1..Len(f) /\ \A i \in 1..Len(f) : f[i] \in STRING
  BY <1>1, LenProperties, ElementOfSeq
<1>3. Len(f) # 0
  BY <1>1
<1> QED BY <1>1, <1>2, <1>3 DEF Depth

(* The node of a filter's array, level by level. *)
LEMMA NodeIs ==
  ASSUME Straight, NEW f \in Filter
  PROVE  /\ Len(Place(f)) = Len(f)
         /\ \A i \in 1..Len(f) : Place(f)[i] = Label(f[i])
         /\ IsPound(Place(f)) <=> f[Len(f)] = "#"
         /\ NodeOf(Place(f)) \in Path
         /\ Len(NodeOf(Place(f))) = Depth(f)
         /\ \A i \in 1..Depth(f) : NodeOf(Place(f))[i] = Label(f[i])
<1>1. Len(f) \in Nat \ {0} /\ Walked(f) = f
  BY FilterIs DEF Straight, KeepsLevels
<1>2. PICK p : p = Place(f)
  OBVIOUS
<1>3. p = [i \in 1..Len(f) |-> Label(f[i])]
  BY <1>1, <1>2 DEF Place
<1>4. p \in Path /\ NodeOf(p) \in Path
  BY <1>2, PlaceIsPath
<1>5. Len(p) = Len(f)
  BY <1>1, <1>3, <1>4, LenProperties DEF Path
<1>6. \A i \in 1..Len(f) : p[i] = Label(f[i])
  BY <1>3
<1>7. IsPound(p) <=> f[Len(f)] = "#"
  <2>1. p[Len(p)] = Label(f[Len(f)])
    BY <1>1, <1>5, <1>6
  <2>2. Label(f[Len(f)]) = "#" <=> f[Len(f)] = "#"
    BY Zenon DEF Label
  <2> QED BY <2>1, <2>2 DEF IsPound
<1>8. CASE f[Len(f)] = "#"
  <2>1. NodeOf(p) = SubSeq(p, 1, Len(f) - 1) /\ Depth(f) = Len(f) - 1
    BY <1>5, <1>7, <1>8 DEF NodeOf, Front, Depth
  <2>2. \A i \in 1..(Len(f) - 1) : p[i] \in Step
    BY <1>1, <1>4, <1>5, ElementOfSeq DEF Path
  <2>3. Len(f) - 1 \in Nat /\ \A i \in 1..(Len(f) - 1) : p[i] \in Step
    BY <1>1, <2>2
  <2>4. Len(NodeOf(p)) = Len(f) - 1 /\ \A i \in 1..(Len(f) - 1) : NodeOf(p)[i] = p[i]
    BY <1>1, <1>4, <1>5, <2>1, <2>3, SubSeqProperties DEF Path
  <2> QED BY <1>1, <1>2, <1>4, <1>5, <1>6, <1>7, <2>1, <2>4
<1>9. CASE f[Len(f)] # "#"
  BY <1>1, <1>2, <1>4, <1>5, <1>6, <1>7, <1>9 DEF NodeOf, Depth
<1> QED BY <1>8, <1>9

(* The labels of a topic. *)
LEMMA TopicIs ==
  ASSUME Straight, NEW t, Searched(t)
  PROVE  /\ Len(t) \in Nat /\ Len(Place(t)) = Len(t)
         /\ \A i \in 1..Len(t) : Place(t)[i] = Label(t[i])
<1>1. Place(t) = [i \in 1..Len(t) |-> Label(t[i])]
  BY DEF Searched, KeepsLevels, Place
<1>2. Place(t) \in Seq({Label(t[i]) : i \in 1..Len(t)})
  BY <1>1
<1>3. Len(Place(t)) = Len(t)
  BY <1>1, <1>2, LenProperties
<1>4. Len(t) \in Nat
  BY DEF Searched
<1> QED BY <1>1, <1>3, <1>4

(* What the store makes of a filter. *)
LEMMA StoreDepth ==
  ASSUME NEW f \in Filter
  PROVE  /\ Store!Last(f) = f[Len(f)]
         /\ Len(Store!WithoutPound(f)) = Depth(f)
<1>1. f \in Seq(STRING) /\ Len(f) \in Nat \ {0} /\ \A i \in 1..Len(f) : f[i] \in STRING
  BY FilterIs
<1>2. Store!Last(f) = f[Len(f)]
  BY DEF Store!Last
<1>3. Len(f) - 1 \in Nat /\ \A i \in 1..(Len(f) - 1) : f[i] \in Step
  BY <1>1, FilterIsPath, ElementOfSeq DEF Path
<1>4. Len(SubSeq(f, 1, Len(f) - 1)) = Len(f) - 1
  <2>1. PICK n : n = Len(f) - 1
    OBVIOUS
  <2>2. n \in Nat /\ \A i \in 1..n : f[i] \in Step
    BY <1>3, <2>1
  <2>3. Len(SubSeq(f, 1, n)) = IF 1 <= n THEN n - 1 + 1 ELSE 0
    BY <2>2, SubSeqProperties
  <2> QED BY <2>1, <2>2, <2>3
<1> QED BY <1>2, <1>4 DEF Store!WithoutPound, Store!Front, Depth

(* A label follows a label as a level follows a level. *)
LEMMA LabelFollows ==
  ASSUME NEW a, NEW b, a # "/", b # "/"
  PROVE  Label(a) \in {Label(b), "+"} <=> a \in {b, "+"}
BY DEF Label

LEMMA FollowsCovers ==
  ASSUME Straight, NEW f \in Filter, NEW t, Searched(t)
  PROVE  Follows(NodeOf(Place(f)), Place(t)) <=>
           Depth(f) <= Len(t) /\ Store!SameLevels(f, t, Depth(f))
<1>1. /\ Len(NodeOf(Place(f))) = Depth(f)
      /\ \A i \in 1..Depth(f) : NodeOf(Place(f))[i] = Label(f[i])
  BY NodeIs
<1>2. /\ Len(t) \in Nat /\ Len(Place(t)) = Len(t)
      /\ \A i \in 1..Len(t) : Place(t)[i] = Label(t[i])
  BY TopicIs
<1>3. Depth(f) \in Nat /\ Depth(f) <= Len(f) /\ Len(f) \in Nat
  BY FilterIs
<1>4. ASSUME Depth(f) <= Len(t), NEW i \in 1..Depth(f)
      PROVE  NodeOf(Place(f))[i] \in {Place(t)[i], "+"} <=> f[i] \in {t[i], "+"}
  <2>1. i \in 1..Len(f) /\ i \in 1..Len(t)
    BY <1>3, <1>4
  <2>2. f[i] # "/" /\ t[i] # "/"
    BY <2>1 DEF Straight, Searched, KeepsLevels
  <2> QED BY <1>1, <1>2, <2>1, <2>2, LabelFollows
<1> QED BY <1>1, <1>2, <1>4 DEF Follows, Store!SameLevels

(* The array of the filter "#" is root.childer_node, and no other is. *)
LEMMA RootPlace ==
  ASSUME Straight, NEW f \in Filter
  PROVE  /\ f = <<"#">> <=> Len(f) = 1 /\ f[1] = "#"
         /\ Place(f) = <<"#">> <=> f = <<"#">>
         /\ Depth(f) = 0 <=> f = <<"#">>
<1>1. f \in Seq(STRING) /\ Len(f) \in Nat \ {0} /\ DOMAIN f = 1..Len(f)
  BY FilterIs
<1>2. f = <<"#">> <=> Len(f) = 1 /\ f[1] = "#"
  BY <1>1
<1>3. Len(Place(f)) = Len(f) /\ Place(f)[1] = Label(f[1]) /\ Place(f) \in Path
  BY <1>1, NodeIs, PlaceIsPath
<1>4. Label(f[1]) = "#" <=> f[1] = "#"
  BY Zenon DEF Label
<1>5. Place(f) = <<"#">> <=> Len(Place(f)) = 1 /\ Place(f)[1] = "#"
  <2>1. ASSUME Len(Place(f)) = 1, Place(f)[1] = "#"
        PROVE  Place(f) = <<"#">>
    <3>1. PICK x : x = Place(f)[1]
      OBVIOUS
    <3>2. x \in Step
      BY <1>3, <2>1, <3>1, ElementOfSeq DEF Path
    <3>3. <<x>> \in Path /\ Len(<<x>>) = 1 /\ <<x>>[1] = x
      BY <3>2 DEF Path
    <3>4. Place(f) = <<x>>
      BY <1>3, <2>1, <3>1, <3>3, SeqEqual DEF Path
    <3> QED BY <2>1, <3>1, <3>4
  <2>2. Len(<<"#">>) = 1 /\ <<"#">>[1] = "#"
    OBVIOUS
  <2> QED BY <2>1, <2>2
<1>6. Depth(f) = 0 <=> Len(f) = 1 /\ f[1] = "#"
  BY <1>1 DEF Depth
<1> QED BY <1>2, <1>3, <1>4, <1>5, <1>6

(* A filter whose array is scanned covers the topic. *)
LEMMA ScannedCovers ==
  ASSUME TInv, Straight, NEW f \in Filter, NEW t, Searched(t),
         Place(f) \in Scanned(trie, t)
  PROVE  Store!Covers(f, t)
<1>1. /\ Len(t) \in Nat /\ Len(Place(t)) = Len(t)
  BY TopicIs
<1>2. /\ Depth(f) \in Nat /\ Len(f) \in Nat \ {0}
      /\ Len(NodeOf(Place(f))) = Depth(f)
      /\ IsPound(Place(f)) <=> f[Len(f)] = "#"
  BY FilterIs, NodeIs
<1>3. Len(Store!WithoutPound(f)) = Depth(f) /\ Store!Last(f) = f[Len(f)]
  BY StoreDepth
<1>4. CASE Place(f) = <<"#">> /\ ~IsSys(t)
  <2>1. f = <<"#">> /\ Depth(f) = 0 /\ f[Len(f)] = "#"
    BY <1>4, RootPlace
  <2>2. Store!SameLevels(f, t, 0)
    BY DEF Store!SameLevels
  <2>3. t[1] \notin DollarLevels
    BY <1>4 DEF IsSys
  <2> QED BY <1>1, <1>3, <2>1, <2>2, <2>3 DEF Store!Covers
<1>5. CASE /\ NodeOf(Place(f)) \in Reached(trie, t)
           /\ ~IsPound(Place(f)) => Len(NodeOf(Place(f))) = Len(Place(t))
  <2>1. Follows(NodeOf(Place(f)), Place(t)) /\ NodeOf(Place(f)) \in trie.nodes
    BY <1>5 DEF Reached
  <2>2. Depth(f) <= Len(t) /\ Store!SameLevels(f, t, Depth(f))
    BY <2>1, FollowsCovers
  <2>3. f # <<"#">>
    <3>1. NodeOf(Place(f)) \in Path /\ NodeOf(Place(f)) # <<>>
      BY <2>1, TriePaths DEF TInv, WellFormed
    <3>2. Depth(f) # 0
      BY <1>2, <3>1 DEF Path
    <3> QED BY <3>2, RootPlace
  <2> QED BY <1>1, <1>2, <1>3, <1>5, <2>2, <2>3 DEF Store!Covers
<1> QED BY <1>4, <1>5 DEF Scanned

(* A filter that covers the topic otherwise than as its parent's "#" is    *)
(* scanned, once it has an array.                                          *)
LEMMA CoversScanned ==
  ASSUME TInv, Straight, NEW f \in Filter, NEW t, Searched(t),
         Place(f) \in trie.alloc, Store!Covers(f, t), ~Store!IsParent(f, t)
  PROVE  Place(f) \in Scanned(trie, t)
<1>1. /\ Len(t) \in Nat /\ Len(Place(t)) = Len(t)
  BY TopicIs
<1>2. /\ Depth(f) \in Nat /\ Len(f) \in Nat \ {0}
      /\ NodeOf(Place(f)) \in Path
      /\ Len(NodeOf(Place(f))) = Depth(f)
      /\ IsPound(Place(f)) <=> f[Len(f)] = "#"
  BY FilterIs, NodeIs
<1>3. Len(Store!WithoutPound(f)) = Depth(f) /\ Store!Last(f) = f[Len(f)]
  BY StoreDepth
<1>4. CASE f = <<"#">>
  <2>1. Place(f) = <<"#">> /\ ~IsSys(t)
    BY <1>4, RootPlace DEF Store!Covers, IsSys
  <2> QED BY <2>1 DEF Scanned
<1>5. CASE f # <<"#">>
  <2>1. Chain(NodeOf(Place(f))) \subseteq trie.nodes
    BY DEF TInv, WellFormed, Hanging
  <2>2. NodeOf(Place(f)) # <<>>
    <3>1. Depth(f) # 0
      BY <1>5, RootPlace
    <3> QED BY <1>2, <3>1
  <2>3. NodeOf(Place(f)) \in trie.nodes
    BY <1>2, <2>1, <2>2, ChainIs, PrefixReflexive
  <2>4. Depth(f) <= Len(t) /\ Store!SameLevels(f, t, Depth(f))
    BY <1>1, <1>2, <1>3 DEF Store!Covers
  <2>5. NodeOf(Place(f)) \in Reached(trie, t)
    BY <2>1, <2>3, <2>4, FollowsCovers DEF Reached
  <2>6. ASSUME ~IsPound(Place(f))
        PROVE  Len(NodeOf(Place(f))) = Len(Place(t))
    BY <1>1, <1>2, <1>3, <2>6 DEF Store!Covers
  <2>7. ASSUME IsPound(Place(f))
        PROVE  Len(NodeOf(Place(f))) # Len(Place(t))
    <3>1. f[Len(f)] = "#" /\ Depth(f) = Len(f) - 1
      BY <1>2, <2>7 DEF Depth
    <3>2. Len(f) # 1
      BY <1>5, <3>1, RootPlace
    <3> QED BY <1>1, <1>2, <1>3, <3>1, <3>2 DEF Store!IsParent
  <2> QED BY <2>5, <2>6, <2>7 DEF Scanned
<1> QED BY <1>4, <1>5

(* The grants, read off the entries. *)
LEMMA GrantIs ==
  ASSUME TInv, NEW c \in Client, NEW f \in Filter
  PROVE  /\ \A e \in trie.subs :
              e.place = Place(f) /\ e.client = c => GrantOf(c, f) = e.qos
         /\ (\A e \in trie.subs : ~(e.place = Place(f) /\ e.client = c))
              => GrantOf(c, f) = -1
<1> DEFINE mine == {e \in trie.subs : e.client = c /\ e.place = Place(f)}
<1>1. ASSUME NEW e \in trie.subs, e.place = Place(f), e.client = c
      PROVE  GrantOf(c, f) = e.qos
  <2>1. \A d \in mine : d = e
    BY <1>1 DEF TInv, WellFormed, Distinct
  <2>2. e \in mine
    BY <1>1
  <2>3. mine # {} /\ (CHOOSE d \in mine : TRUE) = e
    BY <2>1, <2>2
  <2> QED BY <2>3 DEF GrantOf
<1>2. (\A e \in trie.subs : ~(e.place = Place(f) /\ e.client = c))
        => GrantOf(c, f) = -1
  BY DEF GrantOf
<1> QED BY <1>1, <1>2

LEMMA HeldIs ==
  ASSUME TInv, NEW c \in Client
  PROVE  Store!Held(c) =
           {f \in Filter : \E e \in trie.subs : e.place = Place(f) /\ e.client = c}
<1>1. ASSUME NEW f \in Filter
      PROVE  GrantOf(c, f) # -1 <=>
               \E e \in trie.subs : e.place = Place(f) /\ e.client = c
  <2>1. ASSUME NEW e \in trie.subs, e.place = Place(f), e.client = c
        PROVE  GrantOf(c, f) # -1
    <3>1. GrantOf(c, f) = e.qos
      BY <2>1, GrantIs
    <3>2. e.qos \in 0..2
      BY QoSAssumption DEF TInv, WellFormed, TypeOK, Entry
    <3> QED BY <3>1, <3>2
  <2> QED BY <2>1, GrantIs
<1>2. \A f \in Filter :
        [h \in Client \X Filter |-> GrantOf(h[1], h[2])][<<c, f>>] = GrantOf(c, f)
  OBVIOUS
<1> QED BY <1>1, <1>2 DEF Store!Held, Store!NotHeld

----------------------------------------------------------------------------
(* How the grants change.                                                  *)

Mine(t, c, f) == {e \in t.subs : e.client = c /\ e.place = Place(f)}

GrantIn(t, c, f) ==
  IF Mine(t, c, f) = {} THEN -1 ELSE (CHOOSE e \in Mine(t, c, f) : TRUE).qos

Grants(t) == [h \in Client \X Filter |-> GrantIn(t, h[1], h[2])]

LEMMA GrantsDiffer ==
  ASSUME NEW t, NEW u, NEW c \in Client, NEW f \in Filter,
         \A e : ~(e.place = Place(f) /\ e.client = c) => (e \in t.subs <=> e \in u.subs)
  PROVE  Grants(u) = [Grants(t) EXCEPT ![<<c, f>>] = GrantIn(u, c, f)]
<1>1. ASSUME NEW d \in Client, NEW g \in Filter, <<d, g>> # <<c, f>>
      PROVE  GrantIn(u, d, g) = GrantIn(t, d, g)
  <2>1. d # c \/ Place(g) # Place(f)
    BY <1>1, FilterAssumption
  <2>2. Mine(u, d, g) = Mine(t, d, g)
    BY <2>1 DEF Mine
  <2> QED BY <2>2 DEF GrantIn
<1>2. ASSUME NEW h \in Client \X Filter
      PROVE  Grants(u)[h] = [Grants(t) EXCEPT ![<<c, f>>] = GrantIn(u, c, f)][h]
  <2>1. PICK d \in Client, g \in Filter : h = <<d, g>>
    OBVIOUS
  <2>2. Grants(u)[h] = GrantIn(u, d, g) /\ Grants(t)[h] = GrantIn(t, d, g)
    BY <2>1 DEF Grants
  <2>3. DOMAIN Grants(t) = Client \X Filter
    BY DEF Grants
  <2>4. CASE h = <<c, f>>
    BY <2>1, <2>2, <2>3, <2>4
  <2>5. CASE h # <<c, f>>
    BY <1>1, <2>1, <2>2, <2>3, <2>5
  <2> QED BY <2>4, <2>5
<1> QED BY <1>2 DEF Grants

(* Without entries there is no grant, and with one alone it is its QoS. *)
LEMMA GrantAlone ==
  ASSUME NEW t, NEW c, NEW f
  PROVE  /\ (\A e \in t.subs : ~(e.place = Place(f) /\ e.client = c))
              => GrantIn(t, c, f) = -1
         /\ \A e \in t.subs :
              /\ e.place = Place(f) /\ e.client = c
              /\ \A d \in t.subs : d.place = Place(f) /\ d.client = c => d = e
              => GrantIn(t, c, f) = e.qos
<1>1. ASSUME NEW e \in t.subs, e.place = Place(f), e.client = c,
             \A d \in t.subs : d.place = Place(f) /\ d.client = c => d = e
      PROVE  GrantIn(t, c, f) = e.qos
  <2>1. Mine(t, c, f) = {e}
    BY <1>1 DEF Mine
  <2>2. (CHOOSE d \in Mine(t, c, f) : TRUE) = e
    BY <2>1
  <2> QED BY <2>1, <2>2 DEF GrantIn
<1>2. (\A e \in t.subs : ~(e.place = Place(f) /\ e.client = c))
        => GrantIn(t, c, f) = -1
  BY DEF GrantIn, Mine
<1> QED BY <1>1, <1>2

(* The mapped variable is Grants of the trie, before a step and after it. *)
LEMMA MappedGrants ==
  /\ [h \in Client \X Filter |-> GrantOf(h[1], h[2])] = Grants(trie)
  /\ [h \in Client \X Filter |-> GrantOf(h[1], h[2])]' = Grants(trie')
BY DEF GrantOf, GrantIn, Mine, Grants

LEMMA StoreSubscribe ==
  ASSUME TInv, NEW c \in Client, NEW f \in Filter, NEW q \in QoS, Subscribe(c, f, q)
  PROVE  Store!Subscribe(c, f, q)
<1> DEFINE held == \E e \in trie.subs : e.place = Place(f) /\ e.client = c
           new == [place |-> Place(f), client |-> c, qos |-> q]
<1>1. /\ up /\ UNCHANGED up /\ found' = Nobody
      /\ trie'.subs = IF held THEN trie.subs ELSE trie.subs \cup {new}
  BY DEF Subscribe, Intercept
<1>2. f \in Store!Held(c) <=> held
  BY HeldIs
<1>3. ASSUME held
      PROVE  Grants(trie') = Grants(trie)
  <2>1. ASSUME NEW d, NEW g
        PROVE  GrantIn(trie', d, g) = GrantIn(trie, d, g)
    <3>1. Mine(trie', d, g) = Mine(trie, d, g)
      BY <1>1, <1>3 DEF Mine
    <3> QED BY <3>1 DEF GrantIn
  <2> QED BY <2>1 DEF Grants
<1>4. ASSUME ~held
      PROVE  Grants(trie') = [Grants(trie) EXCEPT ![<<c, f>>] = q]
  <2>1. new.place = Place(f) /\ new.client = c /\ new.qos = q
    OBVIOUS
  <2> HIDE DEF new
  <2>2. \A e : ~(e.place = Place(f) /\ e.client = c)
                 => (e \in trie.subs <=> e \in trie'.subs)
    BY <1>1, <1>4, <2>1
  <2>3. Grants(trie') = [Grants(trie) EXCEPT ![<<c, f>>] = GrantIn(trie', c, f)]
    BY <2>2, GrantsDiffer
  <2>4. new \in trie'.subs
        /\ \A d \in trie'.subs : d.place = Place(f) /\ d.client = c => d = new
    BY <1>1, <1>4
  <2>5. GrantIn(trie', c, f) = q
    BY <2>1, <2>4, GrantAlone
  <2> QED BY <2>3, <2>5
<1> HIDE DEF held, new
<1> QED BY <1>1, <1>2, <1>3, <1>4, MappedGrants DEF Store!Subscribe, Nobody, Store!Nobody

(* Every entry is of some filter, and says what that filter was granted.   *)
LEMMA EntryIs ==
  ASSUME TInv, NEW e \in trie.subs
  PROVE  /\ e.client \in Client /\ e.qos \in QoS
         /\ \E f \in Filter : /\ e.place = Place(f)
                              /\ Grants(trie)[<<e.client, f>>] = e.qos
<1>1. e \in Entry
  BY DEF TInv, WellFormed, TypeOK
<1>2. e.client \in Client /\ e.qos \in QoS
  BY <1>1 DEF Entry
<1>3. PICK f \in Filter : e.place = Place(f)
  BY <1>1 DEF Entry
<1>4. \A d \in trie.subs : d.place = Place(f) /\ d.client = e.client => d = e
  BY <1>3 DEF TInv, WellFormed, Distinct
<1>5. GrantIn(trie, e.client, f) = e.qos
  BY <1>3, <1>4, GrantAlone
<1>6. Grants(trie)[<<e.client, f>>] = e.qos
  BY <1>2, <1>5 DEF Grants
<1> QED BY <1>2, <1>3, <1>6

(* Alone in its array, a client is found. *)
LEMMA MissedIsShared ==
  ASSUME TInv, NEW e \in trie.subs, ~Found(trie, e)
  PROVE  \E d \in trie.subs : d.place = e.place /\ d.client # e.client
<1> SUFFICES ASSUME \A d \in trie.subs : d.place = e.place => d.client = e.client
             PROVE  Found(trie, e)
  OBVIOUS
<1> DEFINE array == {d \in trie.subs : d.place = e.place}
           before == {d \in array : d.client < e.client}
<1>1. e.client \in Nat
  BY EntryIs, ClientAssumption
<1>2. array = {e}
  BY DEF TInv, WellFormed, Distinct
<1>3. before = {}
  BY <1>1, <1>2
<1>4. Cardinality(array) = 1 /\ Cardinality(before) = 0
  BY <1>2, <1>3, FS_Singleton, FS_EmptySet
<1>5. 1 \div 2 = 0
  OBVIOUS
<1> HIDE DEF array, before
<1>6. Cardinality(before) = Cardinality(array) \div 2
  BY <1>4, <1>5
<1> QED BY <1>6 DEF Found, array, before

LEMMA StoreUnsubscribe ==
  ASSUME TInv, NEW c \in Client, NEW f \in Filter, Unsubscribe(c, f)
  PROVE  Store!Unsubscribe(c, f)
<1>1. up /\ found' = Nobody
  BY DEF Unsubscribe
<1>2. CASE DeleteCrashes(trie, f)
  <2>1. up' = FALSE /\ trie' = trie
    BY <1>2 DEF Unsubscribe
  <2>2. Place(f) \notin trie.alloc
    BY <1>2 DEF DeleteCrashes
  <2>3. f \notin Store!Held(c)
    BY <2>2, HeldIs DEF TInv, WellFormed, Filed
  <2> QED BY <1>1, <2>1, <2>3, MappedGrants
        DEF Store!Unsubscribe, Nobody, Store!Nobody
<1>3. CASE ~DeleteCrashes(trie, f)
  <2>1. UNCHANGED up /\ trie' = DeleteTopics(trie, {f}, c)
    BY <1>3 DEF Unsubscribe
  <2>2. trie'.subs = {e \in trie.subs :
                        ~(e.place = Place(f) /\ e.client = c /\ Found(trie, e))}
    BY <2>1 DEF DeleteTopics, WithoutClient
  <2>3. CASE \E e \in trie.subs : e.place = Place(f) /\ e.client = c /\ ~Found(trie, e)
    <3>1. PICK e \in trie.subs : e.place = Place(f) /\ e.client = c /\ ~Found(trie, e)
      BY <2>3
    <3>2. PICK d \in trie.subs : d.place = Place(f) /\ d.client # c
      BY <3>1, MissedIsShared
    <3>3. d.client \in Client /\ f \in Store!Held(d.client)
      BY <3>2, EntryIs, HeldIs
    <3>4. Store!Shared(c, f)
      BY <3>2, <3>3 DEF Store!Shared
    <3>5. \A g \in trie.subs : g.place = Place(f) /\ g.client = c => g = e
      BY <3>1 DEF TInv, WellFormed, Distinct
    <3>6. trie'.subs = trie.subs
      BY <2>2, <3>1, <3>5
    <3>7. Grants(trie') = Grants(trie)
      BY <3>6 DEF Grants, GrantIn, Mine
    <3> QED BY <1>1, <2>1, <3>4, <3>7, MappedGrants
          DEF Store!Unsubscribe, Nobody, Store!Nobody
  <2>4. CASE \A e \in trie.subs : e.place = Place(f) /\ e.client = c => Found(trie, e)
    <3>1. \A e : ~(e.place = Place(f) /\ e.client = c)
                   => (e \in trie.subs <=> e \in trie'.subs)
      BY <2>2
    <3>2. Grants(trie') = [Grants(trie) EXCEPT ![<<c, f>>] = GrantIn(trie', c, f)]
      BY <3>1, GrantsDiffer
    <3>3. GrantIn(trie', c, f) = -1
      BY <2>2, <2>4, GrantAlone
    <3> QED BY <1>1, <2>1, <3>2, <3>3, MappedGrants
          DEF Store!Unsubscribe, Store!NotHeld, Nobody, Store!Nobody
  <2> QED BY <2>3, <2>4
<1> QED BY <1>2, <1>3

----------------------------------------------------------------------------
(* PUBLISH: the answers are answers of the store, and the process dies     *)
(* only where the store allows it.                                         *)

LEMMA GatheredIsPossible ==
  ASSUME TInv, Straight, NEW t, Searched(t), NEW e \in Gathered(trie, t),
         NEW f \in Filter, e.place = Place(f)
  PROVE  f \in Store!Possible(e.client, t)
<1>1. e \in trie.subs /\ Place(f) \in Scanned(trie, t)
  BY DEF Gathered
<1>2. f \in Store!Held(e.client)
  BY <1>1, HeldIs, EntryIs
<1> QED BY <1>1, <1>2, ScannedCovers DEF Store!Possible

LEMMA CertainIsGathered ==
  ASSUME TInv, Straight, NEW t, Searched(t), NEW c \in Client, Store!Certain(c, t) # {}
  PROVE  c \in ClientsOf(Gathered(trie, t))
<1>1. PICK f : f \in Store!Held(c) /\ Store!Covers(f, t) /\ ~Store!IsParent(f, t)
  BY DEF Store!Certain, Store!Possible
<1>2. f \in Filter
      /\ \E e \in trie.subs : e.place = Place(f) /\ e.client = c
  BY <1>1, HeldIs
<1>3. PICK e \in trie.subs : e.place = Place(f) /\ e.client = c
  BY <1>2
<1>4. Place(f) \in trie.alloc
  BY <1>3 DEF TInv, WellFormed, Filed
<1>5. Place(f) \in Scanned(trie, t)
  BY <1>1, <1>2, <1>4, CoversScanned
<1>6. e \in Gathered(trie, t)
  BY <1>3, <1>5 DEF Gathered
<1> QED BY <1>3, <1>6 DEF ClientsOf

LEMMA AnswerIsStores ==
  ASSUME TInv, Straight, NEW t, Searched(t), up, UNCHANGED <<up, trie>>,
         found' \in Answers(trie, t)
  PROVE  Store!Search(t)
<1> DEFINE G == Gathered(trie, t)
           who == ClientsOf(G)
<1>1. /\ found' \in [who -> {e.qos : e \in G}]
      /\ \A c \in who : \E e \in G : e.client = c /\ e.qos = found'[c]
  BY DEF Answers
<1>2. \A e \in G : e \in trie.subs
  BY DEF Gathered
<1>3. ASSUME NEW c \in who
      PROVE  /\ c \in Client /\ found'[c] \in QoS
             /\ \E f \in Store!Possible(c, t) : found'[c] = Grants(trie)[<<c, f>>]
  <2>1. PICK e \in G : e.client = c /\ e.qos = found'[c]
    BY <1>1
  <2>2. PICK f \in Filter : e.place = Place(f) /\ Grants(trie)[<<e.client, f>>] = e.qos
    BY <1>2, EntryIs
  <2>3. f \in Store!Possible(c, t)
    BY <2>1, <2>2, GatheredIsPossible
  <2> QED BY <1>2, <2>1, <2>2, <2>3, EntryIs
<1>4. {c \in Client : Store!Certain(c, t) # {}} \subseteq who
  BY CertainIsGathered
<1>5. who \in SUBSET {c \in Client : Store!Possible(c, t) # {}}
  BY <1>3
<1>6. found' \in [who -> QoS]
  BY <1>1, <1>3
<1>7. Grants(trie') = Grants(trie)
  OBVIOUS
<1> HIDE DEF who, G
<1> QED BY <1>3, <1>4, <1>5, <1>6, <1>7, MappedGrants DEF Store!Search

(* More hits are at least as much in excess. *)
LEMMA ExcessGrows ==
  ASSUME NEW more, IsFiniteSet(more), NEW fewer \in SUBSET more
  PROVE  Cardinality(fewer) - Cardinality({h[1] : h \in fewer})
           <= Cardinality(more) - Cardinality({h[1] : h \in more})
<1> DEFINE rest == more \ fewer
           firsts(S) == {h[1] : h \in S}
           image(S) == [h \in S |-> h[1]]
<1>1. ASSUME NEW S \in SUBSET more
      PROVE  /\ IsFiniteSet(S) /\ IsFiniteSet(firsts(S))
             /\ Cardinality(firsts(S)) <= Cardinality(S)
             /\ Cardinality(S) \in Nat /\ Cardinality(firsts(S)) \in Nat
  <2>1. IsFiniteSet(S)
    BY FS_Subset
  <2>2. image(S) \in Surjection(S, firsts(S))
    BY DEF Surjection
  <2> HIDE DEF image
  <2>3. IsFiniteSet(firsts(S)) /\ Cardinality(firsts(S)) <= Cardinality(S)
    BY <2>1, <2>2, FS_Surjection
  <2> QED BY <2>1, <2>3, FS_CardinalityType
<1>2. firsts(more) = firsts(fewer) \cup firsts(rest) /\ rest \in SUBSET more
  OBVIOUS
<1>3. more = fewer \cup rest /\ fewer \cap rest = {}
  OBVIOUS
<1> HIDE DEF rest, firsts, image
<1>4. /\ IsFiniteSet(fewer) /\ IsFiniteSet(rest)
      /\ IsFiniteSet(firsts(fewer)) /\ IsFiniteSet(firsts(rest))
  BY <1>1, <1>2
<1>5. /\ Cardinality(fewer) \in Nat /\ Cardinality(rest) \in Nat
      /\ Cardinality(firsts(fewer)) \in Nat /\ Cardinality(firsts(rest)) \in Nat
      /\ Cardinality(firsts(more)) \in Nat
      /\ Cardinality(firsts(rest)) <= Cardinality(rest)
  BY <1>1, <1>2
<1>6. Cardinality(more) = Cardinality(fewer) + Cardinality(rest)
  <2>1. Cardinality(fewer \cup rest)
          = Cardinality(fewer) + Cardinality(rest) - Cardinality(fewer \cap rest)
    BY <1>4, FS_Union
  <2>2. Cardinality(fewer \cap rest) = 0
    BY <1>3, FS_EmptySet
  <2> QED BY <1>3, <1>5, <2>1, <2>2
<1>7. Cardinality(firsts(more)) <= Cardinality(firsts(fewer)) + Cardinality(firsts(rest))
  <2>1. PICK common : common = firsts(fewer) \cap firsts(rest)
    OBVIOUS
  <2>2. Cardinality(firsts(more)) = Cardinality(firsts(fewer))
          + Cardinality(firsts(rest)) - Cardinality(common)
    BY <1>2, <1>4, <2>1, FS_Union
  <2>3. IsFiniteSet(common)
    BY <1>4, <2>1, FS_Intersection
  <2>4. Cardinality(common) \in Nat
    BY <2>3, FS_CardinalityType
  <2> QED BY <1>5, <2>2, <2>4
<1>8. Cardinality(fewer) - Cardinality(firsts(fewer))
        <= Cardinality(more) - Cardinality(firsts(more))
  BY <1>5, <1>6, <1>7
<1> QED BY <1>8 DEF firsts

(* An entry as the store sees it: who has been granted which filter. *)
FilterOf(p) == CHOOSE f \in Filter : Place(f) = p
HitOf(e) == <<e.client, FilterOf(e.place)>>
Hits(t) == {h \in Client \X Filter : h[2] \in Store!Possible(h[1], t)}

LEMMA HitIs ==
  ASSUME TInv, NEW e \in trie.subs
  PROVE  /\ FilterOf(e.place) \in Filter /\ Place(FilterOf(e.place)) = e.place
         /\ HitOf(e) \in Client \X Filter /\ HitOf(e)[1] = e.client
         /\ HitOf(e)[2] = FilterOf(e.place)
<1>1. \E f \in Filter : Place(f) = e.place
  BY EntryIs
<1>2. FilterOf(e.place) \in Filter /\ Place(FilterOf(e.place)) = e.place
  BY <1>1 DEF FilterOf
<1> QED BY <1>2, EntryIs DEF HitOf

LEMMA HitsAreFinite ==
  ASSUME TInv, IsFiniteSet(trie.subs), NEW t
  PROVE  IsFiniteSet(Hits(t))
<1> DEFINE all == {HitOf(e) : e \in trie.subs}
           by == [e \in trie.subs |-> HitOf(e)]
<1>1. by \in Surjection(trie.subs, all)
  BY DEF Surjection
<1> HIDE DEF by
<1>2. IsFiniteSet(all)
  BY <1>1, FS_Surjection
<1>3. ASSUME NEW h \in Hits(t)
      PROVE  h \in all
  <2>1. PICK c \in Client, f \in Filter : h = <<c, f>> /\ f \in Store!Held(c)
    BY DEF Hits, Store!Possible
  <2>2. PICK e \in trie.subs : e.place = Place(f) /\ e.client = c
    BY <2>1, HeldIs
  <2>3. FilterOf(e.place) = f
    BY <2>2, HitIs, FilterAssumption
  <2>4. h = HitOf(e)
    BY <2>1, <2>2, <2>3 DEF HitOf
  <2> QED BY <2>4
<1>4. Hits(t) \in SUBSET all
  BY <1>3
<1> HIDE DEF all
<1> QED BY <1>2, <1>4, FS_Subset

(* The entries gathered are as many hits, of as many clients. *)
LEMMA GatheredAreHits ==
  ASSUME TInv, Straight, IsFiniteSet(trie.subs), NEW t, Searched(t)
  PROVE  \E fewer \in SUBSET Hits(t) :
           /\ Cardinality(fewer) = Cardinality(Gathered(trie, t))
           /\ {h[1] : h \in fewer} = ClientsOf(Gathered(trie, t))
<1> DEFINE G == Gathered(trie, t)
           fewer == {HitOf(e) : e \in G}
           by == [e \in G |-> HitOf(e)]
<1>1. G \in SUBSET trie.subs
  BY DEF Gathered
<1>2. IsFiniteSet(G)
  BY <1>1, FS_Subset
<1>3. ASSUME NEW e \in G
      PROVE  HitOf(e) \in Hits(t) /\ HitOf(e)[1] = e.client
  <2>1. /\ FilterOf(e.place) \in Filter /\ Place(FilterOf(e.place)) = e.place
        /\ HitOf(e) \in Client \X Filter /\ HitOf(e)[1] = e.client
        /\ HitOf(e)[2] = FilterOf(e.place)
    BY <1>1, HitIs
  <2>2. FilterOf(e.place) \in Store!Possible(e.client, t)
    BY <2>1, GatheredIsPossible
  <2> QED BY <2>1, <2>2 DEF Hits
<1>4. ASSUME NEW d \in G, NEW e \in G, HitOf(d) = HitOf(e)
      PROVE  d = e
  <2>1. d \in trie.subs /\ e \in trie.subs
    BY <1>1
  <2>2. d.client = e.client /\ FilterOf(d.place) = FilterOf(e.place)
    BY <1>4 DEF HitOf
  <2>3. d.place = e.place
    BY <2>1, <2>2, HitIs
  <2> QED BY <2>1, <2>2, <2>3 DEF TInv, WellFormed, Distinct
<1>5. by \in Bijection(G, fewer)
  BY <1>4 DEF Bijection, Injection, Surjection, IsInjective
<1>6. Cardinality(fewer) = Cardinality(G)
  <2>1. ExistsBijection(G, fewer)
    BY <1>5 DEF ExistsBijection
  <2> HIDE DEF G, fewer, by
  <2> QED BY <1>2, <2>1, FS_Bijection
<1>7. fewer \in SUBSET Hits(t)
  BY <1>3
<1>8. {h[1] : h \in fewer} = ClientsOf(G)
  BY <1>3 DEF ClientsOf
<1> HIDE DEF fewer
<1> QED BY <1>6, <1>7, <1>8

LEMMA CrashIsStores ==
  ASSUME TInv, Straight, IsFiniteSet(trie.subs), NEW t, Searched(t), up,
         SearchCrashes(trie, t), up' = FALSE, UNCHANGED trie, found' = Nobody
  PROVE  Store!Search(t)
<1>1. PICK fewer \in SUBSET Hits(t) :
        /\ Cardinality(fewer) = Cardinality(Gathered(trie, t))
        /\ {h[1] : h \in fewer} = ClientsOf(Gathered(trie, t))
  BY GatheredAreHits
<1>2. Cardinality(fewer) - Cardinality({h[1] : h \in fewer}) >= 2
  BY <1>1 DEF SearchCrashes, Surplus
<1>3. IsFiniteSet(Hits(t))
  BY HitsAreFinite
<1>4. Cardinality(fewer) - Cardinality({h[1] : h \in fewer})
        <= Cardinality(Hits(t)) - Cardinality({h[1] : h \in Hits(t)})
  BY <1>3, ExcessGrows
<1>5. /\ Cardinality(fewer) \in Int /\ Cardinality({h[1] : h \in fewer}) \in Int
      /\ Cardinality(Hits(t)) \in Int /\ Cardinality({h[1] : h \in Hits(t)}) \in Int
  <2>1. ASSUME NEW S, IsFiniteSet(S)
        PROVE  Cardinality(S) \in Int /\ Cardinality({h[1] : h \in S}) \in Int
    <3> DEFINE image == [h \in S |-> h[1]]
               firsts == {h[1] : h \in S}
    <3>1. image \in Surjection(S, firsts)
      BY DEF Surjection
    <3> HIDE DEF image, firsts
    <3>2. IsFiniteSet(firsts)
      BY <2>1, <3>1, FS_Surjection
    <3>3. Cardinality(S) \in Nat /\ Cardinality(firsts) \in Nat
      BY <2>1, <3>2, FS_CardinalityType
    <3> QED BY <3>3 DEF firsts
  <2>2. IsFiniteSet(fewer)
    BY <1>3, FS_Subset
  <2> QED BY <1>3, <2>1, <2>2
<1>6. Cardinality(Hits(t)) - Cardinality({h[1] : h \in Hits(t)}) >= 2
  BY <1>2, <1>4, <1>5
<1>7. Store!Excess(t) = Cardinality(Hits(t)) - Cardinality({h[1] : h \in Hits(t)})
  BY DEF Store!Excess, Hits, Cardinality, Store!Cardinality
<1>8. Grants(trie') = Grants(trie)
  OBVIOUS
<1> QED BY <1>6, <1>7, <1>8, MappedGrants DEF Store!Search, Nobody, Store!Nobody

LEMMA StorePublish ==
  ASSUME TInv, Straight, IsFiniteSet(trie.subs), NEW t \in Topic, Publish(t)
  PROVE  Store!Publish(t)
<1>1. PICK h \in Heard(t) : Search(h)
  BY DEF Publish
<1>2. Searched(h)
  BY HeardIsSearched
<1>3. Store!Search(h)
  BY <1>1, <1>2, AnswerIsStores, CrashIsStores DEF Search
<1>4. h \in Store!Heard(t)
  BY DEF Heard, ReadAs, Store!Heard, Store!ReadAs
<1> QED BY <1>3, <1>4 DEF Store!Publish

(* Every step of the trie is a step of the store. *)
LEMMA StoreNext ==
  ASSUME TInv, Straight, IsFiniteSet(trie.subs), [Next]_vars
  PROVE  [Store!Next]_(Store!vars)
<1>1. /\ usage.clients \subseteq Client
      /\ usage.filters \subseteq Filter /\ usage.qos \subseteq QoS
      /\ usage.topics \subseteq Topic
  BY UsageAssumption DEF TInv, WellFormed, TypeOK
<1>2. ASSUME NEW c \in usage.clients, NEW f \in usage.filters, NEW q \in usage.qos,
             Subscribe(c, f, q)
      PROVE  Store!Next
  BY <1>1, <1>2, StoreSubscribe DEF Store!Next
<1>3. ASSUME NEW c \in usage.clients, NEW f \in usage.filters, Unsubscribe(c, f)
      PROVE  Store!Next
  BY <1>1, <1>3, StoreUnsubscribe DEF Store!Next
<1>4. ASSUME NEW t \in usage.topics, Publish(t)
      PROVE  Store!Next
  BY <1>1, <1>4, StorePublish DEF Store!Next
<1>5. ASSUME UNCHANGED vars
      PROVE  UNCHANGED Store!vars
  <2>1. Grants(trie') = Grants(trie)
    BY <1>5 DEF vars
  <2> QED BY <1>5, <2>1, MappedGrants DEF vars, Store!vars
<1> QED BY <1>2, <1>3, <1>4, <1>5 DEF Next

LEMMA FiniteNext ==
  ASSUME IsFiniteSet(trie.subs), [Next]_vars
  PROVE  IsFiniteSet(trie'.subs)
<1>1. ASSUME NEW c, NEW f, NEW q, Subscribe(c, f, q)
      PROVE  IsFiniteSet(trie'.subs)
  <2>1. PICK new : new = [place |-> Place(f), client |-> c, qos |-> q]
    OBVIOUS
  <2>2. trie'.subs = trie.subs \/ trie'.subs = trie.subs \cup {new}
    BY <1>1, <2>1 DEF Subscribe, Intercept
  <2>3. IsFiniteSet(trie.subs \cup {new})
    BY FS_AddElement
  <2> QED BY <2>2, <2>3
<1>2. ASSUME NEW c, NEW f, Unsubscribe(c, f)
      PROVE  IsFiniteSet(trie'.subs)
  <2>1. DeleteTopics(trie, {f}, c).subs \in SUBSET trie.subs
    BY DEF DeleteTopics, WithoutClient
  <2>2. trie'.subs \in SUBSET trie.subs
    BY <1>2, <2>1 DEF Unsubscribe
  <2> QED BY <2>2, FS_Subset
<1>3. ASSUME NEW t, Publish(t)
      PROVE  IsFiniteSet(trie'.subs)
  BY <1>3 DEF Publish, Search
<1>4. CASE UNCHANGED vars
  BY <1>4 DEF vars
<1> QED BY <1>1, <1>2, <1>3, <1>4 DEF Next

(* The trie is the store that Subscriptions describes, for any filters,    *)
(* clients and topics whose walks keep their levels: the first grant       *)
(* stands until it is given up, giving up a filter that is held is safe    *)
(* and ends the grant unless others have the filter too (filtering.c,      *)
(* delete_topic), nobody's grants change by what others do, every search   *)
(* answers from the current ones, and it dies on two surplus entries or    *)
(* more and not otherwise.                                                 *)
THEOREM TrieIsStore ==
  ASSUME Straight
  PROVE  Spec => ImplementsStore
<1>1. Init => Store!Init /\ IsFiniteSet(trie.subs)
  <2> SUFFICES ASSUME Init PROVE Store!Init /\ IsFiniteSet(trie.subs)
    OBVIOUS
  <2>1. trie.subs = {} /\ up = TRUE /\ found = Nobody
    BY DEF Init, EmptyTrie
  <2>2. \A c, f : GrantIn(trie, c, f) = -1
    BY <2>1, GrantAlone
  <2>3. Grants(trie) = [h \in Client \X Filter |-> -1]
    BY <2>2 DEF Grants
  <2> QED BY <2>1, <2>3, MappedGrants, FS_EmptySet
        DEF Store!Init, Store!NotHeld, Nobody, Store!Nobody
<1>2. IsFiniteSet(trie.subs) /\ [Next]_vars => IsFiniteSet(trie.subs)'
  BY FiniteNext
<1>3. TInv /\ IsFiniteSet(trie.subs) /\ [Next]_vars => [Store!Next]_(Store!vars)
  BY StoreNext
<1> QED BY <1>1, <1>2, <1>3, TThroughout, PTL DEF Spec, ImplementsStore, Store!Spec
=============================================================================

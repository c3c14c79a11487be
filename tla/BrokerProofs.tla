---------------------------- MODULE BrokerProofs ----------------------------
(***************************************************************************)
(* Proofs about module Broker, for every value of its constants: its state *)
(* keeps its types, and as long as no client sends a second CONNECT on a   *)
(* connection, sessions, descriptors and packets in flight belong together.*)
(*                                                                         *)
(* As long as clients keep to one connection with one CONNECT each, what a *)
(* session lists the trie has.  If also some rows below Base are left      *)
(* free, acknowledgements free the rows they are about, and persistent     *)
(* sessions are caught up.  Last, Broker implements Delivery.              *)
(***************************************************************************)
EXTENDS Broker, FiniteSetTheorems, SequenceTheorems, WellFoundedInduction, TLAPS

----------------------------------------------------------------------------
(* Numbers and sequences.                                                  *)

(* A non-empty set of natural numbers has a least element. *)
LEMMA LeastNat ==
  ASSUME NEW S, S \subseteq Nat, S # {}
  PROVE  \E n \in S : \A m \in S : n <= m
<1> DEFINE R == OpToRel(<, Nat)
<1>1. PICK n \in S : \A m \in S : <<m, n>> \notin R
  <2>1. IsWellFoundedOn(R, Nat)
    BY NatLessThanWellFounded
  <2> QED BY <2>1, WFMin
<1>2. \A m \in S : ~(m < n)
  BY <1>1 DEF OpToRel
<1> HIDE DEF R
<1> QED BY <1>2

(* The least element is what Min chooses. *)
LEMMA MinProperties ==
  ASSUME NEW S, S \subseteq Nat, S # {}
  PROVE  Min(S) \in S /\ \A m \in S : Min(S) <= m
BY LeastNat DEF Min

(* Taking an entry out of a sequence. *)
LEMMA RemoveAtProperties ==
  ASSUME NEW S, NEW s \in Seq(S), NEW n \in 1..Len(s)
  PROVE  /\ RemoveAt(s, n) \in Seq(S)
         /\ Len(RemoveAt(s, n)) = Len(s) - 1
         /\  \A i \in 1..(Len(s) - 1) :
              RemoveAt(s, n)[i] = IF i < n THEN s[i] ELSE s[i + 1]
<1>1. PICK a, b : a = SubSeq(s, 1, n - 1) /\ b = SubSeq(s, n + 1, Len(s))
  OBVIOUS
<1>t. a \in Seq(S) /\ b \in Seq(S)
  BY <1>1
<1>l. Len(a) = n - 1 /\ Len(b) = Len(s) - n
  BY <1>1
<1>2. \A i \in 1..(n - 1) : a[i] = s[i]
  BY <1>1
<1>3. \A i \in 1..(Len(s) - n) : b[i] = s[n + i]
  BY <1>1
<1>4. RemoveAt(s, n) = a \o b
  BY <1>1 DEF RemoveAt
<1>5. a \o b \in Seq(S)
  BY <1>t
<1>6. Len(a \o b) = Len(s) - 1
  <2>1. Len(a \o b) = Len(a) + Len(b)
    BY <1>t
  <2> QED BY <2>1, <1>l
<1>7. ASSUME NEW i \in 1..(Len(s) - 1)
      PROVE  (a \o b)[i] = IF i < n THEN s[i] ELSE s[i + 1]
  <2>1. CASE i < n
    BY <1>t, <1>l, <1>2, <2>1
  <2>2. CASE ~(i < n)
    <3>1. i - (n - 1) \in 1..(Len(s) - n)
      BY <2>2
    <3>2. (a \o b)[i] = b[i - (n - 1)]
      BY <1>t, <1>l, <2>2
    <3>3. b[i - (n - 1)] = s[n + (i - (n - 1))]
      BY <1>3, <3>1
    <3>4. n + (i - (n - 1)) = i + 1
      OBVIOUS
    <3> QED BY <2>2, <3>2, <3>3, <3>4
  <2> QED BY <2>1, <2>2
<1> QED BY <1>4, <1>5, <1>6, <1>7

(* Putting an entry in front of a sequence. *)
LEMMA PrependProperties ==
  ASSUME NEW S, NEW s \in Seq(S), NEW x \in S
  PROVE  /\ <<x>> \o s \in Seq(S)
         /\ Len(<<x>> \o s) = Len(s) + 1
         /\ (<<x>> \o s)[1] = x
         /\ \A i \in 2..(Len(s) + 1) : (<<x>> \o s)[i] = s[i - 1]
<1>1. <<x>> \in Seq(S) /\ Len(<<x>>) = 1 /\ <<x>>[1] = x
  OBVIOUS
<1>2. PICK a : a = <<x>>
  OBVIOUS
<1>3. a \in Seq(S)
  BY <1>1, <1>2
<1>4. Len(a) = 1 /\ a[1] = x
  BY <1>1, <1>2
<1>5. a \o s \in Seq(S)
  BY <1>3
<1>6. Len(a \o s) = Len(s) + 1
  <2>1. Len(a \o s) = Len(a) + Len(s)
    BY <1>3
  <2> QED BY <2>1, <1>4
<1>i. ASSUME NEW i \in 1..(Len(a) + Len(s))
      PROVE  (a \o s)[i] = IF i <= Len(a) THEN a[i] ELSE s[i - Len(a)]
  BY <1>3, ConcatProperties
<1>7. (a \o s)[1] = x
  <2>1. 1 \in 1..(Len(a) + Len(s)) /\ 1 <= Len(a)
    BY <1>4
  <2> QED BY <1>i, <2>1, <1>4
<1>8. ASSUME NEW i \in 2..(Len(s) + 1)
      PROVE  (a \o s)[i] = s[i - 1]
  <2>1. i \in 1..(Len(a) + Len(s)) /\ ~(i <= Len(a)) /\ i - Len(a) = i - 1
    BY <1>4
  <2> QED BY <1>i, <2>1
<1> QED BY <1>2, <1>5, <1>6, <1>7, <1>8

----------------------------------------------------------------------------
(* The trie.                                                               *)

Keys == Seq(Labels)

(* A filter is a sequence of labels. *)
LEMMA FilterType ==
  ASSUME NEW k \in DOMAIN Filters
  PROVE  Filters[k] \in Keys
<1>1. Filters[k] \in Seq(STRING)
  BY BrokerAssumption
<1>2. \A i \in 1..Len(Filters[k]) : Filters[k][i] \in Labels
  BY <1>1 DEF Labels, ToSet
<1> QED BY <1>1, <1>2 DEF Keys

(* The types of a trie's parts, as in TypeOK. *)
TrieTypeOK(t) ==
  /\ t.nodes \subseteq Seq(Labels) /\ t.alloc \subseteq Seq(Labels)
  /\ t.subs \subseteq [place : Seq(Labels), client : Client, qos : QoS]

LEMMA PlaceType ==
  ASSUME NEW key \in Keys
  PROVE  Place(key) \in Keys
<1>1. Walked(key) \in Keys
  <2>1. CASE Len(key) > 1
    <3>1. key # <<>>
      BY <2>1
    <3>2. Tail(key) \in Keys
      BY <3>1, HeadTailProperties DEF Keys
    <3> QED BY <3>2 DEF Walked
  <2>2. CASE ~(Len(key) > 1)
    BY <2>2 DEF Walked
  <2> QED BY <2>1, <2>2
<1>2. ASSUME NEW i \in 1..Len(Walked(key))
      PROVE  Label(Walked(key)[i]) \in Labels
  <2>1. Walked(key)[i] \in Labels
    BY <1>1, ElementOfSeq DEF Keys
  <2>2. "/" \in Labels
    BY DEF Labels
  <2> QED BY <2>1, <2>2 DEF Label
<1>3. Len(Walked(key)) \in Nat
  BY <1>1 DEF Keys
<1> QED BY <1>2, <1>3 DEF Place, Keys

LEMMA NodeOfType ==
  ASSUME NEW place \in Keys
  PROVE  NodeOf(place) \in Keys
<1>1. \A i \in 1..(Len(place) - 1) : place[i] \in Labels
  BY ElementOfSeq DEF Keys
<1>2. SubSeq(place, 1, Len(place) - 1) \in Keys
  BY <1>1, SubSeqProperties DEF Keys
<1> QED BY <1>2 DEF NodeOf, Front

LEMMA ChainType ==
  ASSUME NEW node \in Keys
  PROVE  Chain(node) \subseteq Keys
BY DEF Chain, Prefixes, Keys

LEMMA InterceptType ==
  ASSUME NEW t, TrieTypeOK(t),
         NEW key \in Keys, NEW q \in QoS, NEW c \in Client
  PROVE  TrieTypeOK(Intercept(t, key, q, c))
<1>1. Place(key) \in Keys /\ Chain(NodeOf(Place(key))) \subseteq Keys
  BY PlaceType, NodeOfType, ChainType
<1> QED BY <1>1 DEF TrieTypeOK, Intercept, Keys

LEMMA DeleteTopicsType ==
  ASSUME NEW t, TrieTypeOK(t), NEW keys, NEW c
  PROVE  TrieTypeOK(DeleteTopics(t, keys, c))
BY DEF TrieTypeOK, DeleteTopics, WithoutClient

----------------------------------------------------------------------------
(* The two hash tables.                                                    *)

(* HASH_FIND on session_sock returns a session of that descriptor. *)
LEMMA SessionOnFound ==
  ASSUME sessions \in Seq(Session), NEW f, HasSession(f)
  PROVE  /\ SessionOn(f) \in DOMAIN sessions
         /\ sessions[SessionOn(f)].sock = f
<1>1. PICK S : S = {s \in DOMAIN sessions : sessions[s].sock = f}
  OBVIOUS
<1>2. S \subseteq Nat /\ S # {}
  BY <1>1 DEF HasSession
<1>3. PICK n \in S : \A m \in S : n <= m
  BY <1>2, LeastNat
<1>4. \A r \in 1..(n - 1) : sessions[r].sock # f
  BY <1>1, <1>2, <1>3
<1> QED BY <1>1, <1>3, <1>4 DEF SessionOn

(* And on session_client_id one of that client. *)
LEMMA SessionOfFound ==
  ASSUME sessions \in Seq(Session), NEW c, IsKnown(c)
  PROVE  /\ SessionOf(c) \in DOMAIN sessions
         /\ sessions[SessionOf(c)].client = c
<1>1. PICK S : S = {s \in DOMAIN sessions : sessions[s].client = c}
  OBVIOUS
<1>2. S \subseteq Nat /\ S # {}
  BY <1>1 DEF IsKnown
<1>3. PICK n \in S : \A m \in S : n <= m
  BY <1>2, LeastNat
<1>4. \A r \in 1..(n - 1) : sessions[r].client # c
  BY <1>1, <1>2, <1>3
<1> QED BY <1>1, <1>3, <1>4 DEF SessionOf

----------------------------------------------------------------------------
(* The fan-out of one message.                                             *)

(* Who a message may go to: clients, each with the QoS it was granted. *)
IsAnswer(answer) ==
  /\ DOMAIN answer \subseteq Client
  /\ \A c \in DOMAIN answer : answer[c] \in 0..2

LEMMA AnswersAre ==
  ASSUME TrieTypeOK(trie), NEW t, NEW answer \in Answers(trie, t)
  PROVE  IsAnswer(answer)
<1>1. PICK found : found = Gathered(trie, t)
  OBVIOUS
<1>2. found \subseteq trie.subs
  BY <1>1 DEF Gathered
<1>3. \A e \in found : e.client \in Client /\ e.qos \in 0..2
  BY <1>2, BrokerAssumption DEF TrieTypeOK
<1>4. answer \in [ClientsOf(found) -> {e.qos : e \in found}]
  BY <1>1 DEF Answers
<1>5. ClientsOf(found) \subseteq Client
  BY <1>3 DEF ClientsOf
<1> QED BY <1>3, <1>4, <1>5 DEF IsAnswer

LEMMA EffectiveQoSType ==
  ASSUME NEW answer, IsAnswer(answer), NEW q \in 0..2, NEW c
  PROVE  EffectiveQoS(answer, q, c) \in 0..2
<1>1. PICK S : S = {q} \cup {answer[d] : d \in {e \in DOMAIN answer : e <= c}}
  OBVIOUS
<1>2. S \subseteq 0..2 /\ S # {}
  BY <1>1 DEF IsAnswer
<1>3. S \subseteq Nat
  BY <1>2
<1>4. Min(S) \in S
  BY <1>2, <1>3, MinProperties
<1> QED BY <1>1, <1>2, <1>4 DEF EffectiveQoS

(* The rows after a fan-out are rows. *)
LEMMA RowsAfterType ==
  ASSUME rows \in [Id -> Row],
         NEW answer, IsAnswer(answer), NEW q \in 0..2,
         NEW ids \in [Takers(answer, q) -> Id],
         NEW m, DOMAIN answer # {} => m \in Msg
  PROVE  RowsAfter(ids, answer, q, m) \in [Id -> Row]
<1>1. Stored(ids) \subseteq DOMAIN answer
  BY DEF Stored, Takers
<1>2. ASSUME NEW i \in Id, NEW c \in Stored(ids)
      PROVE  [client |-> c, msg |-> m, payload |-> "live",
              qos |-> EffectiveQoS(answer, q, c)] \in Row
  <2>1. c \in Client /\ m \in Msg
    BY <1>1 DEF IsAnswer
  <2>2. EffectiveQoS(answer, q, c) \in 0..2
    BY EffectiveQoSType
  <2>3. EffectiveQoS(answer, q, c) > 0
    BY DEF Stored, Takers
  <2>4. EffectiveQoS(answer, q, c) \in 1..2
    BY <2>2, <2>3
  <2> QED BY <2>1, <2>4 DEF Row, UsedRow
<1>3. ASSUME NEW i \in Id, \E c \in Stored(ids) : ids[c] = i
      PROVE  (CHOOSE c \in Stored(ids) : ids[c] = i) \in Stored(ids)
  BY <1>3
<1>4. ASSUME NEW i \in Id
      PROVE  RowsAfter(ids, answer, q, m)[i] \in Row
  <2>1. CASE \E c \in Stored(ids) : ids[c] = i
    <3>1. PICK c \in Stored(ids) : c = CHOOSE d \in Stored(ids) : ids[d] = i
      BY <1>3, <2>1
    <3>2. RowsAfter(ids, answer, q, m)[i] =
            [client |-> c, msg |-> m, payload |-> "live",
             qos |-> EffectiveQoS(answer, q, c)]
      BY <2>1, <3>1 DEF RowsAfter
    <3> QED BY <1>2, <3>2
  <2>2. CASE ~\E c \in Stored(ids) : ids[c] = i
    <3>1. RowsAfter(ids, answer, q, m)[i] = rows[i]
      BY <2>2 DEF RowsAfter
    <3> QED BY <3>1
  <2> QED BY <2>1, <2>2
<1>5. RowsAfter(ids, answer, q, m) = [i \in Id |-> RowsAfter(ids, answer, q, m)[i]]
  BY DEF RowsAfter
<1> QED BY <1>4, <1>5

(* Its packets are packets, each written to a session of its client. *)
LEMMA PacketsAfterType ==
  ASSUME sessions \in Seq(Session),
         NEW answer, IsAnswer(answer), NEW q \in 0..2,
         NEW ids \in [Takers(answer, q) -> Id],
         NEW m, DOMAIN answer # {} => m \in Msg,
         NEW p \in PacketsAfter(ids, answer, q, m), p \notin wire
  PROVE  /\ p \in Packet
         /\ \E s \in DOMAIN sessions :
              p.fd = sessions[s].sock /\ p.client = sessions[s].client
<1>1. PICK c \in DOMAIN ids :
        /\ IsKnown(c)
        /\ p = [fd |-> sessions[SessionOf(c)].sock, client |-> c, id |-> ids[c],
                msg |-> m, qos |-> EffectiveQoS(answer, q, c)]
  BY DEF PacketsAfter
<1>2. c \in DOMAIN answer /\ EffectiveQoS(answer, q, c) > 0
  BY DEF Takers
<1>3. c \in Client /\ m \in Msg
  BY <1>2 DEF IsAnswer
<1>4. EffectiveQoS(answer, q, c) \in 1..2
  <2>1. EffectiveQoS(answer, q, c) \in 0..2
    BY EffectiveQoSType
  <2> QED BY <1>2, <2>1
<1>5. PICK s \in DOMAIN sessions : s = SessionOf(c) /\ sessions[s].client = c
  BY <1>1, SessionOfFound
<1>6. sessions[s] \in Session
  BY <1>5
<1>7. sessions[s].sock \in Fd
  BY <1>6 DEF Session
<1>8. p \in Packet
  BY <1>1, <1>3, <1>4, <1>5, <1>7 DEF Packet
<1>9. p.fd = sessions[s].sock /\ p.client = sessions[s].client
  BY <1>1, <1>5
<1> QED BY <1>8, <1>9

----------------------------------------------------------------------------
(* Type correctness.                                                       *)

LEMMA TypeInit == Init => TypeOK
<1> SUFFICES ASSUME Init PROVE TypeOK
  OBVIOUS
<1>1. peer \in [Fd -> Client \cup {NoClient}]
  BY DEF Init
<1>2. FreshRow \in Row
  BY DEF FreshRow, Row, FreeRow
<1>3. rows \in [Id -> Row]
  BY <1>2 DEF Init
<1>4. sessions \in Seq(Session)
  BY DEF Init
<1>5. posted \in 0..MaxMsg
  BY BrokerAssumption DEF Init
<1> QED BY <1>1, <1>3, <1>4, <1>5 DEF Init, TypeOK, EmptyTrie

LEMMA TypeDie == TypeOK /\ Die => TypeOK'
BY DEF TypeOK, Die

LEMMA TypeAccept ==
  ASSUME TypeOK, NEW c \in Client, Accept(c)
  PROVE  TypeOK'
<1>1. peer' \in [Fd -> Client \cup {NoClient}]
  BY DEF TypeOK, Accept
<1> QED BY <1>1 DEF TypeOK, Accept

LEMMA TypeDropConnection ==
  ASSUME TypeOK, NEW f \in Fd, DropConnection(f)
  PROVE  TypeOK'
<1>1. peer' \in [Fd -> Client \cup {NoClient}]
  BY DEF TypeOK, DropConnection
<1>2. wire' \subseteq Packet
  BY DEF TypeOK, DropConnection, WithoutFd
<1> QED BY <1>1, <1>2 DEF TypeOK, DropConnection

(* A client's rows, sent again, are packets of that client on f. *)
LEMMA ResentType ==
  ASSUME TypeOK, NEW f \in Fd, peer[f] # NoClient, NEW p \in Resent(f, peer[f])
  PROVE  p \in Packet /\ p.fd = f /\ p.client = peer[f]
<1>1. PICK i \in Id :
        /\ rows[i].client = peer[f]
        /\ p = [fd |-> f, client |-> peer[f], id |-> i,
                msg |-> rows[i].msg, qos |-> rows[i].qos]
  BY DEF Resent
<1>2. peer[f] \in Client
  BY DEF TypeOK
<1>3. rows[i] \in UsedRow
  <2>1. rows[i] \in Row
    BY DEF TypeOK
  <2> QED BY <1>1, <2>1 DEF Row, FreeRow
<1> QED BY <1>1, <1>2, <1>3 DEF UsedRow, Packet

LEMMA TypeConnect ==
  ASSUME TypeOK, NEW f \in Fd, NEW clean \in CleanFlags, Connect(f, clean)
  PROVE  TypeOK'
<1>1. peer[f] \in Client
  BY DEF TypeOK, Connect
<1>2. ASSUME NEW will \in Will, AddSession(f, clean, will)
      PROVE  sessions' \in Seq(Session) /\ wire' \subseteq Packet
  <2>1. [sock |-> f, client |-> peer[f], clean |-> clean,
         will |-> will, topics |-> {}] \in Session
    BY <1>1, BrokerAssumption DEF Session
  <2>2. sessions' \in Seq(Session)
    BY <1>2, <2>1, PrependProperties DEF AddSession, TypeOK
  <2>3. wire' \subseteq Packet
    BY <1>1, <1>2, ResentType DEF AddSession, TypeOK, Connect
  <2> QED BY <2>2, <2>3
<1>3. NoWill \in Will
  BY DEF NoWill, Will
<1>4. CASE AddSession(f, clean, NoWill) /\ UNCHANGED posted
  BY <1>2, <1>3, <1>4 DEF Connect, TypeOK
<1>5. CASE /\ posted < MaxMsg
           /\ \E q \in WillQoS :
                AddSession(f, clean, [msg |-> posted + 1, qos |-> q % 2])
           /\ posted' = posted + 1
  <2>1. PICK q \in WillQoS :
          AddSession(f, clean, [msg |-> posted + 1, qos |-> q % 2])
    BY <1>5
  <2>2. q % 2 \in 0..1
    BY BrokerAssumption
  <2>3. posted + 1 \in Msg /\ posted' \in 0..MaxMsg
    BY <1>5, BrokerAssumption DEF TypeOK, Msg
  <2>4. [msg |-> posted + 1, qos |-> q % 2] \in Will
    BY <2>2, <2>3 DEF Will
  <2> QED BY <1>2, <2>1, <2>3, <2>4 DEF Connect, TypeOK
<1> QED BY <1>4, <1>5 DEF Connect

LEMMA TypePublish ==
  ASSUME TypeOK, NEW f \in Fd, NEW t \in Topic, NEW q \in QoS, Publish(f, t, q)
  PROVE  TypeOK'
<1>0. PICK h \in Heard(t) : PublishAs(f, h, q)
  BY DEF Publish
<1>1. CASE SearchCrashes(trie, h)
  BY <1>0, <1>1, TypeDie DEF PublishAs
<1>2. CASE ~SearchCrashes(trie, h)
  <2>1. PICK answer \in Answers(trie, h) :
          \E ids \in [Takers(answer, q) -> Id] :
            /\ rows' = RowsAfter(ids, answer, q, posted + 1)
            /\ wire' = PacketsAfter(ids, answer, q, posted + 1)
    BY <1>0, <1>2 DEF PublishAs
  <2>2. PICK ids \in [Takers(answer, q) -> Id] :
          /\ rows' = RowsAfter(ids, answer, q, posted + 1)
          /\ wire' = PacketsAfter(ids, answer, q, posted + 1)
    BY <2>1
  <2>3. IsAnswer(answer)
    BY AnswersAre DEF TypeOK, TrieTypeOK
  <2>4. posted + 1 \in Msg /\ posted' \in 0..MaxMsg
    BY <1>0, <1>2, BrokerAssumption DEF PublishAs, TypeOK, Msg
  <2>5. q \in 0..2
    BY BrokerAssumption
  <2>6. rows' \in [Id -> Row]
    BY <2>2, <2>3, <2>4, <2>5, RowsAfterType DEF TypeOK
  <2>7. wire' \subseteq Packet
    BY <2>2, <2>3, <2>4, <2>5, PacketsAfterType DEF TypeOK
  <2> QED BY <1>0, <1>2, <2>4, <2>6, <2>7 DEF PublishAs, TypeOK
<1> QED BY <1>0, <1>1, <1>2

LEMMA TypeAcknowledge ==
  ASSUME TypeOK, NEW p \in wire, Acknowledge(p)
  PROVE  TypeOK'
<1>1. [FreshRow EXCEPT !.payload = "freed"] \in Row
  BY DEF FreshRow, Row, FreeRow
<1>2. rows' \in [Id -> Row] /\ up' \in BOOLEAN
  BY <1>1 DEF Acknowledge, SessionPublishDelete, TypeOK
<1> QED BY <1>2 DEF Acknowledge, TypeOK

LEMMA TypeSubscribe ==
  ASSUME TypeOK, NEW f \in Fd, NEW k \in DOMAIN Filters, NEW q \in QoS,
         Subscribe(f, k, q)
  PROVE  TypeOK'
<1>1. PICK s : s = SessionOn(f)
  OBVIOUS
<1>2. s \in DOMAIN sessions
  BY <1>1, SessionOnFound DEF Subscribe, TypeOK
<1>3. sessions[s] \in Session
  BY <1>2 DEF TypeOK
<1>4. [sessions[s] EXCEPT !.topics = @ \cup {k}] \in Session
  BY <1>3 DEF Session
<1>5. sessions' \in Seq(Session)
  BY <1>1, <1>2, <1>4 DEF Subscribe, TypeOK
<1>6. sessions[s].client \in Client
  BY <1>3 DEF Session
<1>7. TrieTypeOK(trie')
  BY <1>1, <1>6, FilterType, InterceptType DEF Subscribe, TypeOK, TrieTypeOK
<1> QED BY <1>5, <1>7 DEF Subscribe, TypeOK, TrieTypeOK

LEMMA TypeUnsubscribe ==
  ASSUME TypeOK, NEW f \in Fd, NEW k \in DOMAIN Filters, Unsubscribe(f, k)
  PROVE  TypeOK'
<1>1. CASE DeleteCrashes(trie, Filters[k])
  BY <1>1, TypeDie DEF Unsubscribe
<1>2. CASE ~DeleteCrashes(trie, Filters[k])
  <2>1. PICK s : s = SessionOn(f)
    OBVIOUS
  <2>2. s \in DOMAIN sessions
    BY <2>1, SessionOnFound DEF Unsubscribe, TypeOK
  <2>3. sessions[s] \in Session
    BY <2>2 DEF TypeOK
  <2>4. [sessions[s] EXCEPT !.topics = @ \ {k}] \in Session
    BY <2>3 DEF Session
  <2>5. sessions' \in Seq(Session)
    <3>1. sessions' = [sessions EXCEPT ![s] = [sessions[s] EXCEPT !.topics = @ \ {k}]]
      BY <1>2, <2>1 DEF Unsubscribe
    <3> QED BY <2>2, <2>4, <3>1 DEF TypeOK
  <2>6. sessions[s].client \in Client
    BY <2>3 DEF Session
  <2>7. TrieTypeOK(trie')
    BY <1>2, <2>1, <2>6, DeleteTopicsType DEF Unsubscribe, TypeOK, TrieTypeOK
  <2> QED BY <1>2, <2>5, <2>7 DEF Unsubscribe, TypeOK, TrieTypeOK
<1> QED BY <1>1, <1>2

(* What a will is sent to, and as, when its session is closed, however its *)
(* topic is heard.                                                         *)
WillsAnswers(s) == UNION {WillAnswers(s, heard) : heard \in Heard(WillTopic)}

LEMMA WillAnswersAre ==
  ASSUME TypeOK, NEW s \in Session, NEW answer \in WillsAnswers(s)
  PROVE  /\ IsAnswer(answer)
         /\ s.will.qos \in 0..2
         /\ DOMAIN answer # {} => s.will.msg \in Msg
<1>0. PICK heard \in Heard(WillTopic) : answer \in WillAnswers(s, heard)
  BY DEF WillsAnswers
<1>1. s.will.qos \in 0..2 /\ s.will.msg \in Msg \cup {NoMsg}
  BY DEF Session, Will
<1>2. CASE HasWill(s)
  <2>1. answer \in Answers(trie, heard)
    BY <1>0, <1>2 DEF WillAnswers
  <2>2. IsAnswer(answer)
    BY <2>1, AnswersAre DEF TypeOK, TrieTypeOK
  <2> QED BY <1>1, <1>2, <2>2 DEF HasWill
<1>3. CASE ~HasWill(s)
  <2>1. answer = <<>>
    BY <1>0, <1>3 DEF WillAnswers
  <2>2. DOMAIN answer = {}
    BY <2>1
  <2> QED BY <1>1, <2>2 DEF IsAnswer
<1> QED BY <1>2, <1>3

(* A close that is survived, step by step. *)
LEMMA ClosedSession ==
  ASSUME TypeOK, NEW f \in Fd, HasSession(f), SessionClose(f), ~Die
  PROVE  \E n \in DOMAIN sessions :
           /\ sessions[n].sock = f
           /\ sessions' = RemoveAt(sessions, n)
           /\ peer' = [peer EXCEPT ![f] = NoClient]
           /\ trie' = TrieWithout(sessions[n])
           /\ UNCHANGED <<up, posted>>
           /\ \E answer \in WillsAnswers(sessions[n]) :
                \E ids \in [Takers(answer, sessions[n].will.qos) -> Id] :
                  /\ SessionPublishAdd(ids)
                  /\ rows' = RowsAfter(ids, answer, sessions[n].will.qos,
                                       sessions[n].will.msg)
                  /\ wire' = WithoutFd(
                       PacketsAfter(ids, answer, sessions[n].will.qos,
                                    sessions[n].will.msg), f)
<1>1. SessionOn(f) \in DOMAIN sessions /\ sessions[SessionOn(f)].sock = f
  BY SessionOnFound DEF TypeOK
<1> QED BY <1>1 DEF SessionClose, WillsAnswers

LEMMA TypeSessionClose ==
  ASSUME TypeOK, NEW f \in Fd, HasSession(f), SessionClose(f)
  PROVE  TypeOK'
<1>1. CASE Die
  BY <1>1, TypeDie
<1>2. CASE ~Die
  <2>1. PICK n \in DOMAIN sessions :
           /\ sessions[n].sock = f
           /\ sessions' = RemoveAt(sessions, n)
           /\ peer' = [peer EXCEPT ![f] = NoClient]
           /\ trie' = TrieWithout(sessions[n])
           /\ UNCHANGED <<up, posted>>
           /\ \E answer \in WillsAnswers(sessions[n]) :
                \E ids \in [Takers(answer, sessions[n].will.qos) -> Id] :
                  /\ rows' = RowsAfter(ids, answer, sessions[n].will.qos,
                                       sessions[n].will.msg)
                  /\ wire' = WithoutFd(
                       PacketsAfter(ids, answer, sessions[n].will.qos,
                                    sessions[n].will.msg), f)
    BY <1>2, ClosedSession
  <2>2. PICK s : s = sessions[n]
    OBVIOUS
  <2>3. s \in Session
    BY <2>2 DEF TypeOK
  <2>a. PICK answer \in WillsAnswers(s) :
          \E ids \in [Takers(answer, s.will.qos) -> Id] :
            /\ rows' = RowsAfter(ids, answer, s.will.qos, s.will.msg)
            /\ wire' = WithoutFd(PacketsAfter(ids, answer, s.will.qos, s.will.msg), f)
    BY <2>1, <2>2
  <2>4. PICK ids \in [Takers(answer, s.will.qos) -> Id] :
          /\ rows' = RowsAfter(ids, answer, s.will.qos, s.will.msg)
          /\ wire' = WithoutFd(PacketsAfter(ids, answer, s.will.qos, s.will.msg), f)
    BY <2>a
  <2>5. /\ IsAnswer(answer) /\ s.will.qos \in 0..2
        /\ DOMAIN answer # {} => s.will.msg \in Msg
    BY <2>3, WillAnswersAre
  <2>6. rows' \in [Id -> Row]
    BY <2>4, <2>5, RowsAfterType DEF TypeOK
  <2>7. wire' \subseteq Packet
    BY <2>4, <2>5, PacketsAfterType DEF TypeOK, WithoutFd
  <2>8. sessions' \in Seq(Session)
    BY <2>1, RemoveAtProperties DEF TypeOK
  <2>9. TrieTypeOK(trie')
    BY <2>1, DeleteTopicsType DEF TrieWithout, TypeOK, TrieTypeOK
  <2>10. peer' \in [Fd -> Client \cup {NoClient}]
    BY <2>1 DEF TypeOK
  <2> QED BY <2>1, <2>6, <2>7, <2>8, <2>9, <2>10 DEF TypeOK, TrieTypeOK
<1> QED BY <1>1, <1>2

LEMMA TypeNext == TypeOK /\ [Next]_vars => TypeOK'
<1> SUFFICES ASSUME TypeOK, [Next]_vars PROVE TypeOK'
  OBVIOUS
<1>1. CASE \E c \in Client : Accept(c)
  BY <1>1, TypeAccept
<1>2. ASSUME NEW f \in Fd, NEW clean \in CleanFlags, Connect(f, clean)
      PROVE  TypeOK'
  BY <1>2, TypeConnect
<1>3. ASSUME NEW f \in Fd, Refuse(f) \/ NotConnected(f)
      PROVE  TypeOK'
  BY <1>3, TypeDropConnection DEF Refuse, NotConnected
<1>4. ASSUME NEW f \in Fd, NEW t \in Topic, NEW q \in QoS, Publish(f, t, q)
      PROVE  TypeOK'
  BY <1>4, TypePublish
<1>5. ASSUME NEW f \in Fd, NEW k \in DOMAIN Filters, NEW q \in QoS,
             Subscribe(f, k, q)
      PROVE  TypeOK'
  BY <1>5, TypeSubscribe
<1>6. ASSUME NEW f \in Fd, NEW k \in DOMAIN Filters, Unsubscribe(f, k)
      PROVE  TypeOK'
  BY <1>6, TypeUnsubscribe
<1>7. ASSUME NEW f \in Fd, Disconnect(f)
      PROVE  TypeOK'
  BY <1>7, TypeSessionClose DEF Disconnect
<1>8. ASSUME NEW f \in Fd, Hangup(f)
      PROVE  TypeOK'
  BY <1>8, TypeSessionClose, TypeDropConnection DEF Hangup
<1>9. ASSUME NEW p \in wire, PubAck(p) \/ PubRec(p)
      PROVE  TypeOK'
  BY <1>9, TypeAcknowledge DEF PubAck, PubRec
<1>10. CASE UNCHANGED vars
  BY <1>10 DEF TypeOK, vars
<1> QED BY <1>1, <1>2, <1>3, <1>4, <1>5, <1>6, <1>7, <1>8, <1>9, <1>10 DEF Next

(* Whatever clients do, the state of the broker keeps its types: in        *)
(* particular a used row always has a message and a QoS, so that what      *)
(* CONNECT sends again (event.c:86) is a PUBLISH.                          *)
THEOREM TypeCorrect == Spec => []TypeOK
BY TypeInit, TypeNext, PTL DEF Spec

----------------------------------------------------------------------------
(* Sessions, descriptors and packets in flight belong together.            *)

Belongs == SocketOwned /\ Addressed

LEMMA BelongsInit == Init => Belongs
BY DEF Init, Belongs, SocketOwned, Addressed

(* Nothing belongs to a descriptor that is closed. *)
LEMMA NothingOnClosed ==
  ASSUME TypeOK, Belongs, NEW f, peer[f] = NoClient
  PROVE  /\ \A s \in DOMAIN sessions : sessions[s].sock # f
         /\ \A p \in wire : p.fd # f
<1>1. \A s \in DOMAIN sessions : sessions[s].client \in Client
  <2>1. \A s \in DOMAIN sessions : sessions[s] \in Session
    BY DEF TypeOK
  <2> QED BY <2>1 DEF Session
<1>2. \A p \in wire : p.client \in Client
  BY DEF TypeOK, Packet
<1>3. NoClient \notin Client
  BY BrokerAssumption DEF NoClient
<1> QED BY <1>1, <1>2, <1>3 DEF Belongs, SocketOwned, Addressed

LEMMA BelongsDie == Belongs /\ Die => Belongs'
BY DEF Belongs, SocketOwned, Addressed, Die

LEMMA BelongsAccept ==
  ASSUME TypeOK, Belongs, NEW c \in Client, Accept(c)
  PROVE  Belongs'
<1>1. PICK f \in Fd : peer[f] = NoClient /\ peer' = [peer EXCEPT ![f] = c]
  BY DEF Accept
<1>2. /\ \A s \in DOMAIN sessions : sessions[s].sock # f
      /\ \A p \in wire : p.fd # f
  BY <1>1, NothingOnClosed
<1>3. \A g : g # f => peer'[g] = peer[g]
  BY <1>1 DEF TypeOK
<1> QED BY <1>2, <1>3 DEF Belongs, SocketOwned, Addressed, Accept

LEMMA BelongsDropConnection ==
  ASSUME TypeOK, Belongs, NEW f \in Fd, ~HasSession(f), DropConnection(f)
  PROVE  Belongs'
<1>1. \A g : g # f => peer'[g] = peer[g]
  BY DEF TypeOK, DropConnection
<1>2. SocketOwned'
  BY <1>1 DEF Belongs, SocketOwned, HasSession, DropConnection
<1>3. Addressed'
  BY <1>1 DEF Belongs, Addressed, WithoutFd, DropConnection
<1> QED BY <1>2, <1>3 DEF Belongs

LEMMA BelongsConnect ==
  ASSUME TypeOK, Belongs, "ConnectAgain" \notin Liberties,
         NEW f \in Fd, NEW clean \in CleanFlags, Connect(f, clean)
  PROVE  Belongs'
<1>1. peer[f] # NoClient /\ peer[f] \in Client /\ peer' = peer
  BY DEF TypeOK, Connect
<1>2. \A s \in DOMAIN sessions : sessions[s].sock # f
  BY DEF Connect, HasSession
<1>3. PICK will \in Will : AddSession(f, clean, will)
  <2>1. NoWill \in Will
    BY DEF NoWill, Will
  <2>2. CASE AddSession(f, clean, NoWill)
    BY <2>1, <2>2
  <2>3. CASE \E q \in WillQoS : /\ posted < MaxMsg
               /\ AddSession(f, clean, [msg |-> posted + 1, qos |-> q % 2])
    <3>1. PICK q \in WillQoS : /\ posted < MaxMsg
               /\ AddSession(f, clean, [msg |-> posted + 1, qos |-> q % 2])
      BY <2>3
    <3>2. q % 2 \in 0..1 /\ posted + 1 \in Msg
      BY <3>1, BrokerAssumption DEF TypeOK, Msg
    <3> QED BY <3>1, <3>2 DEF Will
  <2> QED BY <2>2, <2>3 DEF Connect
<1>4. PICK x \in Session :
        x.sock = f /\ x.client = peer[f] /\ sessions' = <<x>> \o sessions
  <2>1. [sock |-> f, client |-> peer[f], clean |-> clean,
         will |-> will, topics |-> {}] \in Session
    BY <1>1, BrokerAssumption DEF Session
  <2> QED BY <1>3, <2>1 DEF AddSession
<1>5. /\ Len(sessions') = Len(sessions) + 1
      /\ sessions' \in Seq(Session)
      /\ sessions'[1] = x
      /\ \A i \in 2..(Len(sessions) + 1) : sessions'[i] = sessions[i - 1]
  BY <1>4, PrependProperties DEF TypeOK
<1>6. DOMAIN sessions' = 1..(Len(sessions) + 1) /\ DOMAIN sessions = 1..Len(sessions)
  BY <1>5 DEF TypeOK
<1>7. \A i \in DOMAIN sessions' :
        i = 1 \/ (i - 1 \in DOMAIN sessions /\ sessions'[i] = sessions[i - 1])
  BY <1>5, <1>6 DEF TypeOK
<1>8. ASSUME NEW s \in DOMAIN sessions'
      PROVE  peer'[sessions'[s].sock] = sessions'[s].client
  BY <1>1, <1>4, <1>5, <1>7 DEF Belongs, SocketOwned
<1>9. ASSUME NEW r \in DOMAIN sessions', NEW s \in DOMAIN sessions',
             sessions'[r].sock = sessions'[s].sock
      PROVE  r = s
  <2>1. r \in Int /\ s \in Int
    BY <1>6
  <2>2. CASE r # 1 /\ s # 1
    BY <1>7, <1>9, <2>1, <2>2 DEF Belongs, SocketOwned
  <2>3. CASE r = 1 \/ s = 1
    BY <1>2, <1>4, <1>5, <1>7, <1>9, <2>3
  <2> QED BY <2>2, <2>3
<1>10. Addressed'
  BY <1>1, <1>3, ResentType DEF Belongs, Addressed, AddSession
<1> QED BY <1>8, <1>9, <1>10 DEF Belongs, SocketOwned

(* Every packet of a fan-out goes to its client's own descriptor. *)
LEMMA FanOutAddressed ==
  ASSUME TypeOK, Belongs, NEW answer, IsAnswer(answer), NEW q \in 0..2,
         NEW ids \in [Takers(answer, q) -> Id],
         NEW m, DOMAIN answer # {} => m \in Msg,
         NEW p \in PacketsAfter(ids, answer, q, m)
  PROVE  peer[p.fd] = p.client
<1>1. CASE p \in wire
  BY <1>1 DEF Belongs, Addressed
<1>2. CASE p \notin wire
  <2>1. \E s \in DOMAIN sessions :
          p.fd = sessions[s].sock /\ p.client = sessions[s].client
    BY <1>2, PacketsAfterType DEF TypeOK
  <2> QED BY <2>1 DEF Belongs, SocketOwned
<1> QED BY <1>1, <1>2

LEMMA BelongsPublish ==
  ASSUME TypeOK, Belongs,
         NEW f \in Fd, NEW t \in Topic, NEW q \in QoS, Publish(f, t, q)
  PROVE  Belongs'
<1>0. PICK h \in Heard(t) : PublishAs(f, h, q)
  BY DEF Publish
<1>1. CASE SearchCrashes(trie, h)
  BY <1>0, <1>1, BelongsDie DEF PublishAs
<1>2. CASE ~SearchCrashes(trie, h)
  <2>1. PICK answer \in Answers(trie, h) :
          \E ids \in [Takers(answer, q) -> Id] :
            wire' = PacketsAfter(ids, answer, q, posted + 1)
    BY <1>0, <1>2 DEF PublishAs
  <2>2. PICK ids \in [Takers(answer, q) -> Id] :
          wire' = PacketsAfter(ids, answer, q, posted + 1)
    BY <2>1
  <2>3. IsAnswer(answer)
    BY AnswersAre DEF TypeOK, TrieTypeOK
  <2>4. posted + 1 \in Msg /\ q \in 0..2
    BY <1>0, <1>2, BrokerAssumption DEF PublishAs, TypeOK, Msg
  <2>5. \A p \in wire' : peer[p.fd] = p.client
    BY <2>2, <2>3, <2>4, FanOutAddressed
  <2>6. peer' = peer /\ sessions' = sessions
    BY <1>0, <1>2 DEF PublishAs
  <2> QED BY <2>5, <2>6 DEF Belongs, SocketOwned, Addressed
<1> QED BY <1>0, <1>1, <1>2

LEMMA BelongsAcknowledge ==
  ASSUME Belongs, NEW p \in wire, Acknowledge(p)
  PROVE  Belongs'
BY DEF Belongs, SocketOwned, Addressed, Acknowledge

(* SUBSCRIBE and UNSUBSCRIBE touch nothing of a session but its topics. *)
LEMMA BelongsTopics ==
  ASSUME TypeOK, Belongs, NEW s \in DOMAIN sessions, NEW topics,
         sessions' = [sessions EXCEPT ![s].topics = topics],
         UNCHANGED <<peer, wire>>
  PROVE  Belongs'
<1>1. DOMAIN sessions' = DOMAIN sessions
  BY DEF TypeOK
<1>2. ASSUME NEW r \in DOMAIN sessions
      PROVE  /\ sessions'[r].sock = sessions[r].sock
             /\ sessions'[r].client = sessions[r].client
  <2>1. sessions[r] \in Session
    BY DEF TypeOK
  <2> QED BY <2>1 DEF Session, TypeOK
<1> QED BY <1>1, <1>2 DEF Belongs, SocketOwned, Addressed

LEMMA BelongsSubscribe ==
  ASSUME TypeOK, Belongs,
         NEW f \in Fd, NEW k \in DOMAIN Filters, NEW q \in QoS, Subscribe(f, k, q)
  PROVE  Belongs'
<1>1. PICK s : s = SessionOn(f)
  OBVIOUS
<1>2. s \in DOMAIN sessions
  BY <1>1, SessionOnFound DEF Subscribe, TypeOK
<1>3. sessions' = [sessions EXCEPT ![s].topics = sessions[s].topics \cup {k}]
  BY <1>1 DEF Subscribe
<1> QED BY <1>2, <1>3, BelongsTopics DEF Subscribe

LEMMA BelongsUnsubscribe ==
  ASSUME TypeOK, Belongs,
         NEW f \in Fd, NEW k \in DOMAIN Filters, Unsubscribe(f, k)
  PROVE  Belongs'
<1>1. CASE DeleteCrashes(trie, Filters[k])
  BY <1>1, BelongsDie DEF Unsubscribe
<1>2. CASE ~DeleteCrashes(trie, Filters[k])
  <2>1. PICK s : s = SessionOn(f)
    OBVIOUS
  <2>2. s \in DOMAIN sessions
    BY <2>1, SessionOnFound DEF Unsubscribe, TypeOK
  <2>3. sessions' = [sessions EXCEPT ![s].topics = sessions[s].topics \ {k}]
    BY <1>2, <2>1 DEF Unsubscribe
  <2> QED BY <1>2, <2>2, <2>3, BelongsTopics DEF Unsubscribe
<1> QED BY <1>1, <1>2

LEMMA BelongsSessionClose ==
  ASSUME TypeOK, Belongs, NEW f \in Fd, HasSession(f), SessionClose(f)
  PROVE  Belongs'
<1>1. CASE Die
  BY <1>1, BelongsDie
<1>2. CASE ~Die
  <2>1. PICK n \in DOMAIN sessions :
           /\ sessions[n].sock = f
           /\ sessions' = RemoveAt(sessions, n)
           /\ peer' = [peer EXCEPT ![f] = NoClient]
           /\ \E answer \in WillsAnswers(sessions[n]) :
                \E ids \in [Takers(answer, sessions[n].will.qos) -> Id] :
                  wire' = WithoutFd(
                    PacketsAfter(ids, answer, sessions[n].will.qos,
                                 sessions[n].will.msg), f)
    BY <1>2, ClosedSession
  <2>2. PICK s : s = sessions[n]
    OBVIOUS
  <2>3. s \in Session
    BY <2>2 DEF TypeOK
  <2>4. PICK answer \in WillsAnswers(s) :
          \E ids \in [Takers(answer, s.will.qos) -> Id] :
            wire' = WithoutFd(PacketsAfter(ids, answer, s.will.qos, s.will.msg), f)
    BY <2>1, <2>2
  <2>5. PICK ids \in [Takers(answer, s.will.qos) -> Id] :
          wire' = WithoutFd(PacketsAfter(ids, answer, s.will.qos, s.will.msg), f)
    BY <2>4
  <2>6. /\ IsAnswer(answer) /\ s.will.qos \in 0..2
        /\ DOMAIN answer # {} => s.will.msg \in Msg
    BY <2>3, WillAnswersAre
  <2>7. \A g : g # f => peer'[g] = peer[g]
    BY <2>1 DEF TypeOK
  <2>8. \A p \in PacketsAfter(ids, answer, s.will.qos, s.will.msg) :
          peer[p.fd] = p.client
    BY <2>6, FanOutAddressed
  <2>9. Addressed'
    BY <2>5, <2>7, <2>8 DEF Addressed, WithoutFd
  <2>10. n \in 1..Len(sessions) /\ Len(sessions) \in Nat
    BY DEF TypeOK
  <2>11. /\ sessions' \in Seq(Session)
         /\ Len(sessions') = Len(sessions) - 1
         /\ \A i \in 1..(Len(sessions) - 1) :
              sessions'[i] = IF i < n THEN sessions[i] ELSE sessions[i + 1]
    BY <2>1, <2>10, RemoveAtProperties DEF TypeOK
  <2> DEFINE old(i) == IF i < n THEN i ELSE i + 1
  <2>12. ASSUME NEW i \in DOMAIN sessions'
         PROVE  /\ i \in Int
                /\ old(i) \in DOMAIN sessions /\ old(i) # n
                /\ sessions'[i] = sessions[old(i)]
    <3>1. i \in 1..(Len(sessions) - 1)
      BY <2>11
    <3>2. i \in Int /\ old(i) \in 1..Len(sessions) /\ old(i) # n
      BY <2>10, <3>1
    <3>3. sessions'[i] = sessions[old(i)]
      BY <2>11, <3>1
    <3> QED BY <3>2, <3>3 DEF TypeOK
  <2>13. \A i, j \in Int : old(i) = old(j) => i = j
    BY <2>10
  <2> HIDE DEF old
  <2>14. ASSUME NEW i \in DOMAIN sessions'
         PROVE  peer'[sessions'[i].sock] = sessions'[i].client
    <3>1. sessions[old(i)].sock # f
      BY <2>1, <2>12 DEF Belongs, SocketOwned
    <3> QED BY <2>7, <2>12, <3>1 DEF Belongs, SocketOwned
  <2>15. ASSUME NEW i \in DOMAIN sessions', NEW j \in DOMAIN sessions',
                sessions'[i].sock = sessions'[j].sock
         PROVE  i = j
    <3>1. old(i) = old(j)
      BY <2>12, <2>15 DEF Belongs, SocketOwned
    <3> QED BY <2>12, <2>13, <3>1
  <2> QED BY <2>9, <2>14, <2>15 DEF Belongs, SocketOwned
<1> QED BY <1>1, <1>2

LEMMA BelongsNext ==
  ASSUME "ConnectAgain" \notin Liberties
  PROVE  TypeOK /\ Belongs /\ [Next]_vars => Belongs'
<1> SUFFICES ASSUME TypeOK, Belongs, [Next]_vars PROVE Belongs'
  OBVIOUS
<1>1. CASE \E c \in Client : Accept(c)
  BY <1>1, BelongsAccept
<1>2. ASSUME NEW f \in Fd, NEW clean \in CleanFlags, Connect(f, clean)
      PROVE  Belongs'
  BY <1>2, BelongsConnect
<1>3. ASSUME NEW f \in Fd, Refuse(f) \/ NotConnected(f)
      PROVE  Belongs'
  BY <1>3, BelongsDropConnection DEF Refuse, NotConnected
<1>4. ASSUME NEW f \in Fd, NEW t \in Topic, NEW q \in QoS, Publish(f, t, q)
      PROVE  Belongs'
  BY <1>4, BelongsPublish
<1>5. ASSUME NEW f \in Fd, NEW k \in DOMAIN Filters, NEW q \in QoS,
             Subscribe(f, k, q)
      PROVE  Belongs'
  BY <1>5, BelongsSubscribe
<1>6. ASSUME NEW f \in Fd, NEW k \in DOMAIN Filters, Unsubscribe(f, k)
      PROVE  Belongs'
  BY <1>6, BelongsUnsubscribe
<1>7. ASSUME NEW f \in Fd, Disconnect(f)
      PROVE  Belongs'
  BY <1>7, BelongsSessionClose DEF Disconnect
<1>8. ASSUME NEW f \in Fd, Hangup(f)
      PROVE  Belongs'
  BY <1>8, BelongsSessionClose, BelongsDropConnection DEF Hangup
<1>9. ASSUME NEW p \in wire, PubAck(p) \/ PubRec(p)
      PROVE  Belongs'
  BY <1>9, BelongsAcknowledge DEF PubAck, PubRec
<1>10. CASE UNCHANGED vars
  BY <1>10 DEF Belongs, SocketOwned, Addressed, vars
<1> QED BY <1>1, <1>2, <1>3, <1>4, <1>5, <1>6, <1>7, <1>8, <1>9, <1>10 DEF Next

(* As long as no client sends a second CONNECT on a connection, a session  *)
(* stays with the descriptor it was made on and has it to itself, and what *)
(* is in flight on a descriptor is for the client at its other end --      *)
(* however descriptors are reused, and although a client may have several  *)
(* sessions.  (With second CONNECTs it is false: ConnectFirst.)            *)
THEOREM SessionsBelong ==
  ASSUME "ConnectAgain" \notin Liberties
  PROVE  Spec => [](SocketOwned /\ Addressed)
<1>1. Init => Belongs
  BY BelongsInit
<1>2. TypeOK /\ Belongs /\ [Next]_vars => Belongs'
  BY BelongsNext
<1>3. Belongs => SocketOwned /\ Addressed
  BY DEF Belongs
<1> QED BY <1>1, <1>2, <1>3, TypeCorrect, PTL DEF Spec

(* Each packet in flight on a connection was meant for the client at its   *)
(* other end: what a descriptor's last owner was sent goes with it         *)
(* (socket_close), and nothing is written for a client whose session is    *)
(* gone (event.c:150).                                                     *)
THEOREM PacketsAddressed ==
  ASSUME "ConnectAgain" \notin Liberties
  PROVE  Spec => []Addressed
<1>1. SocketOwned /\ Addressed => Addressed
  OBVIOUS
<1> QED BY <1>1, SessionsBelong, PTL

----------------------------------------------------------------------------
(* Nothing stays in the trie but what sessions list, where every session   *)
(* is clean, whatever else clients do.                                     *)

(* All sessions are clean, so that session_delete clears up after each.    *)
(* No array has two entries, so that delete_client_id finds its client's.  *)
Alone(t) == \A d, e \in t.subs : d.place = e.place => d = e

Tidy ==
  /\ \A s \in DOMAIN sessions : sessions[s].clean
  /\ Alone(trie)
  /\ NoResidue

LEMMA AloneIsFound ==
  ASSUME NEW t, Alone(t), NEW e \in t.subs, e.client \in Nat
  PROVE  Found(t, e)
<1> DEFINE array == {d \in t.subs : d.place = e.place}
           before == {d \in array : d.client < e.client}
<1>1. array = {e}
  BY DEF Alone
<1>2. before = {}
  BY <1>1
<1>3. Cardinality(array) = 1 /\ Cardinality(before) = 0
  BY <1>1, <1>2, FS_Singleton, FS_EmptySet
<1>4. 1 \div 2 = 0
  OBVIOUS
<1> HIDE DEF array, before
<1>5. Cardinality(before) = Cardinality(array) \div 2
  BY <1>3, <1>4
<1> QED BY <1>5 DEF Found, array, before

(* Where no array has two entries, a client's entries at the places of the *)
(* keys are deleted.                                                       *)
LEMMA DeletedAreGone ==
  ASSUME TypeOK, Alone(trie), NEW keys, NEW c, trie' = DeleteTopics(trie, keys, c)
  PROVE  /\ Alone(trie')
         /\ \A e \in trie'.subs :
              e \in trie.subs /\ (e.client # c \/ \A key \in keys : e.place # Place(key))
<1>1. trie'.subs = {e \in trie.subs :
        ~(e.place \in {Place(k) : k \in keys} /\ e.client = c /\ Found(trie, e))}
  BY DEF DeleteTopics, WithoutClient
<1>2. \A e \in trie.subs : Found(trie, e)
  BY AloneIsFound, BrokerAssumption DEF TypeOK
<1>3. \A e \in trie'.subs :
        e \in trie.subs /\ (e.client # c \/ \A key \in keys : e.place # Place(key))
  BY <1>1, <1>2
<1>4. Alone(trie')
  BY <1>3 DEF Alone
<1> QED BY <1>3, <1>4

LEMMA TidyUnchanged ==
  ASSUME Tidy, UNCHANGED <<sessions, trie>>
  PROVE  Tidy'
BY DEF Tidy, Alone, NoResidue

(* A new session lists nothing, and the others what they listed. *)
LEMMA TidyConnect ==
  ASSUME CleanFlags = {TRUE}, TypeOK, Tidy,
         NEW f \in Fd, NEW clean \in CleanFlags, Connect(f, clean)
  PROVE  Tidy'
<1>1. PICK will : AddSession(f, clean, will)
  <2>1. CASE AddSession(f, clean, NoWill)
    BY <2>1
  <2>2. CASE \E q \in WillQoS :
               AddSession(f, clean, [msg |-> posted + 1, qos |-> q % 2])
    BY <2>2
  <2> QED BY <2>1, <2>2 DEF Connect
<1>2. PICK new : new = [sock |-> f, client |-> peer[f], clean |-> clean,
                        will |-> will, topics |-> {}]
  OBVIOUS
<1>3. PICK S : S = Session \cup {new}
  OBVIOUS
<1>4. sessions \in Seq(Session) /\ Len(sessions) \in Nat
      /\ DOMAIN sessions = 1..Len(sessions)
  BY DEF TypeOK
<1>5. sessions \in Seq(S) /\ new \in S
  BY <1>3, <1>4
<1>6. sessions' = <<new>> \o sessions /\ trie' = trie
  BY <1>1, <1>2 DEF AddSession, Connect
<1>7. /\ sessions' \in Seq(S) /\ Len(sessions') = Len(sessions) + 1
      /\ sessions'[1] = new
      /\ \A s \in 2..(Len(sessions) + 1) : sessions'[s] = sessions[s - 1]
  BY <1>5, <1>6, PrependProperties
<1>8. DOMAIN sessions' = 1..(Len(sessions) + 1)
  BY <1>7
<1>9. new.clean
  BY <1>2
<1>10. ASSUME NEW s \in DOMAIN sessions'
       PROVE  sessions'[s].clean
  <2>1. CASE s = 1
    BY <1>7, <1>9, <2>1
  <2>2. CASE s # 1
    <3>1. s \in 2..(Len(sessions) + 1) /\ s - 1 \in DOMAIN sessions
      BY <1>4, <1>8, <2>2
    <3> QED BY <1>7, <3>1 DEF Tidy
  <2> QED BY <2>1, <2>2
<1>11. ASSUME NEW r \in DOMAIN sessions
       PROVE  r + 1 \in DOMAIN sessions' /\ sessions'[r + 1] = sessions[r]
  <2>1. r + 1 \in 2..(Len(sessions) + 1) /\ (r + 1) - 1 = r
    BY <1>4
  <2> QED BY <1>7, <1>8, <2>1
<1>12. ASSUME NEW e \in trie'.subs
       PROVE  \E s \in DOMAIN sessions' :
                /\ sessions'[s].client = e.client
                /\ \E k \in sessions'[s].topics : Place(Filters[k]) = e.place
  BY <1>6, <1>11 DEF Tidy, NoResidue
<1> QED BY <1>6, <1>10, <1>12 DEF Tidy, Alone, NoResidue

(* SUBSCRIBE enters in the trie what it enters in the list. *)
LEMMA TidySubscribe ==
  ASSUME "Share" \notin Liberties, TypeOK, Tidy, NEW f \in Fd, NEW k \in DOMAIN Filters, NEW q \in QoS,
         Subscribe(f, k, q)
  PROVE  Tidy'
<1>1. PICK n : n = SessionOn(f)
  OBVIOUS
<1>2. n \in DOMAIN sessions
  BY <1>1, SessionOnFound DEF Subscribe, TypeOK
<1>3. PICK c : c = sessions[n].client
  OBVIOUS
<1>4. /\ sessions' = [sessions EXCEPT ![n].topics = sessions[n].topics \cup {k}]
      /\ trie' = Intercept(trie, Filters[k], q, c)
      /\ EnteredAlone(k, c)
  BY <1>1, <1>3 DEF Subscribe
<1>5. PICK new : new = [place |-> Place(Filters[k]), client |-> c, qos |-> q]
  OBVIOUS
<1>6. trie'.subs \subseteq trie.subs \cup {new}
  BY <1>4, <1>5 DEF Intercept
<1>7. DOMAIN sessions' = DOMAIN sessions
  BY <1>4 DEF TypeOK
<1>8. ASSUME NEW s \in DOMAIN sessions
      PROVE  /\ sessions'[s].client = sessions[s].client
             /\ sessions'[s].clean = sessions[s].clean
             /\ sessions[s].topics \subseteq sessions'[s].topics
             /\ s = n => k \in sessions'[s].topics
  <2>1. sessions[s] \in Session
    BY DEF TypeOK
  <2> QED BY <1>4, <2>1 DEF Session, TypeOK
<1>9. ASSUME NEW e \in trie'.subs
      PROVE  \E s \in DOMAIN sessions' :
               /\ sessions'[s].client = e.client
               /\ \E j \in sessions'[s].topics : Place(Filters[j]) = e.place
  <2>1. CASE e = new
    BY <1>2, <1>3, <1>5, <1>7, <1>8, <2>1
  <2>2. CASE e \in trie.subs
    <3>1. PICK s \in DOMAIN sessions :
            /\ sessions[s].client = e.client
            /\ \E j \in sessions[s].topics : Place(Filters[j]) = e.place
      BY <2>2 DEF Tidy, NoResidue
    <3> QED BY <1>7, <1>8, <3>1
  <2> QED BY <1>6, <2>1, <2>2
<1>10. Alone(trie')
  <2>1. CASE \E e \in trie.subs : e.place = Place(Filters[k]) /\ e.client = c
    <3>1. trie'.subs = trie.subs
      BY <1>4, <2>1 DEF Intercept
    <3> QED BY <3>1 DEF Tidy, Alone
  <2>2. CASE ~\E e \in trie.subs : e.place = Place(Filters[k]) /\ e.client = c
    <3>1. \A e \in trie.subs : e.place # Place(Filters[k])
      BY <1>4, <2>2 DEF EnteredAlone
    <3>2. new.place = Place(Filters[k])
      BY <1>5
    <3> QED BY <1>6, <3>1, <3>2 DEF Tidy, Alone
  <2> QED BY <2>1, <2>2
<1> QED BY <1>7, <1>8, <1>9, <1>10 DEF Tidy, NoResidue

(* UNSUBSCRIBE takes the filter out of both. *)
LEMMA TidyUnsubscribe ==
  ASSUME TypeOK, Tidy, NEW f \in Fd, NEW k \in DOMAIN Filters, Unsubscribe(f, k)
  PROVE  Tidy'
<1>1. CASE DeleteCrashes(trie, Filters[k])
  BY <1>1, TidyUnchanged DEF Unsubscribe, Die
<1>2. CASE ~DeleteCrashes(trie, Filters[k])
  <2>1. PICK n : n = SessionOn(f)
    OBVIOUS
  <2>2. n \in DOMAIN sessions
    BY <1>2, <2>1, SessionOnFound DEF Unsubscribe, TypeOK
  <2>3. /\ sessions' = [sessions EXCEPT ![n].topics = sessions[n].topics \ {k}]
        /\ trie' = DeleteTopics(trie, {Filters[k]}, sessions[n].client)
    BY <1>2, <2>1 DEF Unsubscribe
  <2>4. DOMAIN sessions' = DOMAIN sessions
    BY <2>3 DEF TypeOK
  <2>5. ASSUME NEW s \in DOMAIN sessions
        PROVE  /\ sessions'[s].client = sessions[s].client
               /\ sessions'[s].clean = sessions[s].clean
               /\ \A j \in sessions[s].topics :
                    (s = n => j # k) => j \in sessions'[s].topics
    <3>1. sessions[s] \in Session
      BY DEF TypeOK
    <3> QED BY <2>3, <3>1 DEF Session, TypeOK
  <2>6. ASSUME NEW e \in trie'.subs
        PROVE  \E s \in DOMAIN sessions' :
                 /\ sessions'[s].client = e.client
                 /\ \E j \in sessions'[s].topics : Place(Filters[j]) = e.place
    <3>1. /\ e \in trie.subs
          /\ e.client # sessions[n].client \/ e.place # Place(Filters[k])
      BY <2>3, DeletedAreGone DEF Tidy
    <3>2. PICK s \in DOMAIN sessions :
            /\ sessions[s].client = e.client
            /\ \E j \in sessions[s].topics : Place(Filters[j]) = e.place
      BY <3>1 DEF Tidy, NoResidue
    <3>3. PICK j \in sessions[s].topics : Place(Filters[j]) = e.place
      BY <3>2
    <3>4. s = n => j # k
      BY <3>1, <3>2, <3>3
    <3> QED BY <2>4, <2>5, <3>2, <3>3, <3>4
  <2>7. Alone(trie')
    BY <2>3, DeletedAreGone DEF Tidy
  <2> QED BY <2>4, <2>5, <2>6, <2>7 DEF Tidy, NoResidue
<1> QED BY <1>1, <1>2

(* A session that closes leaves no entry behind that only it listed. *)
LEMMA TidySessionClose ==
  ASSUME TypeOK, Tidy, NEW f \in Fd, HasSession(f), SessionClose(f)
  PROVE  Tidy'
<1>1. CASE Die
  BY <1>1, TidyUnchanged DEF Die
<1>2. CASE ~Die
  <2>1. PICK n \in DOMAIN sessions : /\ sessions' = RemoveAt(sessions, n)
                                     /\ trie' = TrieWithout(sessions[n])
    BY <1>2, ClosedSession
  <2>2. sessions \in Seq(Session) /\ Len(sessions) \in Nat
        /\ DOMAIN sessions = 1..Len(sessions)
    BY DEF TypeOK
  <2>3. /\ sessions' \in Seq(Session) /\ Len(sessions') = Len(sessions) - 1
        /\ \A s \in 1..(Len(sessions) - 1) :
             sessions'[s] = IF s < n THEN sessions[s] ELSE sessions[s + 1]
    BY <2>1, <2>2, RemoveAtProperties
  <2>4. DOMAIN sessions' = 1..(Len(sessions) - 1)
    BY <2>2, <2>3
  <2>5. ASSUME NEW r \in DOMAIN sessions, r # n
        PROVE  \E s \in DOMAIN sessions' : sessions'[s] = sessions[r]
    <3>1. CASE r < n
      <4>1. r \in 1..(Len(sessions) - 1)
        BY <2>1, <2>2, <3>1
      <4> QED BY <2>3, <2>4, <3>1, <4>1
    <3>2. CASE ~(r < n)
      <4>1. r - 1 \in 1..(Len(sessions) - 1) /\ ~(r - 1 < n) /\ (r - 1) + 1 = r
        BY <2>1, <2>2, <2>5, <3>2
      <4> QED BY <2>3, <2>4, <4>1
    <3> QED BY <3>1, <3>2
  <2>6. ASSUME NEW s \in DOMAIN sessions'
        PROVE  sessions'[s].clean
    <3>1. s \in 1..(Len(sessions) - 1)
      BY <2>4
    <3>2. s \in DOMAIN sessions /\ s + 1 \in DOMAIN sessions
      BY <2>2, <3>1
    <3>3. sessions'[s] \in {sessions[s], sessions[s + 1]}
      BY <2>3, <3>1
    <3> QED BY <3>2, <3>3 DEF Tidy
  <2>7. trie' = DeleteTopics(trie, KeysOf(sessions[n].topics), sessions[n].client)
    BY <2>1 DEF Tidy, TrieWithout
  <2>8. ASSUME NEW e \in trie'.subs
        PROVE  \E s \in DOMAIN sessions' :
                 /\ sessions'[s].client = e.client
                 /\ \E j \in sessions'[s].topics : Place(Filters[j]) = e.place
    <3>1. /\ e \in trie.subs
          /\ \/ e.client # sessions[n].client
             \/ \A key \in KeysOf(sessions[n].topics) : e.place # Place(key)
      BY <2>7, DeletedAreGone DEF Tidy
    <3>2. PICK r \in DOMAIN sessions :
            /\ sessions[r].client = e.client
            /\ \E j \in sessions[r].topics : Place(Filters[j]) = e.place
      BY <3>1 DEF Tidy, NoResidue
    <3>3. r # n
      BY <3>1, <3>2 DEF KeysOf
    <3> QED BY <2>5, <3>2, <3>3
  <2>9. Alone(trie')
    BY <2>7, DeletedAreGone DEF Tidy
  <2> QED BY <2>6, <2>8, <2>9 DEF Tidy, NoResidue
<1> QED BY <1>1, <1>2

LEMMA TidyNext ==
  ASSUME CleanFlags = {TRUE}, "Share" \notin Liberties, TypeOK, Tidy, [Next]_vars
  PROVE  Tidy'
<1>1. CASE UNCHANGED <<sessions, trie>>
  BY <1>1, TidyUnchanged
<1>2. ASSUME NEW c \in Client, Accept(c)
      PROVE  Tidy'
  BY <1>1, <1>2 DEF Accept
<1>3. ASSUME NEW f \in Fd, NEW clean \in CleanFlags, Connect(f, clean)
      PROVE  Tidy'
  BY <1>3, TidyConnect
<1>4. ASSUME NEW f \in Fd, Refuse(f) \/ NotConnected(f)
      PROVE  Tidy'
  BY <1>1, <1>4 DEF Refuse, NotConnected, DropConnection
<1>5. ASSUME NEW f \in Fd, NEW t \in Topic, NEW q \in QoS, Publish(f, t, q)
      PROVE  Tidy'
  BY <1>1, <1>5 DEF Publish, PublishAs, Die
<1>6. ASSUME NEW f \in Fd, NEW k \in DOMAIN Filters, NEW q \in QoS, Subscribe(f, k, q)
      PROVE  Tidy'
  BY <1>6, TidySubscribe
<1>7. ASSUME NEW f \in Fd, NEW k \in DOMAIN Filters, Unsubscribe(f, k)
      PROVE  Tidy'
  BY <1>7, TidyUnsubscribe
<1>8. ASSUME NEW f \in Fd, Disconnect(f) \/ Hangup(f)
      PROVE  Tidy'
  BY <1>1, <1>8, TidySessionClose DEF Disconnect, Hangup, DropConnection
<1>9. ASSUME NEW p \in wire, PubAck(p) \/ PubRec(p)
      PROVE  Tidy'
  BY <1>1, <1>9 DEF PubAck, PubRec, Acknowledge
<1>10. CASE UNCHANGED vars
  BY <1>1, <1>10 DEF vars
<1> QED BY <1>2, <1>3, <1>4, <1>5, <1>6, <1>7, <1>8, <1>9, <1>10 DEF Next

(* Where clients only ask for clean sessions and no two of them subscribe  *)
(* to one filter, no subscription outlives its session (session_delete),   *)
(* whatever else they do: several connections with one client identifier,  *)
(* a second CONNECT, any way to end.  (Two clients on one filter are what  *)
(* filtering.c:366 gets wrong; the run `residue' shows it.)                *)
THEOREM NothingLeftBehind ==
  ASSUME CleanFlags = {TRUE}, "Share" \notin Liberties
  PROVE  Spec => []NoResidue
<1>1. Init => Tidy
  BY DEF Init, EmptyTrie, Tidy, Alone, NoResidue
<1>2. TypeOK /\ Tidy /\ [Next]_vars => Tidy'
  BY TidyNext
<1>3. Tidy => NoResidue
  BY DEF Tidy
<1> QED BY <1>1, <1>2, <1>3, TypeCorrect, PTL DEF Spec

----------------------------------------------------------------------------
(* Orderly clients.                                                        *)

(* Of the rows whose identifiers come back as they went (those below Base, *)
(* 128 in the code), there are as many free as there are clients.          *)
OpenLow == {i \in Id : i < Base /\ rows[i].client = NoClient}
Room == Cardinality(Client) <= Cardinality(OpenLow)

(* What clients are assumed to do, and that there are finitely many.       *)
Orderly == Liberties \subseteq {"Share"} /\ IsFiniteSet(Client)

(* A client has one connection. *)
OneConn == \A f, g \in Fd : peer[f] # NoClient /\ peer[f] = peer[g] => f = g

(* The rows in use are below Base, and a packet in flight has its row.     *)
Held ==
  /\ \A i \in Id : rows[i].client # NoClient => i < Base
  /\ \A p \in wire : /\ rows[p.id].client = p.client
                     /\ rows[p.id].msg = p.msg
                     /\ rows[p.id].qos = p.qos

HInv == TypeOK /\ Belongs /\ OneConn /\ Held

----------------------------------------------------------------------------
(* The fan-out, when there is room.                                        *)

(* A small set has nothing for some element of a larger one. *)
LEMMA OneIsLeft ==
  ASSUME NEW F, IsFiniteSet(F), NEW D, IsFiniteSet(D), Cardinality(D) < Cardinality(F),
         NEW ids \in [D -> F \cup Id]
  PROVE  \E i \in F : \A d \in D : ids[d] # i
<1> SUFFICES ASSUME \A i \in F : \E d \in D : ids[d] = i
             PROVE  FALSE
  OBVIOUS
<1> DEFINE by == [i \in F |-> CHOOSE d \in D : ids[d] = i]
<1>1. \A i \in F : by[i] \in D /\ ids[by[i]] = i
  OBVIOUS
<1>2. by \in [F -> D]
  BY <1>1
<1> HIDE DEF by
<1>3. \E x, y \in F : x # y /\ by[x] = by[y]
  BY <1>2, FS_PigeonHole
<1> QED BY <1>1, <1>3

(* Whoever's turn it is, a row below Base is open. *)
LEMMA OneIsOpen ==
  ASSUME Orderly, Room, NEW ids, DOMAIN ids \subseteq Client,
         \A d \in DOMAIN ids : ids[d] \in Id, NEW c \in DOMAIN ids
  PROVE  \E i \in OpenRows(ids, c) : i < Base
<1> DEFINE D == {d \in DOMAIN ids : d < c}
           part == [d \in D |-> ids[d]]
<1>1. DOMAIN ids \subseteq Client
  OBVIOUS
<1>2. D \subseteq Client \ {c}
  <2>1. \A d \in Client : d < d => FALSE
    BY BrokerAssumption
  <2> QED BY <1>1, <2>1
<1>3. /\ IsFiniteSet(Client \ {c})
      /\ Cardinality(Client \ {c}) = Cardinality(Client) - 1
      /\ Cardinality(Client) \in Nat
  BY <1>1, FS_RemoveElement, FS_CardinalityType DEF Orderly
<1>4. IsFiniteSet(D) /\ Cardinality(D) <= Cardinality(Client) - 1
  BY <1>2, <1>3, FS_Subset
<1>5. IsFiniteSet(Id)
  BY FS_Interval, BrokerAssumption DEF Id
<1>6. IsFiniteSet(OpenLow)
  BY <1>5, FS_Subset DEF OpenLow
<1>7. Cardinality(D) < Cardinality(OpenLow)
  BY <1>3, <1>4, <1>6, FS_CardinalityType DEF Room
<1>8. part \in [D -> OpenLow \cup Id]
  OBVIOUS
<1> HIDE DEF part, D
<1>9. \E i \in OpenLow : \A d \in D : part[d] # i
  BY <1>4, <1>6, <1>7, <1>8, OneIsLeft
<1> USE DEF part, D
<1>10. PICK i \in OpenLow : \A d \in D : ids[d] # i
  BY <1>9
<1> QED BY <1>10 DEF OpenLow, OpenRows

(* So everyone gets a row of its own, which was free and is below Base.    *)
LEMMA RowsGiven ==
  ASSUME Orderly, Room, NEW answer, IsAnswer(answer), NEW q,
         NEW ids \in [Takers(answer, q) -> Id], SessionPublishAdd(ids)
  PROVE  /\ Stored(ids) = DOMAIN ids
         /\ \A c \in DOMAIN ids : ids[c] < Base /\ rows[ids[c]].client = NoClient
         /\ \A c, d \in DOMAIN ids : ids[c] = ids[d] => c = d
<1>1. DOMAIN ids \subseteq Client
  BY DEF Takers, IsAnswer
<1>2. \A c \in DOMAIN ids : \E i \in OpenRows(ids, c) : i < Base
  BY <1>1, OneIsOpen
<1>3. ASSUME NEW c \in DOMAIN ids
      PROVE  ids[c] \in OpenRows(ids, c) /\ ids[c] < Base
  <2>1. PICK i \in OpenRows(ids, c) : i < Base
    BY <1>2
  <2>2. ids[c] \in OpenRows(ids, c) /\ ids[c] <= i
    BY <2>1 DEF SessionPublishAdd
  <2>3. i \in Nat /\ ids[c] \in Nat
    BY <2>1, BrokerAssumption DEF OpenRows, Id
  <2> QED BY <2>1, <2>2, <2>3, BaseAssumption
<1>4. ASSUME NEW c \in DOMAIN ids, NEW d \in DOMAIN ids, c < d
      PROVE  ids[c] # ids[d]
  BY <1>3, <1>4 DEF OpenRows
<1>5. ASSUME NEW c \in DOMAIN ids, NEW d \in DOMAIN ids, c # d
      PROVE  c < d \/ d < c
  <2>1. Client \subseteq Nat
    BY BrokerAssumption
  <2>2. c \in Nat /\ d \in Nat
    BY <1>1, <2>1
  <2> QED BY <1>5, <2>2
<1>6. \A c, d \in DOMAIN ids : ids[c] = ids[d] => c = d
  BY <1>4, <1>5
<1>7. Stored(ids) = DOMAIN ids
  BY <1>3 DEF Stored
<1>8. \A c \in DOMAIN ids : rows[ids[c]].client = NoClient
  BY <1>3 DEF OpenRows
<1> QED BY <1>3, <1>6, <1>7, <1>8

(* The rows after the fan-out, one by one. *)
LEMMA RowsAfterwards ==
  ASSUME Orderly, Room, NEW answer, IsAnswer(answer), NEW q, NEW m,
         NEW ids \in [Takers(answer, q) -> Id], SessionPublishAdd(ids)
  PROVE  /\ \A c \in DOMAIN ids :
              RowsAfter(ids, answer, q, m)[ids[c]] =
                [client |-> c, msg |-> m, payload |-> "live",
                 qos |-> EffectiveQoS(answer, q, c)]
         /\ \A i \in Id : (\A c \in DOMAIN ids : ids[c] # i) =>
              RowsAfter(ids, answer, q, m)[i] = rows[i]
<1>1. /\ Stored(ids) = DOMAIN ids
      /\ \A c, d \in DOMAIN ids : ids[c] = ids[d] => c = d
  BY RowsGiven
<1>2. ASSUME NEW c \in DOMAIN ids
      PROVE  RowsAfter(ids, answer, q, m)[ids[c]] =
                [client |-> c, msg |-> m, payload |-> "live",
                 qos |-> EffectiveQoS(answer, q, c)]
  <2>1. (CHOOSE d \in Stored(ids) : ids[d] = ids[c]) = c
    BY <1>1
  <2>2. ids[c] \in Id
    OBVIOUS
  <2> QED BY <1>1, <2>1, <2>2 DEF RowsAfter
<1>3. ASSUME NEW i \in Id, \A c \in DOMAIN ids : ids[c] # i
      PROVE  RowsAfter(ids, answer, q, m)[i] = rows[i]
  BY <1>1, <1>3 DEF RowsAfter
<1> QED BY <1>2, <1>3
----------------------------------------------------------------------------
(* HInv is inductive as long as there is room.                             *)

LEMMA HInit == Init => HInv
<1>1. Init => TypeOK /\ Belongs
  BY TypeInit, BelongsInit
<1>2. Init => OneConn
  BY DEF Init, OneConn
<1>3. Init => Held
  BY DEF Init, Held, FreshRow
<1> QED BY <1>1, <1>2, <1>3 DEF HInv

(* Every step leaves the connections alone, closes one, or opens one for a *)
(* client that has none.                                                   *)
LEMMA PeerClosed ==
  ASSUME TypeOK, OneConn, NEW f \in Fd, peer' = [peer EXCEPT ![f] = NoClient]
  PROVE  OneConn'
BY DEF TypeOK, OneConn

LEMMA PeerOpened ==
  ASSUME TypeOK, OneConn, Orderly, NEW c \in Client, Accept(c)
  PROVE  OneConn'
<1>1. PICK f \in Fd : peer' = [peer EXCEPT ![f] = c]
  BY DEF Accept
<1>2. \A g \in Fd : peer[g] # c
  BY DEF Accept, Orderly
<1> QED BY <1>1, <1>2 DEF TypeOK, OneConn

(* What a closing session does to the connections. *)
LEMMA PeerSessionClose ==
  ASSUME TypeOK, OneConn, NEW f \in Fd, HasSession(f), SessionClose(f)
  PROVE  OneConn'
<1>1. CASE Die
  BY <1>1 DEF Die, OneConn
<1>2. CASE ~Die
  BY <1>2, ClosedSession, PeerClosed
<1> QED BY <1>1, <1>2

LEMMA OneConnNext ==
  ASSUME Orderly, TypeOK, OneConn, [Next]_vars
  PROVE  OneConn'
<1>1. CASE \E c \in Client : Accept(c)
  BY <1>1, PeerOpened
<1>2. ASSUME NEW f \in Fd, Refuse(f) \/ NotConnected(f)
      PROVE  OneConn'
  BY <1>2, PeerClosed DEF Refuse, NotConnected, DropConnection
<1>3. ASSUME NEW f \in Fd, Disconnect(f)
      PROVE  OneConn'
  BY <1>3, PeerSessionClose DEF Disconnect
<1>4. ASSUME NEW f \in Fd, Hangup(f)
      PROVE  OneConn'
  BY <1>4, PeerSessionClose, PeerClosed DEF Hangup, DropConnection
<1>5. CASE UNCHANGED peer
  BY <1>5 DEF OneConn
<1>6. ASSUME NEW f \in Fd, NEW clean \in CleanFlags, Connect(f, clean)
      PROVE  UNCHANGED peer
  BY <1>6 DEF Connect
<1>7. ASSUME NEW f \in Fd, NEW t \in Topic, NEW q \in QoS, Publish(f, t, q)
      PROVE  UNCHANGED peer
  BY <1>7 DEF Publish, PublishAs, Die
<1>8. ASSUME NEW f \in Fd, NEW k \in DOMAIN Filters, NEW q \in QoS, Subscribe(f, k, q)
      PROVE  UNCHANGED peer
  BY <1>8 DEF Subscribe
<1>9. ASSUME NEW f \in Fd, NEW k \in DOMAIN Filters, Unsubscribe(f, k)
      PROVE  UNCHANGED peer
  BY <1>9 DEF Unsubscribe, Die
<1>10. ASSUME NEW p \in wire, PubAck(p) \/ PubRec(p)
       PROVE  UNCHANGED peer
  BY <1>10 DEF PubAck, PubRec, Acknowledge
<1>11. CASE UNCHANGED vars
  BY <1>5, <1>11 DEF vars
<1> QED BY <1>1, <1>2, <1>3, <1>4, <1>5, <1>6, <1>7, <1>8, <1>9, <1>10, <1>11 DEF Next

(* Two packets in flight never have one row. *)
LEMMA PacketsDiffer ==
  ASSUME HInv, NEW p \in wire, NEW r \in wire, p.id = r.id
  PROVE  p = r
<1>1. p \in Packet /\ r \in Packet
  BY DEF HInv, TypeOK
<1>2. p.client = r.client /\ p.msg = r.msg /\ p.qos = r.qos
  BY DEF HInv, Held
<1>3. peer[p.fd] = p.client /\ peer[r.fd] = r.client
  BY DEF HInv, Belongs, Addressed
<1>4. p.client # NoClient
  BY <1>1, BrokerAssumption DEF Packet, NoClient
<1>5. p.fd = r.fd
  BY <1>1, <1>2, <1>3, <1>4 DEF HInv, OneConn, Packet
<1> QED BY <1>1, <1>2, <1>5 DEF Packet

(* An acknowledgement frees its own row, and finds it in use. *)
LEMMA AcksItsRow ==
  ASSUME HInv, NEW p \in wire, Acknowledge(p)
  PROVE  /\ p.id \in Id /\ rows[p.id].client = p.client /\ rows[p.id].msg = p.msg
         /\ p.client # NoClient
         /\ rows' = [rows EXCEPT ![p.id] = [FreshRow EXCEPT !.payload = "freed"]]
         /\ wire' = wire \ {p}
         /\ UNCHANGED <<up, peer, sessions, trie, posted>>
<1>1. p \in Packet /\ p.id \in Id
  BY DEF HInv, TypeOK, Packet
<1>2. rows[p.id].client = p.client /\ rows[p.id].msg = p.msg /\ p.client # NoClient
  BY <1>1, BrokerAssumption DEF HInv, Held, Packet, NoClient
<1>3. p.id \in Nat /\ p.id < Base
  BY <1>1, <1>2, BrokerAssumption DEF HInv, Held, Id
<1>4. AckedId(p.id) = p.id
  BY <1>3 DEF AckedId, StringLen, MLEncode, Byte
<1>5. rows[p.id].payload = "live"
  <2>1. rows[p.id] \in Row
    BY <1>1 DEF HInv, TypeOK
  <2> QED BY <1>2, <2>1 DEF Row, FreeRow, UsedRow
<1>6. SessionPublishDelete(p.id) /\ wire' = wire \ {p}
      /\ UNCHANGED <<peer, sessions, trie, posted>>
  BY <1>4 DEF Acknowledge
<1>7. /\ rows' = [rows EXCEPT ![p.id] = [FreshRow EXCEPT !.payload = "freed"]]
      /\ UNCHANGED up
  BY <1>5, <1>6 DEF SessionPublishDelete
<1> QED BY <1>1, <1>2, <1>6, <1>7

LEMMA HeldAcknowledge ==
  ASSUME HInv, NEW p \in wire, Acknowledge(p)
  PROVE  Held'
<1>1. /\ p.id \in Id
      /\ rows' = [rows EXCEPT ![p.id] = [FreshRow EXCEPT !.payload = "freed"]]
      /\ wire' = wire \ {p}
  BY AcksItsRow
<1>2. rows \in [Id -> Row]
  BY DEF HInv, TypeOK
<1>3. \A i \in Id : i # p.id => rows'[i] = rows[i]
  BY <1>1, <1>2
<1>4. rows'[p.id].client = NoClient
  BY <1>1, <1>2 DEF FreshRow
<1>5. \A i \in Id : rows'[i].client # NoClient => i < Base
  BY <1>3, <1>4 DEF HInv, Held
<1>6. ASSUME NEW r \in wire'
      PROVE  r.id \in Id /\ r.id # p.id
  <2>1. r \in wire /\ r # p
    BY <1>1
  <2> QED BY <2>1, PacketsDiffer DEF HInv, TypeOK, Packet
<1>7. \A r \in wire' : rows'[r.id] = rows[r.id] /\ r \in wire
  BY <1>1, <1>3, <1>6
<1> QED BY <1>5, <1>7 DEF HInv, Held

(* What is taken by a fan-out was free, so nothing in flight loses its row. *)
LEMMA HeldFanOut ==
  ASSUME HInv, Orderly, Room, NEW answer, IsAnswer(answer), NEW q, NEW m,
         NEW ids \in [Takers(answer, q) -> Id], SessionPublishAdd(ids),
         rows' = RowsAfter(ids, answer, q, m),
         wire' \subseteq PacketsAfter(ids, answer, q, m)
  PROVE  Held'
<1>1. /\ \A c \in DOMAIN ids : rows'[ids[c]] =
           [client |-> c, msg |-> m, payload |-> "live",
            qos |-> EffectiveQoS(answer, q, c)]
      /\ \A i \in Id : (\A c \in DOMAIN ids : ids[c] # i) => rows'[i] = rows[i]
  BY RowsAfterwards
<1>2. \A c \in DOMAIN ids : ids[c] < Base /\ rows[ids[c]].client = NoClient
  BY RowsGiven
<1>3. \A i \in Id : rows'[i].client # NoClient => i < Base
  BY <1>1, <1>2 DEF HInv, Held
<1>4. ASSUME NEW p \in wire', p \in wire
      PROVE  /\ rows'[p.id].client = p.client
             /\ rows'[p.id].msg = p.msg
             /\ rows'[p.id].qos = p.qos
  <2>1. p.id \in Id /\ p.client # NoClient
    BY <1>4, BrokerAssumption DEF HInv, TypeOK, Packet, NoClient
  <2>2. rows[p.id].client # NoClient
    BY <1>4, <2>1 DEF HInv, Held
  <2>3. \A c \in DOMAIN ids : ids[c] # p.id
    BY <1>2, <2>2
  <2>4. rows'[p.id] = rows[p.id]
    BY <1>1, <2>1, <2>3
  <2> QED BY <1>4, <2>4 DEF HInv, Held
<1>5. ASSUME NEW p \in wire', p \notin wire
      PROVE  /\ rows'[p.id].client = p.client
             /\ rows'[p.id].msg = p.msg
             /\ rows'[p.id].qos = p.qos
  <2>1. PICK c \in DOMAIN ids :
          p = [fd |-> sessions[SessionOf(c)].sock, client |-> c, id |-> ids[c],
               msg |-> m, qos |-> EffectiveQoS(answer, q, c)]
    BY <1>5 DEF PacketsAfter
  <2>2. rows'[ids[c]] = [client |-> c, msg |-> m, payload |-> "live",
                         qos |-> EffectiveQoS(answer, q, c)]
    BY <1>1
  <2>3. p.id = ids[c] /\ p.client = c /\ p.msg = m /\ p.qos = EffectiveQoS(answer, q, c)
    BY <2>1
  <2> QED BY <2>2, <2>3
<1> QED BY <1>3, <1>4, <1>5 DEF Held

LEMMA HeldUnchanged ==
  ASSUME Held, rows' = rows, wire' \subseteq wire
  PROVE  Held'
BY DEF Held

LEMMA HeldConnect ==
  ASSUME HInv, NEW f \in Fd, NEW clean \in CleanFlags, Connect(f, clean)
  PROVE  Held'
<1>1. rows' = rows /\ wire' \subseteq wire \cup Resent(f, peer[f])
  BY DEF Connect, AddSession
<1>2. ASSUME NEW p \in Resent(f, peer[f])
      PROVE  /\ rows[p.id].client = p.client
             /\ rows[p.id].msg = p.msg
             /\ rows[p.id].qos = p.qos
  <2>1. PICK i \in Id :
          /\ rows[i].client = peer[f]
          /\ p = [fd |-> f, client |-> peer[f], id |-> i,
                  msg |-> rows[i].msg, qos |-> rows[i].qos]
    BY DEF Resent
  <2> QED BY <2>1
<1> QED BY <1>1, <1>2 DEF HInv, Held

LEMMA HeldPublish ==
  ASSUME HInv, Orderly, Room,
         NEW f \in Fd, NEW t \in Topic, NEW q \in QoS, Publish(f, t, q)
  PROVE  Held'
<1>0. PICK h \in Heard(t) : PublishAs(f, h, q)
  BY DEF Publish
<1>1. CASE SearchCrashes(trie, h)
  BY <1>0, <1>1, HeldUnchanged DEF PublishAs, Die, HInv
<1>2. CASE ~SearchCrashes(trie, h)
  <2>1. PICK answer \in Answers(trie, h) :
          \E ids \in [Takers(answer, q) -> Id] :
            /\ SessionPublishAdd(ids)
            /\ rows' = RowsAfter(ids, answer, q, posted + 1)
            /\ wire' = PacketsAfter(ids, answer, q, posted + 1)
    BY <1>0, <1>2 DEF PublishAs
  <2>2. PICK ids \in [Takers(answer, q) -> Id] :
            /\ SessionPublishAdd(ids)
            /\ rows' = RowsAfter(ids, answer, q, posted + 1)
            /\ wire' = PacketsAfter(ids, answer, q, posted + 1)
    BY <2>1
  <2>3. IsAnswer(answer)
    BY AnswersAre DEF HInv, TypeOK, TrieTypeOK
  <2> QED BY <2>2, <2>3, HeldFanOut
<1> QED BY <1>0, <1>1, <1>2

LEMMA HeldSessionClose ==
  ASSUME HInv, Orderly, Room, NEW f \in Fd, HasSession(f), SessionClose(f)
  PROVE  Held'
<1>1. CASE Die
  BY <1>1, HeldUnchanged DEF Die, HInv
<1>2. CASE ~Die
  <2>1. PICK n \in DOMAIN sessions :
          \E answer \in WillsAnswers(sessions[n]) :
            \E ids \in [Takers(answer, sessions[n].will.qos) -> Id] :
              /\ SessionPublishAdd(ids)
              /\ rows' = RowsAfter(ids, answer, sessions[n].will.qos,
                                   sessions[n].will.msg)
              /\ wire' = WithoutFd(
                   PacketsAfter(ids, answer, sessions[n].will.qos,
                                sessions[n].will.msg), f)
    BY <1>2, ClosedSession DEF HInv
  <2>2. PICK s : s = sessions[n]
    OBVIOUS
  <2>3. PICK answer \in WillsAnswers(s) :
          \E ids \in [Takers(answer, s.will.qos) -> Id] :
            /\ SessionPublishAdd(ids)
            /\ rows' = RowsAfter(ids, answer, s.will.qos, s.will.msg)
            /\ wire' = WithoutFd(PacketsAfter(ids, answer, s.will.qos, s.will.msg), f)
    BY <2>1, <2>2
  <2>4. PICK ids \in [Takers(answer, s.will.qos) -> Id] :
            /\ SessionPublishAdd(ids)
            /\ rows' = RowsAfter(ids, answer, s.will.qos, s.will.msg)
            /\ wire' = WithoutFd(PacketsAfter(ids, answer, s.will.qos, s.will.msg), f)
    BY <2>3
  <2>5. s \in Session
    BY <2>2 DEF HInv, TypeOK
  <2>6. IsAnswer(answer)
    BY <2>5, WillAnswersAre DEF HInv
  <2>7. wire' \subseteq PacketsAfter(ids, answer, s.will.qos, s.will.msg)
    BY <2>4 DEF WithoutFd
  <2> QED BY <2>4, <2>6, <2>7, HeldFanOut
<1> QED BY <1>1, <1>2

LEMMA HeldNext ==
  ASSUME Orderly, Room, HInv, [Next]_vars
  PROVE  Held'
<1>1. CASE \E c \in Client : Accept(c)
  BY <1>1, HeldUnchanged DEF Accept, HInv
<1>2. ASSUME NEW f \in Fd, NEW clean \in CleanFlags, Connect(f, clean)
      PROVE  Held'
  BY <1>2, HeldConnect
<1>3. ASSUME NEW f \in Fd, DropConnection(f)
      PROVE  Held'
  BY <1>3, HeldUnchanged DEF DropConnection, WithoutFd, HInv
<1>4. ASSUME NEW f \in Fd, Refuse(f) \/ NotConnected(f)
      PROVE  Held'
  BY <1>3, <1>4 DEF Refuse, NotConnected
<1>5. ASSUME NEW f \in Fd, NEW t \in Topic, NEW q \in QoS, Publish(f, t, q)
      PROVE  Held'
  BY <1>5, HeldPublish
<1>6. ASSUME NEW f \in Fd, NEW k \in DOMAIN Filters, NEW q \in QoS, Subscribe(f, k, q)
      PROVE  Held'
  BY <1>6, HeldUnchanged DEF Subscribe, HInv
<1>7. ASSUME NEW f \in Fd, NEW k \in DOMAIN Filters, Unsubscribe(f, k)
      PROVE  Held'
  BY <1>7, HeldUnchanged DEF Unsubscribe, Die, HInv
<1>8. ASSUME NEW f \in Fd, Disconnect(f) \/ Hangup(f)
      PROVE  Held'
  BY <1>3, <1>8, HeldSessionClose DEF Disconnect, Hangup
<1>9. ASSUME NEW p \in wire, PubAck(p) \/ PubRec(p)
      PROVE  Held'
  BY <1>9, HeldAcknowledge DEF PubAck, PubRec
<1>10. CASE UNCHANGED vars
  BY <1>10, HeldUnchanged DEF vars, HInv
<1> QED BY <1>1, <1>2, <1>4, <1>5, <1>6, <1>7, <1>8, <1>9, <1>10 DEF Next

LEMMA HNext ==
  ASSUME Orderly
  PROVE  HInv /\ Room /\ [Next]_vars => HInv'
<1> SUFFICES ASSUME HInv, Room, [Next]_vars
             PROVE  HInv'
  OBVIOUS
<1>1. TypeOK'
  BY TypeNext DEF HInv
<1>2. Belongs'
  BY BelongsNext DEF HInv, Orderly
<1>3. OneConn'
  BY OneConnNext DEF HInv
<1>4. Held'
  BY HeldNext
<1> QED BY <1>1, <1>2, <1>3, <1>4 DEF HInv

LEMMA HoldsThroughout ==
  ASSUME Orderly
  PROVE  Spec /\ []Room => []HInv
<1>1. HInv /\ Room /\ [Next]_vars => HInv'
  BY HNext
<1> QED BY <1>1, HInit, PTL DEF Spec

(* As long as there is room below 128, and clients keep to one connection  *)
(* with one CONNECT, the identifier of every PUBLISH in flight is still    *)
(* the row of its message: no acknowledgement frees another's row, though  *)
(* event.c:209 and 226 do not look whose it is.                            *)
THEOREM AcksAreSafe ==
  ASSUME Orderly
  PROVE  Spec /\ []Room => []HeldRow
<1>1. HInv => HeldRow
  <2> SUFFICES ASSUME HInv, NEW p \in wire
               PROVE  /\ rows[AckedId(p.id)].client = p.client
                      /\ rows[AckedId(p.id)].msg = p.msg
                      /\ rows[AckedId(p.id)].qos = p.qos
    BY DEF HeldRow
  <2>1. p \in Packet /\ p.id \in Id /\ p.client # NoClient
    BY BrokerAssumption DEF HInv, TypeOK, Packet, NoClient
  <2>2. p.id \in Nat /\ p.id < Base
    BY <2>1, BrokerAssumption DEF HInv, Held, Id
  <2>3. AckedId(p.id) = p.id
    BY <2>2 DEF AckedId, StringLen, MLEncode, Byte
  <2> QED BY <2>3 DEF HInv, Held
<1> QED BY <1>1, HoldsThroughout, PTL

----------------------------------------------------------------------------
(* Persistent sessions are caught up.                                      *)

CInv == HInv /\ CaughtUp

(* A client that has one connection has one session. *)
LEMMA OneSession ==
  ASSUME TypeOK, Belongs, OneConn, NEW r \in DOMAIN sessions, NEW s \in DOMAIN sessions,
         sessions[r].client = sessions[s].client
  PROVE  r = s
<1>1. sessions[r] \in Session /\ sessions[s] \in Session
  BY DEF TypeOK
<1>2. /\ peer[sessions[r].sock] = sessions[r].client
      /\ peer[sessions[s].sock] = sessions[s].client
  BY DEF Belongs, SocketOwned
<1>3. sessions[r].client # NoClient
  BY <1>1, BrokerAssumption DEF Session, NoClient
<1>4. sessions[r].sock = sessions[s].sock
  BY <1>1, <1>2, <1>3 DEF Session, OneConn
<1> QED BY <1>4 DEF Belongs, SocketOwned

(* After a fan-out each session is as caught up as it was. *)
LEMMA FanOutReaches ==
  ASSUME CInv, Orderly, Room, NEW answer, IsAnswer(answer), NEW q, NEW m,
         NEW ids \in [Takers(answer, q) -> Id], SessionPublishAdd(ids),
         rows' = RowsAfter(ids, answer, q, m),
         NEW s \in DOMAIN sessions, ~sessions[s].clean,
         NEW i \in Id, rows'[i].client = sessions[s].client
  PROVE  \E p \in PacketsAfter(ids, answer, q, m) :
           p.fd = sessions[s].sock /\ p.id = i
<1>1. /\ \A c \in DOMAIN ids : rows'[ids[c]] =
           [client |-> c, msg |-> m, payload |-> "live",
            qos |-> EffectiveQoS(answer, q, c)]
      /\ (\A c \in DOMAIN ids : ids[c] # i) => rows'[i] = rows[i]
  BY RowsAfterwards DEF CInv
<1>2. CASE \A c \in DOMAIN ids : ids[c] # i
  <2>1. PICK p \in wire : p.fd = sessions[s].sock /\ p.id = i
    BY <1>1, <1>2 DEF CInv, CaughtUp
  <2> QED BY <2>1 DEF PacketsAfter
<1>3. CASE \E c \in DOMAIN ids : ids[c] = i
  <2>1. PICK c \in DOMAIN ids : ids[c] = i
    BY <1>3
  <2>2. rows'[i] = [client |-> c, msg |-> m, payload |-> "live",
                    qos |-> EffectiveQoS(answer, q, c)]
    BY <1>1, <2>1
  <2>3. c = sessions[s].client
    BY <2>2
  <2>4. IsKnown(c)
    BY <2>3 DEF IsKnown
  <2>5. SessionOf(c) \in DOMAIN sessions /\ sessions[SessionOf(c)].client = c
    BY <2>4, SessionOfFound DEF CInv, HInv, TypeOK
  <2>6. SessionOf(c) = s
    BY <2>3, <2>5, OneSession DEF CInv, HInv
  <2>7. PICK p : p = [fd |-> sessions[SessionOf(c)].sock, client |-> c, id |-> ids[c],
                      msg |-> m, qos |-> EffectiveQoS(answer, q, c)]
    OBVIOUS
  <2>8. p \in PacketsAfter(ids, answer, q, m)
    BY <2>4, <2>7 DEF PacketsAfter
  <2>9. p.fd = sessions[s].sock /\ p.id = i
    BY <2>1, <2>6, <2>7
  <2> QED BY <2>8, <2>9
<1> QED BY <1>2, <1>3

LEMMA CaughtUpUnchanged ==
  ASSUME CaughtUp, rows' = rows, wire \subseteq wire',
         DOMAIN sessions' = DOMAIN sessions,
         \A s \in DOMAIN sessions :
           /\ sessions'[s].sock = sessions[s].sock
           /\ sessions'[s].client = sessions[s].client
           /\ sessions'[s].clean = sessions[s].clean
  PROVE  CaughtUp'
BY DEF CaughtUp

LEMMA CaughtUpTopics ==
  ASSUME TypeOK, CaughtUp, UNCHANGED <<rows, wire>>, NEW s \in DOMAIN sessions,
         NEW T, sessions' = [sessions EXCEPT ![s].topics = T]
  PROVE  CaughtUp'
<1>1. DOMAIN sessions' = DOMAIN sessions
  BY DEF TypeOK
<1>2. ASSUME NEW r \in DOMAIN sessions
      PROVE  /\ sessions'[r].sock = sessions[r].sock
             /\ sessions'[r].client = sessions[r].client
             /\ sessions'[r].clean = sessions[r].clean
  <2>1. sessions[r] \in Session
    BY DEF TypeOK
  <2>2. CASE r = s
    BY <2>1, <2>2 DEF Session
  <2>3. CASE r # s
    BY <2>3
  <2> QED BY <2>2, <2>3
<1> QED BY <1>1, <1>2, CaughtUpUnchanged

(* A persistent session begins by having all its rows sent again. *)
LEMMA CaughtUpConnect ==
  ASSUME CInv, NEW f \in Fd, NEW clean \in CleanFlags, Connect(f, clean)
  PROVE  CaughtUp'
<1>1. PICK will : AddSession(f, clean, will)
  <2>1. CASE AddSession(f, clean, NoWill)
    BY <2>1
  <2>2. CASE \E q \in WillQoS :
               AddSession(f, clean, [msg |-> posted + 1, qos |-> q % 2])
    BY <2>2
  <2> QED BY <2>1, <2>2 DEF Connect
<1>2. PICK new : new = [sock |-> f, client |-> peer[f], clean |-> clean,
                        will |-> will, topics |-> {}]
  OBVIOUS
<1>3. PICK S : S = Session \cup {new}
  OBVIOUS
<1>4. sessions \in Seq(Session) /\ Len(sessions) \in Nat
      /\ DOMAIN sessions = 1..Len(sessions)
  BY DEF CInv, HInv, TypeOK
<1>5. sessions \in Seq(S) /\ new \in S
  BY <1>3, <1>4
<1>6. sessions' = <<new>> \o sessions /\ rows' = rows
      /\ wire' = IF clean THEN wire ELSE wire \cup Resent(f, peer[f])
  BY <1>1, <1>2 DEF AddSession, Connect
<1>7. /\ sessions' \in Seq(S) /\ Len(sessions') = Len(sessions) + 1
      /\ sessions'[1] = new
      /\ \A s \in 2..(Len(sessions) + 1) : sessions'[s] = sessions[s - 1]
  BY <1>5, <1>6, PrependProperties
<1>8. ASSUME NEW s \in DOMAIN sessions', ~sessions'[s].clean,
             NEW i \in Id, rows'[i].client = sessions'[s].client
      PROVE  \E p \in wire' : p.fd = sessions'[s].sock /\ p.id = i
  <2>1. CASE s = 1
    <3>1. ~clean /\ rows[i].client = peer[f] /\ sessions'[s].sock = f
      BY <1>2, <1>6, <1>7, <1>8, <2>1
    <3>2. PICK p : p = [fd |-> f, client |-> peer[f], id |-> i,
                        msg |-> rows[i].msg, qos |-> rows[i].qos]
      OBVIOUS
    <3>3. p \in Resent(f, peer[f])
      BY <3>1, <3>2 DEF Resent
    <3>4. p.fd = f /\ p.id = i
      BY <3>2
    <3> QED BY <1>6, <3>1, <3>3, <3>4
  <2>2. CASE s # 1
    <3>1. s \in 2..(Len(sessions) + 1)
      BY <1>4, <1>7, <2>2
    <3>2. s - 1 \in DOMAIN sessions /\ sessions'[s] = sessions[s - 1]
      BY <1>4, <1>7, <3>1
    <3>3. PICK p \in wire : p.fd = sessions[s - 1].sock /\ p.id = i
      BY <1>6, <1>8, <3>2 DEF CInv, CaughtUp
    <3> QED BY <1>6, <3>2, <3>3
  <2> QED BY <2>1, <2>2
<1> QED BY <1>8 DEF CaughtUp

LEMMA CaughtUpPublish ==
  ASSUME CInv, Orderly, Room,
         NEW f \in Fd, NEW t \in Topic, NEW q \in QoS, Publish(f, t, q)
  PROVE  CaughtUp'
<1>0. PICK h \in Heard(t) : PublishAs(f, h, q)
  BY DEF Publish
<1>1. CASE SearchCrashes(trie, h)
  BY <1>0, <1>1, CaughtUpUnchanged DEF PublishAs, Die, CInv
<1>2. CASE ~SearchCrashes(trie, h)
  <2>1. PICK answer \in Answers(trie, h) :
          \E ids \in [Takers(answer, q) -> Id] :
            /\ SessionPublishAdd(ids)
            /\ rows' = RowsAfter(ids, answer, q, posted + 1)
            /\ wire' = PacketsAfter(ids, answer, q, posted + 1)
    BY <1>0, <1>2 DEF PublishAs
  <2>2. PICK ids \in [Takers(answer, q) -> Id] :
            /\ SessionPublishAdd(ids)
            /\ rows' = RowsAfter(ids, answer, q, posted + 1)
            /\ wire' = PacketsAfter(ids, answer, q, posted + 1)
    BY <2>1
  <2>3. IsAnswer(answer)
    BY AnswersAre DEF CInv, HInv, TypeOK, TrieTypeOK
  <2>4. sessions' = sessions
    BY <1>0, <1>2 DEF PublishAs
  <2>5. ASSUME NEW s \in DOMAIN sessions, ~sessions[s].clean,
               NEW i \in Id, rows'[i].client = sessions[s].client
        PROVE  \E p \in wire' : p.fd = sessions[s].sock /\ p.id = i
    BY <2>2, <2>3, <2>5, FanOutReaches
  <2> QED BY <2>4, <2>5 DEF CaughtUp
<1> QED BY <1>0, <1>1, <1>2

(* The session that closes takes only its own connection's packets along. *)
LEMMA CaughtUpSessionClose ==
  ASSUME CInv, Orderly, Room, NEW f \in Fd, HasSession(f), SessionClose(f)
  PROVE  CaughtUp'
<1>1. CASE Die
  BY <1>1, CaughtUpUnchanged DEF Die, CInv
<1>2. CASE ~Die
  <2>1. PICK n \in DOMAIN sessions :
          /\ sessions[n].sock = f
          /\ sessions' = RemoveAt(sessions, n)
          /\ \E answer \in WillsAnswers(sessions[n]) :
               \E ids \in [Takers(answer, sessions[n].will.qos) -> Id] :
                 /\ SessionPublishAdd(ids)
                 /\ rows' = RowsAfter(ids, answer, sessions[n].will.qos,
                                      sessions[n].will.msg)
                 /\ wire' = WithoutFd(
                      PacketsAfter(ids, answer, sessions[n].will.qos,
                                   sessions[n].will.msg), f)
    BY <1>2, ClosedSession DEF CInv, HInv
  <2>2. PICK w : w = sessions[n]
    OBVIOUS
  <2>3. PICK answer \in WillsAnswers(w) :
          \E ids \in [Takers(answer, w.will.qos) -> Id] :
            /\ SessionPublishAdd(ids)
            /\ rows' = RowsAfter(ids, answer, w.will.qos, w.will.msg)
            /\ wire' = WithoutFd(PacketsAfter(ids, answer, w.will.qos, w.will.msg), f)
    BY <2>1, <2>2
  <2>4. PICK ids \in [Takers(answer, w.will.qos) -> Id] :
            /\ SessionPublishAdd(ids)
            /\ rows' = RowsAfter(ids, answer, w.will.qos, w.will.msg)
            /\ wire' = WithoutFd(PacketsAfter(ids, answer, w.will.qos, w.will.msg), f)
    BY <2>3
  <2>5. w \in Session
    BY <2>2 DEF CInv, HInv, TypeOK
  <2>6. IsAnswer(answer)
    BY <2>5, WillAnswersAre DEF CInv, HInv
  <2>7. sessions \in Seq(Session) /\ Len(sessions) \in Nat
        /\ DOMAIN sessions = 1..Len(sessions)
    BY DEF CInv, HInv, TypeOK
  <2>8. /\ sessions' \in Seq(Session) /\ Len(sessions') = Len(sessions) - 1
        /\ \A s \in 1..(Len(sessions) - 1) :
             sessions'[s] = IF s < n THEN sessions[s] ELSE sessions[s + 1]
    BY <2>1, <2>7, RemoveAtProperties
  <2>9. ASSUME NEW s \in DOMAIN sessions', ~sessions'[s].clean,
               NEW i \in Id, rows'[i].client = sessions'[s].client
        PROVE  \E p \in wire' : p.fd = sessions'[s].sock /\ p.id = i
    <3>1. PICK r \in DOMAIN sessions : r # n /\ sessions'[s] = sessions[r]
      <4>1. s \in 1..(Len(sessions) - 1)
        BY <2>7, <2>8
      <4>2. CASE s < n
        BY <2>7, <2>8, <4>1, <4>2
      <4>3. CASE ~(s < n)
        <5>1. s + 1 \in DOMAIN sessions /\ s + 1 # n
          BY <2>7, <4>1, <4>3
        <5>2. sessions'[s] = sessions[s + 1]
          BY <2>8, <4>1, <4>3
        <5> QED BY <5>1, <5>2
      <4> QED BY <4>2, <4>3
    <3>2. PICK p \in PacketsAfter(ids, answer, w.will.qos, w.will.msg) :
            p.fd = sessions[r].sock /\ p.id = i
      BY <2>4, <2>6, <2>9, <3>1, FanOutReaches
    <3>3. sessions[r].sock # f
      BY <2>1, <3>1 DEF CInv, HInv, Belongs, SocketOwned
    <3>4. p \in wire'
      BY <2>4, <3>2, <3>3 DEF WithoutFd
    <3> QED BY <3>1, <3>2, <3>4
  <2> QED BY <2>9 DEF CaughtUp
<1> QED BY <1>1, <1>2

(* A row that stays keeps its packet: an acknowledgement takes one packet, *)
(* and the row it had.                                                     *)
LEMMA CaughtUpAcknowledge ==
  ASSUME CInv, NEW a \in wire, Acknowledge(a)
  PROVE  CaughtUp'
<1>1. /\ a.id \in Id
      /\ rows' = [rows EXCEPT ![a.id] = [FreshRow EXCEPT !.payload = "freed"]]
      /\ wire' = wire \ {a} /\ sessions' = sessions
  BY AcksItsRow DEF CInv
<1>2. /\ rows'[a.id].client = NoClient
      /\ \A i \in Id : i # a.id => rows'[i] = rows[i]
  BY <1>1 DEF CInv, HInv, TypeOK, FreshRow
<1>3. ASSUME NEW s \in DOMAIN sessions, ~sessions[s].clean,
             NEW i \in Id, rows'[i].client = sessions[s].client
      PROVE  \E p \in wire' : p.fd = sessions[s].sock /\ p.id = i
  <2>1. sessions[s].client # NoClient
    <3>1. sessions[s] \in Session
      BY DEF CInv, HInv, TypeOK
    <3> QED BY <3>1, BrokerAssumption DEF Session, NoClient
  <2>2. i # a.id /\ rows'[i] = rows[i]
    BY <1>2, <1>3, <2>1
  <2>3. PICK p \in wire : p.fd = sessions[s].sock /\ p.id = i
    BY <1>3, <2>2 DEF CInv, CaughtUp
  <2> QED BY <1>1, <2>2, <2>3
<1> QED BY <1>1, <1>3 DEF CaughtUp

(* A connection that is dropped without a session has nobody's packets. *)
LEMMA CaughtUpDrop ==
  ASSUME CInv, NEW f \in Fd, ~HasSession(f), DropConnection(f)
  PROVE  CaughtUp'
<1>1. rows' = rows /\ sessions' = sessions /\ wire' = {p \in wire : p.fd # f}
  BY DEF DropConnection, WithoutFd
<1>2. \A s \in DOMAIN sessions : sessions[s].sock # f
  BY DEF HasSession
<1> QED BY <1>1, <1>2 DEF CInv, CaughtUp

LEMMA CaughtUpNext ==
  ASSUME Orderly, Room, CInv, [Next]_vars
  PROVE  CaughtUp'
<1>1. CASE UNCHANGED <<rows, wire, sessions>>
  BY <1>1, CaughtUpUnchanged DEF CInv
<1>2. ASSUME NEW c \in Client, Accept(c)
      PROVE  CaughtUp'
  BY <1>1, <1>2 DEF Accept
<1>3. ASSUME NEW f \in Fd, NEW clean \in CleanFlags, Connect(f, clean)
      PROVE  CaughtUp'
  BY <1>3, CaughtUpConnect
<1>4. ASSUME NEW f \in Fd, Refuse(f) \/ NotConnected(f)
      PROVE  CaughtUp'
  BY <1>4, CaughtUpDrop DEF Refuse, NotConnected, Orderly
<1>5. ASSUME NEW f \in Fd, NEW t \in Topic, NEW q \in QoS, Publish(f, t, q)
      PROVE  CaughtUp'
  BY <1>5, CaughtUpPublish
<1>6. ASSUME NEW f \in Fd, NEW k \in DOMAIN Filters, NEW q \in QoS, Subscribe(f, k, q)
      PROVE  CaughtUp'
  <2>1. PICK s : s = SessionOn(f)
    OBVIOUS
  <2>2. s \in DOMAIN sessions
    BY <1>6, <2>1, SessionOnFound DEF Subscribe, CInv, HInv, TypeOK
  <2>3. sessions' = [sessions EXCEPT ![s].topics = sessions[s].topics \cup {k}]
    BY <1>6, <2>1 DEF Subscribe
  <2> QED BY <1>6, <2>2, <2>3, CaughtUpTopics DEF Subscribe, CInv, HInv
<1>7. ASSUME NEW f \in Fd, NEW k \in DOMAIN Filters, Unsubscribe(f, k)
      PROVE  CaughtUp'
  <2>1. CASE DeleteCrashes(trie, Filters[k])
    BY <1>1, <1>7, <2>1 DEF Unsubscribe, Die
  <2>2. CASE ~DeleteCrashes(trie, Filters[k])
    <3>1. PICK s : s = SessionOn(f)
      OBVIOUS
    <3>2. s \in DOMAIN sessions
      BY <1>7, <3>1, SessionOnFound DEF Unsubscribe, CInv, HInv, TypeOK
    <3>3. sessions' = [sessions EXCEPT ![s].topics = sessions[s].topics \ {k}]
      BY <1>7, <2>2, <3>1 DEF Unsubscribe
    <3> QED BY <1>7, <2>2, <3>2, <3>3, CaughtUpTopics DEF Unsubscribe, CInv, HInv
  <2> QED BY <2>1, <2>2
<1>8. ASSUME NEW f \in Fd, Disconnect(f) \/ Hangup(f)
      PROVE  CaughtUp'
  BY <1>8, CaughtUpDrop, CaughtUpSessionClose DEF Disconnect, Hangup
<1>9. ASSUME NEW p \in wire, PubAck(p) \/ PubRec(p)
      PROVE  CaughtUp'
  BY <1>9, CaughtUpAcknowledge DEF PubAck, PubRec
<1>10. CASE UNCHANGED vars
  BY <1>1, <1>10 DEF vars
<1> QED BY <1>2, <1>3, <1>4, <1>5, <1>6, <1>7, <1>8, <1>9, <1>10 DEF Next

(* Under the same conditions every row of a client with a persistent       *)
(* session is in flight on that session's connection: CONNECT sends all of *)
(* them again (event.c:69), and what comes later is written as it comes.   *)
THEOREM SessionsCaughtUp ==
  ASSUME Orderly
  PROVE  Spec /\ []Room => []CaughtUp
<1>1. Init => CInv
  BY HInit DEF Init, CInv, CaughtUp
<1>2. CInv /\ Room /\ [Next]_vars => CInv'
  <2> SUFFICES ASSUME CInv, Room, [Next]_vars
               PROVE  CInv'
    OBVIOUS
  <2>1. HInv'
    BY HNext DEF CInv
  <2>2. CaughtUp'
    BY CaughtUpNext
  <2> QED BY <2>1, <2>2 DEF CInv
<1>3. CInv => CaughtUp
  BY DEF CInv
<1> QED BY <1>1, <1>2, <1>3, PTL DEF Spec

----------------------------------------------------------------------------
(* What a session lists, the trie has.                                     *)

(* No two of the filters are one place, as "//a" and "/a" would be. *)
Apart ==
  \A j, k \in DOMAIN Filters : Place(Filters[j]) = Place(Filters[k]) => j = k

BInv == TypeOK /\ Belongs /\ OneConn /\ Backed

(* Backed is kept where no session comes to list more, and no entry it     *)
(* still needs goes.                                                       *)
LEMMA BackedKept ==
  ASSUME Backed,
         \A s \in DOMAIN sessions' : \E r \in DOMAIN sessions :
           /\ sessions'[s].client = sessions[r].client
           /\ sessions'[s].topics \subseteq sessions[r].topics
           /\ \A k \in sessions'[s].topics : \A e \in trie.subs :
                e.place = Place(Filters[k]) /\ e.client = sessions[r].client
                  => e \in trie'.subs
  PROVE  Backed'
<1> SUFFICES ASSUME NEW s \in DOMAIN sessions', NEW k \in sessions'[s].topics
             PROVE  \E e \in trie'.subs :
                      e.place = Place(Filters[k]) /\ e.client = sessions'[s].client
  BY DEF Backed
<1>1. PICK r \in DOMAIN sessions :
        /\ sessions'[s].client = sessions[r].client
        /\ sessions'[s].topics \subseteq sessions[r].topics
        /\ \A e \in trie.subs :
             e.place = Place(Filters[k]) /\ e.client = sessions[r].client
               => e \in trie'.subs
  OBVIOUS
<1>2. PICK e \in trie.subs :
        e.place = Place(Filters[k]) /\ e.client = sessions[r].client
  BY <1>1 DEF Backed
<1> QED BY <1>1, <1>2

LEMMA BackedUnchanged ==
  ASSUME Backed, UNCHANGED <<sessions, trie>>
  PROVE  Backed'
BY DEF Backed

(* A new session lists nothing. *)
LEMMA BackedConnect ==
  ASSUME BInv, NEW f \in Fd, NEW clean \in CleanFlags, Connect(f, clean)
  PROVE  Backed'
<1>1. PICK will : AddSession(f, clean, will)
  <2>1. CASE AddSession(f, clean, NoWill)
    BY <2>1
  <2>2. CASE \E q \in WillQoS :
               AddSession(f, clean, [msg |-> posted + 1, qos |-> q % 2])
    BY <2>2
  <2> QED BY <2>1, <2>2 DEF Connect
<1>2. PICK new : new = [sock |-> f, client |-> peer[f], clean |-> clean,
                        will |-> will, topics |-> {}]
  OBVIOUS
<1>3. PICK S : S = Session \cup {new}
  OBVIOUS
<1>4. sessions \in Seq(Session) /\ Len(sessions) \in Nat
      /\ DOMAIN sessions = 1..Len(sessions)
  BY DEF BInv, TypeOK
<1>5. sessions \in Seq(S) /\ new \in S
  BY <1>3, <1>4
<1>6. sessions' = <<new>> \o sessions /\ trie' = trie
  BY <1>1, <1>2 DEF AddSession, Connect
<1>7. /\ sessions' \in Seq(S) /\ Len(sessions') = Len(sessions) + 1
      /\ sessions'[1] = new
      /\ \A s \in 2..(Len(sessions) + 1) : sessions'[s] = sessions[s - 1]
  BY <1>5, <1>6, PrependProperties
<1>8. ASSUME NEW s \in DOMAIN sessions', NEW k \in sessions'[s].topics
      PROVE  \E e \in trie'.subs :
               e.place = Place(Filters[k]) /\ e.client = sessions'[s].client
  <2>1. s # 1
    BY <1>2, <1>7, <1>8
  <2>2. s \in 2..(Len(sessions) + 1)
    BY <1>4, <1>7, <2>1
  <2>3. s - 1 \in DOMAIN sessions /\ sessions'[s] = sessions[s - 1]
    BY <1>4, <1>7, <2>2
  <2> QED BY <1>6, <1>8, <2>3 DEF BInv, Backed
<1> QED BY <1>8 DEF Backed

(* SUBSCRIBE adds to the list and to the trie. *)
LEMMA BackedSubscribe ==
  ASSUME BInv, NEW f \in Fd, NEW k \in DOMAIN Filters, NEW q \in QoS,
         Subscribe(f, k, q)
  PROVE  Backed'
<1>1. PICK n : n = SessionOn(f)
  OBVIOUS
<1>2. n \in DOMAIN sessions
  BY <1>1, SessionOnFound DEF Subscribe, BInv, TypeOK
<1>3. PICK c : c = sessions[n].client
  OBVIOUS
<1>4. /\ sessions' = [sessions EXCEPT ![n].topics = sessions[n].topics \cup {k}]
      /\ trie' = Intercept(trie, Filters[k], q, c)
  BY <1>1, <1>3 DEF Subscribe
<1>5. trie.subs \subseteq trie'.subs
  BY <1>4 DEF Intercept
<1>6. \E e \in trie'.subs : e.place = Place(Filters[k]) /\ e.client = c
  <2>1. CASE \E e \in trie.subs : e.place = Place(Filters[k]) /\ e.client = c
    BY <1>5, <2>1
  <2>2. CASE ~\E e \in trie.subs : e.place = Place(Filters[k]) /\ e.client = c
    <3>1. PICK e : e = [place |-> Place(Filters[k]), client |-> c, qos |-> q]
      OBVIOUS
    <3>2. e \in trie'.subs
      BY <1>4, <2>2, <3>1 DEF Intercept
    <3> QED BY <3>1, <3>2
  <2> QED BY <2>1, <2>2
<1>7. DOMAIN sessions' = DOMAIN sessions
  BY <1>4 DEF BInv, TypeOK
<1>8. ASSUME NEW s \in DOMAIN sessions, NEW j \in sessions'[s].topics
      PROVE  \E e \in trie'.subs :
               e.place = Place(Filters[j]) /\ e.client = sessions'[s].client
  <2>1. sessions[s] \in Session
    BY DEF BInv, TypeOK
  <2>2. sessions'[s].client = sessions[s].client
    BY <1>4, <2>1 DEF Session, BInv, TypeOK
  <2>3. CASE j \in sessions[s].topics
    BY <1>5, <2>2, <2>3 DEF BInv, Backed
  <2>4. CASE j \notin sessions[s].topics
    <3>1. s = n /\ j = k
      BY <1>2, <1>4, <1>8, <2>1, <2>4 DEF Session, BInv, TypeOK
    <3> QED BY <1>3, <1>6, <2>2, <3>1
  <2> QED BY <2>3, <2>4
<1> QED BY <1>7, <1>8 DEF Backed

(* An entry of another client, or of another filter, is never deleted. *)
LEMMA OthersStay ==
  ASSUME NEW t, NEW keys, NEW c, NEW e \in t.subs,
         e.client # c \/ \A key \in keys : e.place # Place(key)
  PROVE  e \in DeleteTopics(t, keys, c).subs
BY DEF DeleteTopics, WithoutClient

LEMMA BackedUnsubscribe ==
  ASSUME BInv, Apart, NEW f \in Fd, NEW k \in DOMAIN Filters, Unsubscribe(f, k)
  PROVE  Backed'
<1>1. CASE DeleteCrashes(trie, Filters[k])
  BY <1>1, BackedUnchanged DEF Unsubscribe, Die, BInv
<1>2. CASE ~DeleteCrashes(trie, Filters[k])
  <2>1. PICK n : n = SessionOn(f)
    OBVIOUS
  <2>2. n \in DOMAIN sessions
    BY <1>2, <2>1, SessionOnFound DEF Unsubscribe, BInv, TypeOK
  <2>3. /\ sessions' = [sessions EXCEPT ![n].topics = sessions[n].topics \ {k}]
        /\ trie' = DeleteTopics(trie, {Filters[k]}, sessions[n].client)
    BY <1>2, <2>1 DEF Unsubscribe
  <2>4. DOMAIN sessions' = DOMAIN sessions
    BY <2>3 DEF BInv, TypeOK
  <2>5. ASSUME NEW s \in DOMAIN sessions
        PROVE  /\ sessions'[s].client = sessions[s].client
               /\ sessions'[s].topics \subseteq sessions[s].topics
               /\ \A j \in sessions'[s].topics : \A e \in trie.subs :
                    e.place = Place(Filters[j]) /\ e.client = sessions[s].client
                      => e \in trie'.subs
    <3>1. sessions[s] \in Session
      BY DEF BInv, TypeOK
    <3>2. /\ sessions'[s].client = sessions[s].client
          /\ sessions'[s].topics \subseteq sessions[s].topics
          /\ s = n => k \notin sessions'[s].topics
      BY <2>3, <3>1 DEF Session, BInv, TypeOK
    <3>3. ASSUME NEW j \in sessions'[s].topics, NEW e \in trie.subs,
                 e.place = Place(Filters[j]), e.client = sessions[s].client
          PROVE  e \in trie'.subs
      <4>1. CASE sessions[s].client # sessions[n].client
        BY <2>3, <3>3, <4>1, OthersStay
      <4>2. CASE sessions[s].client = sessions[n].client
        <5>1. s = n
          BY <2>2, <4>2, OneSession DEF BInv
        <5>2. j \in DOMAIN Filters /\ j # k
          BY <3>1, <3>2, <5>1 DEF Session
        <5>3. e.place # Place(Filters[k])
          BY <3>3, <5>2 DEF Apart
        <5> QED BY <2>3, <5>3, OthersStay
      <4> QED BY <4>1, <4>2
    <3> QED BY <3>2, <3>3
  <2> QED BY <2>4, <2>5, BackedKept DEF BInv
<1> QED BY <1>1, <1>2

(* A session that closes takes only its own client's entries out. *)
LEMMA BackedSessionClose ==
  ASSUME BInv, NEW f \in Fd, HasSession(f), SessionClose(f)
  PROVE  Backed'
<1>1. CASE Die
  BY <1>1, BackedUnchanged DEF Die, BInv
<1>2. CASE ~Die
  <2>1. PICK n \in DOMAIN sessions : /\ sessions' = RemoveAt(sessions, n)
                                     /\ trie' = TrieWithout(sessions[n])
    BY <1>2, ClosedSession DEF BInv
  <2>2. sessions \in Seq(Session) /\ Len(sessions) \in Nat
        /\ DOMAIN sessions = 1..Len(sessions)
    BY DEF BInv, TypeOK
  <2>3. /\ sessions' \in Seq(Session) /\ Len(sessions') = Len(sessions) - 1
        /\ \A s \in 1..(Len(sessions) - 1) :
             sessions'[s] = IF s < n THEN sessions[s] ELSE sessions[s + 1]
    BY <2>1, <2>2, RemoveAtProperties
  <2>4. ASSUME NEW s \in DOMAIN sessions'
        PROVE  \E r \in DOMAIN sessions : r # n /\ sessions'[s] = sessions[r]
    <3>1. s \in 1..(Len(sessions) - 1)
      BY <2>2, <2>3
    <3>2. CASE s < n
      BY <2>2, <2>3, <3>1, <3>2
    <3>3. CASE ~(s < n)
      <4>1. s + 1 \in DOMAIN sessions /\ s + 1 # n
        BY <2>2, <3>1, <3>3
      <4>2. sessions'[s] = sessions[s + 1]
        BY <2>3, <3>1, <3>3
      <4> QED BY <4>1, <4>2
    <3> QED BY <3>2, <3>3
  <2>5. ASSUME NEW r \in DOMAIN sessions, r # n, NEW e \in trie.subs,
               e.client = sessions[r].client
        PROVE  e \in trie'.subs
    <3>1. e.client # sessions[n].client
      BY <2>1, <2>5, OneSession DEF BInv
    <3> QED BY <2>1, <3>1, OthersStay DEF TrieWithout
  <2> QED BY <2>4, <2>5, BackedKept DEF BInv
<1> QED BY <1>1, <1>2

LEMMA BackedNext ==
  ASSUME Orderly, Apart, BInv, [Next]_vars
  PROVE  Backed'
<1>1. CASE UNCHANGED <<sessions, trie>>
  BY <1>1, BackedUnchanged DEF BInv
<1>2. ASSUME NEW c \in Client, Accept(c)
      PROVE  Backed'
  BY <1>1, <1>2 DEF Accept
<1>3. ASSUME NEW f \in Fd, NEW clean \in CleanFlags, Connect(f, clean)
      PROVE  Backed'
  BY <1>3, BackedConnect
<1>4. ASSUME NEW f \in Fd, Refuse(f) \/ NotConnected(f)
      PROVE  Backed'
  BY <1>1, <1>4 DEF Refuse, NotConnected, DropConnection
<1>5. ASSUME NEW f \in Fd, NEW t \in Topic, NEW q \in QoS, Publish(f, t, q)
      PROVE  Backed'
  BY <1>1, <1>5 DEF Publish, PublishAs, Die
<1>6. ASSUME NEW f \in Fd, NEW k \in DOMAIN Filters, NEW q \in QoS, Subscribe(f, k, q)
      PROVE  Backed'
  BY <1>6, BackedSubscribe
<1>7. ASSUME NEW f \in Fd, NEW k \in DOMAIN Filters, Unsubscribe(f, k)
      PROVE  Backed'
  BY <1>7, BackedUnsubscribe
<1>8. ASSUME NEW f \in Fd, Disconnect(f) \/ Hangup(f)
      PROVE  Backed'
  BY <1>1, <1>8, BackedSessionClose DEF Disconnect, Hangup, DropConnection
<1>9. ASSUME NEW p \in wire, PubAck(p) \/ PubRec(p)
      PROVE  Backed'
  BY <1>1, <1>9 DEF PubAck, PubRec, Acknowledge
<1>10. CASE UNCHANGED vars
  BY <1>1, <1>10 DEF vars
<1> QED BY <1>2, <1>3, <1>4, <1>5, <1>6, <1>7, <1>8, <1>9, <1>10 DEF Next

(* With one connection per client the trie has every filter a session      *)
(* lists (session.c:196 walks the list and deletes from the trie what it   *)
(* finds there), shared filters or not: what others give up, found or      *)
(* missed by delete_client_id, never takes it away.                        *)
THEOREM ListsBacked ==
  ASSUME Orderly, Apart
  PROVE  Spec => []Backed
<1>1. Init => BInv
  BY HInit DEF Init, HInv, BInv, Backed
<1>2. BInv /\ [Next]_vars => BInv'
  <2> SUFFICES ASSUME BInv, [Next]_vars
               PROVE  BInv'
    OBVIOUS
  <2>1. TypeOK'
    BY TypeNext DEF BInv
  <2>2. Belongs'
    BY BelongsNext DEF BInv, Orderly
  <2>3. OneConn'
    BY OneConnNext DEF BInv
  <2>4. Backed'
    BY BackedNext
  <2> QED BY <2>1, <2>2, <2>3, <2>4 DEF BInv
<1>3. BInv => Backed
  BY DEF BInv
<1> QED BY <1>1, <1>2, <1>3, PTL DEF Spec

----------------------------------------------------------------------------
(* Module Broker keeps the promise of module Delivery, under the same      *)
(* assumptions.  What HInv says of rows and packets is not enough for it:  *)
(* that a message is owed to nobody before it is posted needs that the     *)
(* numbers of messages, in rows and in wills, are distinct.                *)

WillMsg(s) == sessions[s].will.msg

(* A row's message has been numbered, and is no will still to come; a will *)
(* is one session's; a message has one row for each client.                *)
Numbered ==
  /\ \A i \in Id : rows[i].msg <= posted
  /\ \A s \in DOMAIN sessions : WillMsg(s) <= posted
  /\ \A r, s \in DOMAIN sessions :
       WillMsg(r) # NoMsg /\ WillMsg(r) = WillMsg(s) => r = s
  /\ \A i \in Id, s \in DOMAIN sessions :
       rows[i].msg # NoMsg => rows[i].msg # WillMsg(s)
  /\ \A i, j \in Id :
       /\ rows[i].msg # NoMsg /\ rows[i].msg = rows[j].msg
       /\ rows[i].client = rows[j].client
       => i = j

PInv == HInv /\ Numbered

(* Message m goes to those who take it. *)
FannedOut(m, q) ==
  \E answer : IsAnswer(answer) /\
    \E ids \in [Takers(answer, q) -> Id] :
      /\ DOMAIN answer # {} => m \in Msg
      /\ SessionPublishAdd(ids)
      /\ rows' = RowsAfter(ids, answer, q, m)
      /\ wire' \subseteq PacketsAfter(ids, answer, q, m)

(* What is owed for a row, and what is in hand. *)
DebtOf(x) == [client |-> x.client, msg |-> x.msg]
Hand == {DebtOf(p) : p \in wire}

----------------------------------------------------------------------------
(* What the types say of numbers.                                          *)

LEMMA Numbers ==
  ASSUME TypeOK
  PROVE  /\ posted \in Nat
         /\ \A i \in Id : /\ rows[i].msg \in Nat
                          /\ rows[i].client = NoClient <=> rows[i].msg = NoMsg
                          /\ rows[i].msg # NoMsg => rows[i].client \in Client
         /\ \A s \in DOMAIN sessions : WillMsg(s) \in Nat
<1>1. posted \in Nat
  BY BrokerAssumption DEF TypeOK
<1>2. ASSUME NEW i \in Id
      PROVE  /\ rows[i].msg \in Nat
             /\ rows[i].client = NoClient <=> rows[i].msg = NoMsg
             /\ rows[i].msg # NoMsg => rows[i].client \in Client
  <2>1. rows[i] \in FreeRow \cup UsedRow
    BY DEF TypeOK, Row
  <2>2. CASE rows[i] \in FreeRow
    BY <2>2 DEF FreeRow, NoMsg, NoClient
  <2>3. CASE rows[i] \in UsedRow
    BY <2>3, BrokerAssumption DEF UsedRow, Msg, NoMsg, NoClient
  <2> QED BY <2>1, <2>2, <2>3
<1>3. ASSUME NEW s \in DOMAIN sessions
      PROVE  WillMsg(s) \in Nat
  <2>1. sessions[s] \in Session
    BY DEF TypeOK
  <2> QED BY <2>1, BrokerAssumption DEF Session, Will, Msg, NoMsg, WillMsg
<1> QED BY <1>1, <1>2, <1>3

LEMMA NumberedInit == Init => Numbered
BY DEF Init, Numbered, FreshRow, NoMsg

(* Nothing that Numbered looks at changes. *)
LEMMA NumberedUnchanged ==
  ASSUME Numbered, UNCHANGED <<rows, posted>>, DOMAIN sessions' = DOMAIN sessions,
         \A s \in DOMAIN sessions : sessions'[s].will = sessions[s].will
  PROVE  Numbered'
BY DEF Numbered, WillMsg

(* Changing a session's filters leaves its will. *)
LEMMA NumberedTopics ==
  ASSUME TypeOK, Numbered, UNCHANGED <<rows, posted>>, NEW s \in DOMAIN sessions,
         NEW T, sessions' = [sessions EXCEPT ![s].topics = T]
  PROVE  Numbered'
<1>1. DOMAIN sessions' = DOMAIN sessions
  BY DEF TypeOK
<1>2. ASSUME NEW r \in DOMAIN sessions
      PROVE  sessions'[r].will = sessions[r].will
  <2>1. sessions[r] \in Session
    BY DEF TypeOK
  <2>2. CASE r = s
    BY <2>1, <2>2 DEF Session
  <2>3. CASE r # s
    BY <2>3
  <2> QED BY <2>2, <2>3
<1> QED BY <1>1, <1>2, NumberedUnchanged

(* A will is numbered as it is handed in. *)
LEMMA NumberedConnect ==
  ASSUME PInv, NEW f \in Fd, NEW clean \in CleanFlags, Connect(f, clean)
  PROVE  Numbered'
<1>1. PICK will :
        /\ AddSession(f, clean, will)
        /\ \/ will = NoWill /\ posted' = posted
           \/ will.msg = posted + 1 /\ posted' = posted + 1
  <2>1. CASE AddSession(f, clean, NoWill) /\ UNCHANGED posted
    BY <2>1
  <2>2. CASE /\ \E q \in WillQoS :
                  AddSession(f, clean, [msg |-> posted + 1, qos |-> q % 2])
             /\ posted' = posted + 1
    <3>1. PICK q \in WillQoS :
            AddSession(f, clean, [msg |-> posted + 1, qos |-> q % 2])
      BY <2>2
    <3>2. PICK will : will = [msg |-> posted + 1, qos |-> q % 2]
      OBVIOUS
    <3>3. AddSession(f, clean, will) /\ will.msg = posted + 1
      BY <3>1, <3>2
    <3> QED BY <2>2, <3>3
  <2> QED BY <2>1, <2>2 DEF Connect
<1> DEFINE new == [sock |-> f, client |-> peer[f], clean |-> clean,
                   will |-> will, topics |-> {}]
           S == Session \cup {new}
<1>2. sessions \in Seq(Session) /\ Len(sessions) \in Nat
      /\ DOMAIN sessions = 1..Len(sessions)
  BY DEF PInv, HInv, TypeOK
<1>3. sessions \in Seq(S) /\ new \in S
  BY <1>2
<1>4. sessions' = <<new>> \o sessions
  BY <1>1 DEF AddSession
<1>5. /\ sessions' \in Seq(S) /\ Len(sessions') = Len(sessions) + 1
      /\ sessions'[1] = new
      /\ \A s \in 2..(Len(sessions) + 1) : sessions'[s] = sessions[s - 1]
  <2> HIDE DEF new, S
  <2> QED BY <1>3, <1>4, PrependProperties
<1>6. DOMAIN sessions' = 1..(Len(sessions) + 1)
  BY <1>5
<1>7. (WillMsg(1))' = will.msg
  BY <1>5 DEF WillMsg
<1>8. \A s \in 2..(Len(sessions) + 1) :
        s - 1 \in DOMAIN sessions /\ (WillMsg(s))' = WillMsg(s - 1)
  BY <1>2, <1>5 DEF WillMsg
<1>9. will.msg = NoMsg \/ will.msg > posted
  BY <1>1, Numbers DEF NoWill, PInv, HInv
<1>10. rows' = rows /\ posted' \in Nat /\ posted <= posted' /\ will.msg <= posted'
  BY <1>1, Numbers DEF Connect, PInv, HInv, NoWill, NoMsg
<1>11. /\ posted \in Nat
       /\ \A i \in Id : rows[i].msg \in Nat /\ rows[i].msg <= posted
       /\ \A s \in DOMAIN sessions : WillMsg(s) \in Nat /\ WillMsg(s) <= posted
  BY Numbers DEF PInv, HInv, Numbered
<1>12. \A s \in DOMAIN sessions' : s = 1 \/ s \in 2..(Len(sessions) + 1)
  BY <1>2, <1>6
<1>13. \A s \in DOMAIN sessions' : (WillMsg(s))' <= posted'
  BY <1>7, <1>8, <1>10, <1>11, <1>12
<1>14. ASSUME NEW r \in DOMAIN sessions', NEW s \in DOMAIN sessions',
              (WillMsg(r))' # NoMsg, (WillMsg(r))' = (WillMsg(s))'
       PROVE  r = s
  <2>1. CASE r = 1
    <3>1. ~(s \in 2..(Len(sessions) + 1))
      BY <1>7, <1>8, <1>9, <1>11, <1>14, <2>1
    <3> QED BY <1>12, <2>1, <3>1
  <2>2. CASE s = 1
    <3>1. ~(r \in 2..(Len(sessions) + 1))
      BY <1>7, <1>8, <1>9, <1>11, <1>14, <2>2
    <3> QED BY <1>12, <2>2, <3>1
  <2>3. CASE r # 1 /\ s # 1
    <3>1. r \in 2..(Len(sessions) + 1) /\ s \in 2..(Len(sessions) + 1)
      BY <1>12, <2>3
    <3>2. r - 1 = s - 1
      BY <1>8, <1>14, <3>1 DEF PInv, Numbered
    <3> QED BY <1>2, <3>1, <3>2
  <2> QED BY <2>1, <2>2, <2>3
<1>15. ASSUME NEW i \in Id, NEW s \in DOMAIN sessions', rows'[i].msg # NoMsg
       PROVE  rows'[i].msg # (WillMsg(s))'
  <2>1. CASE s = 1
    BY <1>7, <1>9, <1>10, <1>11, <1>15, <2>1
  <2>2. CASE s # 1
    BY <1>8, <1>10, <1>12, <1>15, <2>2 DEF PInv, Numbered
  <2> QED BY <2>1, <2>2
<1>16. \A i \in Id : rows'[i].msg <= posted'
  BY <1>10, <1>11
<1>17. \A i, j \in Id :
         /\ rows'[i].msg # NoMsg /\ rows'[i].msg = rows'[j].msg
         /\ rows'[i].client = rows'[j].client
         => i = j
  BY <1>10 DEF PInv, Numbered
<1> QED BY <1>13, <1>14, <1>15, <1>16, <1>17 DEF Numbered

(* A row that is freed has no message any more. *)
LEMMA NumberedAcknowledge ==
  ASSUME PInv, NEW p \in wire, Acknowledge(p)
  PROVE  Numbered'
<1>1. /\ p.id \in Id
      /\ rows' = [rows EXCEPT ![p.id] = [FreshRow EXCEPT !.payload = "freed"]]
      /\ UNCHANGED <<sessions, posted>>
  BY AcksItsRow DEF PInv
<1>2. rows \in [Id -> Row] /\ posted \in Nat
  BY Numbers DEF PInv, HInv, TypeOK
<1>3. \A i \in Id : i # p.id => rows'[i] = rows[i]
  BY <1>1, <1>2
<1>4. rows'[p.id].msg = NoMsg
  BY <1>1, <1>2 DEF FreshRow
<1>5. \A i \in Id : rows'[i].msg <= posted'
  BY <1>1, <1>2, <1>3, <1>4 DEF PInv, Numbered, NoMsg
<1> QED BY <1>1, <1>3, <1>4, <1>5 DEF PInv, Numbered, WillMsg

----------------------------------------------------------------------------
(* What a fan-out does to rows, and to debts.                              *)

LEMMA FanOutRows ==
  ASSUME PInv, Orderly, Room, NEW m, NEW q, FannedOut(m, q),
         \A i \in Id : rows[i].msg # NoMsg => rows[i].msg # m
  PROVE  /\ \A i \in Id : rows'[i] = rows[i] \/ (rows'[i].msg = m /\ m \in Msg)
         /\ \A i, j \in Id :
              /\ rows'[i].msg # NoMsg /\ rows'[i].msg = rows'[j].msg
              /\ rows'[i].client = rows'[j].client
              => i = j
         /\ \E to \in SUBSET Client :
              /\ Owed' = Owed \cup {[client |-> c, msg |-> m] : c \in to}
              /\ to # {} => m \in Msg
         /\ Hand' \subseteq Hand \cup (Owed' \ Owed)
<1>1. PICK answer : IsAnswer(answer) /\
        \E ids \in [Takers(answer, q) -> Id] :
          /\ DOMAIN answer # {} => m \in Msg
          /\ SessionPublishAdd(ids)
          /\ rows' = RowsAfter(ids, answer, q, m)
          /\ wire' \subseteq PacketsAfter(ids, answer, q, m)
  BY DEF FannedOut
<1>2. PICK ids \in [Takers(answer, q) -> Id] :
          /\ DOMAIN answer # {} => m \in Msg
          /\ SessionPublishAdd(ids)
          /\ rows' = RowsAfter(ids, answer, q, m)
          /\ wire' \subseteq PacketsAfter(ids, answer, q, m)
  BY <1>1
<1>3. DOMAIN ids \subseteq Client /\ (DOMAIN ids # {} => m \in Msg)
  BY <1>1, <1>2 DEF Takers, IsAnswer
<1>4. /\ \A c \in DOMAIN ids : rows'[ids[c]] =
           [client |-> c, msg |-> m, payload |-> "live",
            qos |-> EffectiveQoS(answer, q, c)]
      /\ \A i \in Id : (\A c \in DOMAIN ids : ids[c] # i) => rows'[i] = rows[i]
  BY <1>1, <1>2, RowsAfterwards
<1>5. \A c \in DOMAIN ids : rows[ids[c]].client = NoClient
  BY <1>1, <1>2, RowsGiven
<1>6. ASSUME NEW c \in DOMAIN ids
      PROVE  ids[c] \in Id /\ rows'[ids[c]].msg = m /\ rows'[ids[c]].client = c
  <2>1. rows'[ids[c]] = [client |-> c, msg |-> m, payload |-> "live",
                         qos |-> EffectiveQoS(answer, q, c)]
    BY <1>4
  <2> QED BY <2>1
<1>7. \A i \in Id : rows'[i] = rows[i] \/ (rows'[i].msg = m /\ m \in Msg)
  BY <1>3, <1>4, <1>6
<1>8. ASSUME NEW i \in Id, NEW j \in Id, rows'[i].msg # NoMsg,
             rows'[i].msg = rows'[j].msg, rows'[i].client = rows'[j].client
      PROVE  i = j
  <2>1. CASE \E c \in DOMAIN ids : ids[c] = i
    <3>1. PICK c \in DOMAIN ids : ids[c] = i
      BY <2>1
    <3>2. PICK d \in DOMAIN ids : ids[d] = j
      BY <1>4, <1>6, <1>8, <3>1
    <3> QED BY <1>6, <1>8, <3>1, <3>2
  <2>2. CASE \A c \in DOMAIN ids : ids[c] # i
    <3>1. rows'[i] = rows[i]
      BY <1>4, <2>2
    <3>2. \A d \in DOMAIN ids : ids[d] # j
      BY <1>6, <1>8, <3>1
    <3>3. rows'[j] = rows[j]
      BY <1>4, <3>2
    <3> QED BY <1>8, <3>1, <3>3 DEF PInv, Numbered
  <2> QED BY <2>1, <2>2
<1>9. Owed' = Owed \cup {[client |-> c, msg |-> m] : c \in DOMAIN ids}
  <2>1. ASSUME NEW d \in Owed'
        PROVE  d \in Owed \cup {[client |-> c, msg |-> m] : c \in DOMAIN ids}
    <3>1. PICK i \in Id : /\ rows'[i].client # NoClient
                          /\ d = [client |-> rows'[i].client, msg |-> rows'[i].msg]
      BY DEF Owed
    <3>2. CASE \E c \in DOMAIN ids : ids[c] = i
      BY <1>6, <3>1, <3>2
    <3>3. CASE \A c \in DOMAIN ids : ids[c] # i
      BY <1>4, <3>1, <3>3 DEF Owed
    <3> QED BY <3>2, <3>3
  <2>2. ASSUME NEW d \in Owed
        PROVE  d \in Owed'
    <3>1. PICK i \in Id : /\ rows[i].client # NoClient
                          /\ d = [client |-> rows[i].client, msg |-> rows[i].msg]
      BY DEF Owed
    <3>2. \A c \in DOMAIN ids : ids[c] # i
      BY <1>5, <3>1
    <3>3. rows'[i] = rows[i]
      BY <1>4, <3>2
    <3> QED BY <3>1, <3>3 DEF Owed
  <2>3. ASSUME NEW c \in DOMAIN ids
        PROVE  [client |-> c, msg |-> m] \in Owed'
    <3>1. c # NoClient
      BY <1>3, BrokerAssumption DEF NoClient
    <3> QED BY <1>6, <3>1 DEF Owed
  <2> QED BY <2>1, <2>2, <2>3
<1>10. ASSUME NEW d \in Hand'
       PROVE  d \in Hand \cup (Owed' \ Owed)
  <2>1. PICK p \in wire' : d = [client |-> p.client, msg |-> p.msg]
    BY DEF Hand, DebtOf
  <2>2. CASE p \in wire
    BY <2>1, <2>2 DEF Hand, DebtOf
  <2>3. CASE p \notin wire
    <3>1. PICK c \in DOMAIN ids :
            p = [fd |-> sessions[SessionOf(c)].sock, client |-> c, id |-> ids[c],
                 msg |-> m, qos |-> EffectiveQoS(answer, q, c)]
      BY <1>2, <2>3 DEF PacketsAfter
    <3>2. d = [client |-> c, msg |-> m]
      BY <2>1, <3>1
    <3>3. d \in Owed'
      BY <1>9, <3>2
    <3>4. ASSUME d \in Owed
          PROVE  FALSE
      <4>1. PICK i \in Id : /\ rows[i].client # NoClient
                            /\ d = [client |-> rows[i].client, msg |-> rows[i].msg]
        BY <3>4 DEF Owed
      <4>2. rows[i].msg = m
        BY <3>2, <4>1
      <4>3. rows[i].msg # NoMsg
        BY <4>1, Numbers DEF PInv, HInv
      <4> QED BY <4>2, <4>3
    <3> QED BY <3>3, <3>4
  <2> QED BY <2>2, <2>3
<1> QED BY <1>3, <1>7, <1>8, <1>9, <1>10

(* A PUBLISH that is survived. *)
LEMMA Published ==
  ASSUME PInv, NEW f \in Fd, NEW t \in Topic, NEW q \in QoS, Publish(f, t, q), ~Die
  PROVE  /\ FannedOut(posted + 1, q)
         /\ posted' = posted + 1 /\ posted + 1 \in Msg
         /\ UNCHANGED <<up, sessions>>
         /\ \A i \in Id : rows[i].msg # posted + 1
<1>0. PICK h \in Heard(t) : PublishAs(f, h, q)
  BY DEF Publish
<1>1. ~SearchCrashes(trie, h)
  BY <1>0 DEF PublishAs
<1>2. posted + 1 \in Msg
  BY <1>0, BrokerAssumption DEF PInv, HInv, TypeOK, PublishAs, Msg
<1>3. FannedOut(posted + 1, q)
  <2>1. PICK answer \in Answers(trie, h) :
          \E ids \in [Takers(answer, q) -> Id] :
            /\ SessionPublishAdd(ids)
            /\ rows' = RowsAfter(ids, answer, q, posted + 1)
            /\ wire' = PacketsAfter(ids, answer, q, posted + 1)
    BY <1>0, <1>1 DEF PublishAs
  <2>2. IsAnswer(answer)
    BY AnswersAre DEF PInv, HInv, TypeOK, TrieTypeOK
  <2> QED BY <1>2, <2>1, <2>2 DEF FannedOut
<1>4. \A i \in Id : rows[i].msg # posted + 1
  BY Numbers DEF PInv, HInv, Numbered
<1> QED BY <1>0, <1>1, <1>2, <1>3, <1>4 DEF PublishAs

(* A close that is survived: its will goes out, if there is one. *)
LEMMA Closed ==
  ASSUME PInv, NEW f \in Fd, HasSession(f), SessionClose(f), ~Die
  PROVE  \E n \in DOMAIN sessions :
           /\ FannedOut(WillMsg(n), sessions[n].will.qos)
           /\ sessions' = RemoveAt(sessions, n)
           /\ UNCHANGED <<up, posted>>
           /\ \A i \in Id : rows[i].msg # NoMsg => rows[i].msg # WillMsg(n)
<1>1. PICK n \in DOMAIN sessions :
        /\ sessions' = RemoveAt(sessions, n)
        /\ UNCHANGED <<up, posted>>
        /\ \E answer \in WillsAnswers(sessions[n]) :
             \E ids \in [Takers(answer, sessions[n].will.qos) -> Id] :
               /\ SessionPublishAdd(ids)
               /\ rows' = RowsAfter(ids, answer, sessions[n].will.qos,
                                    sessions[n].will.msg)
               /\ wire' = WithoutFd(
                    PacketsAfter(ids, answer, sessions[n].will.qos,
                                 sessions[n].will.msg), f)
  BY ClosedSession DEF PInv, HInv
<1>2. PICK s : s = sessions[n]
  OBVIOUS
<1>3. s \in Session
  BY <1>2 DEF PInv, HInv, TypeOK
<1>4. PICK answer \in WillsAnswers(s) :
        \E ids \in [Takers(answer, s.will.qos) -> Id] :
          /\ SessionPublishAdd(ids)
          /\ rows' = RowsAfter(ids, answer, s.will.qos, s.will.msg)
          /\ wire' = WithoutFd(PacketsAfter(ids, answer, s.will.qos, s.will.msg), f)
  BY <1>1, <1>2
<1>5. IsAnswer(answer) /\ (DOMAIN answer # {} => s.will.msg \in Msg)
  BY <1>3, <1>4, WillAnswersAre DEF PInv, HInv
<1>6. FannedOut(s.will.msg, s.will.qos)
  BY <1>4, <1>5 DEF FannedOut, WithoutFd
<1>7. \A i \in Id : rows[i].msg # NoMsg => rows[i].msg # WillMsg(n)
  BY DEF PInv, Numbered
<1> QED BY <1>1, <1>2, <1>6, <1>7 DEF WillMsg

LEMMA NumberedPublish ==
  ASSUME PInv, Orderly, Room, NEW f \in Fd, NEW t \in Topic, NEW q \in QoS,
         Publish(f, t, q)
  PROVE  Numbered'
<1>1. CASE Die
  BY <1>1, NumberedUnchanged DEF Die, PInv
<1>2. CASE ~Die
  <2> DEFINE m == posted + 1
  <2>1. /\ FannedOut(m, q) /\ posted' = m /\ m \in Msg /\ sessions' = sessions
        /\ \A i \in Id : rows[i].msg # m
    BY <1>2, Published
  <2>2. posted \in Nat /\ (\A i \in Id : rows[i].msg \in Nat)
        /\ (\A s \in DOMAIN sessions : WillMsg(s) \in Nat)
    BY Numbers DEF PInv, HInv
  <2>3. /\ \A i \in Id : rows'[i] = rows[i] \/ rows'[i].msg = m
        /\ \A i, j \in Id :
              /\ rows'[i].msg # NoMsg /\ rows'[i].msg = rows'[j].msg
              /\ rows'[i].client = rows'[j].client
              => i = j
    <3> HIDE DEF m
    <3> QED BY <2>1, FanOutRows
  <2>4. \A i \in Id : rows'[i].msg <= posted'
    BY <2>1, <2>2, <2>3 DEF PInv, Numbered
  <2>5. \A s \in DOMAIN sessions' : (WillMsg(s))' = WillMsg(s) /\ WillMsg(s) < m
    BY <2>1, <2>2 DEF PInv, Numbered, WillMsg
  <2>6. ASSUME NEW i \in Id, NEW s \in DOMAIN sessions', rows'[i].msg # NoMsg
        PROVE  rows'[i].msg # (WillMsg(s))'
    BY <2>1, <2>2, <2>3, <2>5, <2>6 DEF PInv, Numbered
  <2>7. \A s \in DOMAIN sessions' : (WillMsg(s))' <= posted'
    BY <2>1, <2>2, <2>5
  <2>8. \A r, s \in DOMAIN sessions' :
          (WillMsg(r))' # NoMsg /\ (WillMsg(r))' = (WillMsg(s))' => r = s
    BY <2>1, <2>5 DEF PInv, Numbered
  <2> QED BY <2>3, <2>4, <2>6, <2>7, <2>8 DEF Numbered
<1> QED BY <1>1, <1>2

LEMMA NumberedSessionClose ==
  ASSUME PInv, Orderly, Room, NEW f \in Fd, HasSession(f), SessionClose(f)
  PROVE  Numbered'
<1>1. CASE Die
  BY <1>1, NumberedUnchanged DEF Die, PInv
<1>2. CASE ~Die
  <2>1. PICK n \in DOMAIN sessions :
          /\ FannedOut(WillMsg(n), sessions[n].will.qos)
          /\ sessions' = RemoveAt(sessions, n)
          /\ posted' = posted
          /\ \A i \in Id : rows[i].msg # NoMsg => rows[i].msg # WillMsg(n)
    BY <1>2, Closed
  <2>2. PICK m : m = WillMsg(n)
    OBVIOUS
  <2>3. PICK q : q = sessions[n].will.qos
    OBVIOUS
  <2>4. posted \in Nat /\ (\A i \in Id : rows[i].msg \in Nat)
        /\ (\A s \in DOMAIN sessions : WillMsg(s) \in Nat)
    BY Numbers DEF PInv, HInv
  <2>5. /\ \A i \in Id : rows'[i] = rows[i] \/ (rows'[i].msg = m /\ m \in Msg)
        /\ \A i, j \in Id :
              /\ rows'[i].msg # NoMsg /\ rows'[i].msg = rows'[j].msg
              /\ rows'[i].client = rows'[j].client
              => i = j
    <3>1. FannedOut(m, q) /\ \A i \in Id : rows[i].msg # NoMsg => rows[i].msg # m
      BY <2>1, <2>2, <2>3
    <3> QED BY <3>1, FanOutRows
  <2>6. m <= posted /\ m \in Nat
    BY <2>2, <2>4 DEF PInv, Numbered
  <2>7. \A i \in Id : rows'[i].msg <= posted'
    BY <2>1, <2>4, <2>5, <2>6 DEF PInv, Numbered
  <2>8. sessions \in Seq(Session) /\ Len(sessions) \in Nat /\ DOMAIN sessions = 1..Len(sessions)
    BY DEF PInv, HInv, TypeOK
  <2>9. /\ Len(sessions') = Len(sessions) - 1 /\ sessions' \in Seq(Session)
        /\ \A s \in 1..(Len(sessions) - 1) :
             sessions'[s] = IF s < n THEN sessions[s] ELSE sessions[s + 1]
    BY <2>1, <2>8, RemoveAtProperties
  <2> DEFINE old(s) == IF s < n THEN s ELSE s + 1
  <2>10. ASSUME NEW s \in DOMAIN sessions'
         PROVE  /\ old(s) \in DOMAIN sessions /\ old(s) # n
                /\ (WillMsg(s))' = WillMsg(old(s))
    <3>1. s \in 1..(Len(sessions) - 1)
      BY <2>8, <2>9
    <3>2. CASE s < n
      BY <2>8, <2>9, <3>1, <3>2 DEF WillMsg
    <3>3. CASE ~(s < n)
      BY <2>8, <2>9, <3>1, <3>3 DEF WillMsg
    <3> QED BY <3>2, <3>3
  <2>11. \A r, s \in DOMAIN sessions' : old(r) = old(s) => r = s
    BY <2>8, <2>9
  <2> HIDE DEF old
  <2>12. \A s \in DOMAIN sessions' : (WillMsg(s))' <= posted'
    BY <2>1, <2>10 DEF PInv, Numbered
  <2>13. ASSUME NEW r \in DOMAIN sessions', NEW s \in DOMAIN sessions',
                (WillMsg(r))' # NoMsg, (WillMsg(r))' = (WillMsg(s))'
         PROVE  r = s
    <3>1. old(r) = old(s)
      BY <2>10, <2>13 DEF PInv, Numbered
    <3> QED BY <2>11, <3>1
  <2>14. ASSUME NEW i \in Id, NEW s \in DOMAIN sessions', rows'[i].msg # NoMsg
         PROVE  rows'[i].msg # (WillMsg(s))'
    <3>1. CASE rows'[i] = rows[i]
      BY <2>10, <2>14, <3>1 DEF PInv, Numbered
    <3>2. CASE rows'[i].msg = m
      BY <2>2, <2>10, <2>14, <3>2 DEF PInv, Numbered
    <3> QED BY <2>5, <3>1, <3>2
  <2> QED BY <2>5, <2>7, <2>12, <2>13, <2>14 DEF Numbered
<1> QED BY <1>1, <1>2

LEMMA NumberedNext ==
  ASSUME Orderly, Room, PInv, [Next]_vars
  PROVE  Numbered'
<1>1. CASE UNCHANGED <<rows, posted, sessions>>
  BY <1>1, NumberedUnchanged DEF PInv
<1>2. ASSUME NEW c \in Client, Accept(c)
      PROVE  Numbered'
  BY <1>1, <1>2 DEF Accept
<1>3. ASSUME NEW f \in Fd, NEW clean \in CleanFlags, Connect(f, clean)
      PROVE  Numbered'
  BY <1>3, NumberedConnect
<1>4. ASSUME NEW f \in Fd, DropConnection(f)
      PROVE  Numbered'
  BY <1>1, <1>4 DEF DropConnection
<1>5. ASSUME NEW f \in Fd, Refuse(f) \/ NotConnected(f)
      PROVE  Numbered'
  BY <1>4, <1>5 DEF Refuse, NotConnected
<1>6. ASSUME NEW f \in Fd, NEW t \in Topic, NEW q \in QoS, Publish(f, t, q)
      PROVE  Numbered'
  BY <1>6, NumberedPublish
<1>7. ASSUME NEW f \in Fd, NEW k \in DOMAIN Filters, NEW q \in QoS, Subscribe(f, k, q)
      PROVE  Numbered'
  <2>1. PICK s : s = SessionOn(f)
    OBVIOUS
  <2>2. s \in DOMAIN sessions
    BY <1>7, <2>1, SessionOnFound DEF Subscribe, PInv, HInv, TypeOK
  <2>3. sessions' = [sessions EXCEPT ![s].topics = sessions[s].topics \cup {k}]
    BY <1>7, <2>1 DEF Subscribe
  <2> QED BY <1>7, <2>2, <2>3, NumberedTopics DEF Subscribe, PInv, HInv
<1>8. ASSUME NEW f \in Fd, NEW k \in DOMAIN Filters, Unsubscribe(f, k)
      PROVE  Numbered'
  <2>1. CASE DeleteCrashes(trie, Filters[k])
    BY <1>1, <1>8, <2>1 DEF Unsubscribe, Die
  <2>2. CASE ~DeleteCrashes(trie, Filters[k])
    <3>1. PICK s : s = SessionOn(f)
      OBVIOUS
    <3>2. s \in DOMAIN sessions
      BY <1>8, <3>1, SessionOnFound DEF Unsubscribe, PInv, HInv, TypeOK
    <3>3. sessions' = [sessions EXCEPT ![s].topics = sessions[s].topics \ {k}]
      BY <1>8, <2>2, <3>1 DEF Unsubscribe
    <3> QED BY <1>8, <2>2, <3>2, <3>3, NumberedTopics DEF Unsubscribe, PInv, HInv
  <2> QED BY <2>1, <2>2
<1>9. ASSUME NEW f \in Fd, Disconnect(f) \/ Hangup(f)
      PROVE  Numbered'
  BY <1>4, <1>9, NumberedSessionClose DEF Disconnect, Hangup
<1>10. ASSUME NEW p \in wire, PubAck(p) \/ PubRec(p)
       PROVE  Numbered'
  BY <1>10, NumberedAcknowledge DEF PubAck, PubRec
<1>11. CASE UNCHANGED vars
  BY <1>1, <1>11 DEF vars
<1> QED BY <1>2, <1>3, <1>5, <1>6, <1>7, <1>8, <1>9, <1>10, <1>11 DEF Next

LEMMA NumberedThroughout ==
  ASSUME Orderly
  PROVE  Spec /\ []Room => []PInv
<1>1. Init => PInv
  BY HInit, NumberedInit DEF PInv
<1>2. PInv /\ Room /\ [Next]_vars => PInv'
  <2> SUFFICES ASSUME PInv, Room, [Next]_vars
               PROVE  PInv'
    OBVIOUS
  <2>1. HInv'
    BY HNext DEF PInv
  <2>2. Numbered'
    BY NumberedNext
  <2> QED BY <2>1, <2>2 DEF PInv
<1> QED BY <1>1, <1>2, PTL DEF Spec

----------------------------------------------------------------------------
(* The refinement, step by step.                                           *)

(* What is in hand is owed: packets in flight have their rows.             *)
LEMMA InHandIsOwed ==
  ASSUME PInv, NEW p \in wire
  PROVE  /\ DebtOf(p) = DebtOf(rows[p.id])
         /\ DebtOf(p) \in Owed /\ p.id \in Id /\ p.client \in Client
<1>1. p \in Packet /\ p.id \in Id /\ p.client \in Client /\ p.client # NoClient
  BY BrokerAssumption DEF PInv, HInv, TypeOK, Packet, NoClient
<1>2. rows[p.id].client = p.client /\ rows[p.id].msg = p.msg
  BY DEF PInv, HInv, Held
<1> QED BY <1>1, <1>2 DEF Owed, DebtOf

LEMMA PromiseInit == Init => Promise!Init
BY DEF Init, Promise!Init, Owed, FreshRow, NoClient

(* Nothing is posted, owed, settled or lost. *)
LEMMA PromiseStutters ==
  ASSUME UNCHANGED <<up, rows, wire>>
  PROVE  UNCHANGED Promise!vars
BY DEF Promise!vars, Owed

LEMMA PromiseDies ==
  ASSUME up, Die
  PROVE  Promise!Next
BY DEF Die, Promise!Next, Promise!Die, Owed

LEMMA PromiseLoses ==
  ASSUME up, UNCHANGED <<up, rows>>, wire' \subseteq wire
  PROVE  Promise!Next
<1>1. Promise!Lose
  BY DEF Promise!Lose, Owed
<1> QED BY <1>1 DEF Promise!Next

(* A fan-out posts its message. *)
LEMMA PromisePosts ==
  ASSUME PInv, Orderly, Room, up, UNCHANGED up, NEW m \in Msg, NEW q, FannedOut(m, q),
         \A i \in Id : rows[i].msg # m
  PROVE  Promise!Next
<1>1. /\ \E to \in SUBSET Client :
           Owed' = Owed \cup {[client |-> c, msg |-> m] : c \in to}
      /\ Hand' \subseteq Hand \cup (Owed' \ Owed)
  BY FanOutRows
<1>2. \A d \in Owed : d.msg # m
  BY DEF Owed
<1>3. \A d \in Hand : d.msg # m
  BY <1>2, InHandIsOwed DEF Hand
<1>4. Promise!Post
  BY <1>1, <1>2, <1>3 DEF Promise!Post, Hand, DebtOf
<1> QED BY <1>4 DEF Promise!Next

LEMMA PromisePublish ==
  ASSUME PInv, Orderly, Room, NEW f \in Fd, NEW t \in Topic, NEW q \in QoS,
         Publish(f, t, q)
  PROVE  Promise!Next
<1>1. up
  BY DEF Publish, PublishAs
<1>2. CASE Die
  BY <1>1, <1>2, PromiseDies
<1>3. CASE ~Die
  <2>1. /\ FannedOut(posted + 1, q) /\ posted + 1 \in Msg /\ UNCHANGED up
        /\ \A i \in Id : rows[i].msg # posted + 1
    BY <1>3, Published
  <2> QED BY <1>1, <2>1, PromisePosts
<1> QED BY <1>2, <1>3

(* A session that closes posts its will; what was on its connection is     *)
(* lost.                                                                   *)
LEMMA PromiseSessionClose ==
  ASSUME PInv, Orderly, Room, up, NEW f \in Fd, HasSession(f), SessionClose(f)
  PROVE  Promise!Next
<1>1. CASE Die
  BY <1>1, PromiseDies
<1>2. CASE ~Die
  <2>1. PICK n \in DOMAIN sessions :
          /\ FannedOut(WillMsg(n), sessions[n].will.qos)
          /\ UNCHANGED up
          /\ \A i \in Id : rows[i].msg # NoMsg => rows[i].msg # WillMsg(n)
    BY <1>2, Closed
  <2>2. WillMsg(n) \in Msg \cup {NoMsg}
    <3>1. sessions[n] \in Session
      BY DEF PInv, HInv, TypeOK
    <3> QED BY <3>1 DEF Session, Will, WillMsg
  <2>3. NoMsg \notin Msg
    BY DEF NoMsg, Msg
  <2>4. CASE WillMsg(n) \in Msg
    <3>1. \A i \in Id : rows[i].msg # WillMsg(n)
      BY <2>1, <2>3, <2>4
    <3> QED BY <2>1, <2>4, <3>1, PromisePosts
  <2>5. CASE WillMsg(n) = NoMsg
    <3>1. PICK answer : IsAnswer(answer) /\
            \E ids \in [Takers(answer, sessions[n].will.qos) -> Id] :
              /\ DOMAIN answer # {} => WillMsg(n) \in Msg
              /\ rows' = RowsAfter(ids, answer, sessions[n].will.qos, WillMsg(n))
              /\ wire' \subseteq PacketsAfter(ids, answer, sessions[n].will.qos, WillMsg(n))
      BY <2>1 DEF FannedOut
    <3>2. PICK ids \in [Takers(answer, sessions[n].will.qos) -> Id] :
              /\ DOMAIN answer # {} => WillMsg(n) \in Msg
              /\ rows' = RowsAfter(ids, answer, sessions[n].will.qos, WillMsg(n))
              /\ wire' \subseteq PacketsAfter(ids, answer, sessions[n].will.qos, WillMsg(n))
      BY <3>1
    <3>3. DOMAIN ids = {}
      BY <2>3, <2>5, <3>2 DEF Takers
    <3>4. wire' \subseteq wire
      BY <3>2, <3>3 DEF PacketsAfter
    <3>5. rows' = rows
      <4>1. rows \in [Id -> Row]
        BY DEF PInv, HInv, TypeOK
      <4>2. rows' = [i \in Id |-> rows[i]]
        BY <3>2, <3>3 DEF RowsAfter, Stored
      <4> QED BY <4>1, <4>2
    <3> QED BY <2>1, <3>4, <3>5, PromiseLoses
  <2> QED BY <2>2, <2>4, <2>5
<1> QED BY <1>1, <1>2

(* A CONNECT without clean_session has everything owed sent again. *)
LEMMA PromiseConnect ==
  ASSUME PInv, NEW f \in Fd, NEW clean \in CleanFlags, Connect(f, clean)
  PROVE  Promise!Next \/ UNCHANGED Promise!vars
<1>1. /\ up /\ UNCHANGED <<up, rows>> /\ peer[f] \in Client
      /\ wire' = IF clean THEN wire ELSE wire \cup Resent(f, peer[f])
  BY DEF Connect, AddSession, PInv, HInv, TypeOK
<1>2. CASE clean
  BY <1>1, <1>2, PromiseStutters
<1>3. CASE ~clean
  <2>1. Owed' = Owed
    BY <1>1 DEF Owed
  <2>2. {DebtOf(p) : p \in Resent(f, peer[f])} = {d \in Owed : d.client = peer[f]}
    <3>1. ASSUME NEW p \in Resent(f, peer[f])
          PROVE  DebtOf(p) \in Owed /\ DebtOf(p).client = peer[f]
      <4>1. PICK i \in Id :
              /\ rows[i].client = peer[f]
              /\ p = [fd |-> f, client |-> peer[f], id |-> i,
                      msg |-> rows[i].msg, qos |-> rows[i].qos]
        BY DEF Resent
      <4> QED BY <4>1 DEF Connect, DebtOf, Owed
    <3>2. ASSUME NEW d \in Owed, d.client = peer[f]
          PROVE  \E p \in Resent(f, peer[f]) : d = DebtOf(p)
      <4>1. PICK i \in Id : d = [client |-> rows[i].client, msg |-> rows[i].msg]
        BY DEF Owed
      <4>2. PICK p : p = [fd |-> f, client |-> peer[f], id |-> i,
                          msg |-> rows[i].msg, qos |-> rows[i].qos]
        OBVIOUS
      <4>3. rows[i].client = peer[f]
        BY <3>2, <4>1
      <4>4. p \in Resent(f, peer[f])
        BY <4>2, <4>3 DEF Resent
      <4>5. d = DebtOf(p)
        BY <4>1, <4>2, <4>3 DEF DebtOf
      <4> QED BY <4>4, <4>5
    <3> QED BY <3>1, <3>2
  <2>3. Hand' = Hand \cup {d \in Owed : d.client = peer[f]}
    BY <1>1, <1>3, <2>2 DEF Hand
  <2>4. PICK c \in Client : c = peer[f]
    BY <1>1
  <2>5. Promise!Resend(c)
    BY <2>1, <2>3, <2>4 DEF Promise!Resend, Hand, DebtOf
  <2>6. Promise!Next
    BY <1>1, <2>5 DEF Promise!Next
  <2> QED BY <2>6
<1> QED BY <1>2, <1>3

(* An acknowledgement settles the debt it is about, and no other. *)
LEMMA PromiseAcknowledge ==
  ASSUME PInv, NEW p \in wire, Acknowledge(p)
  PROVE  Promise!Next
<1>1. /\ p.id \in Id
      /\ rows' = [rows EXCEPT ![p.id] = [FreshRow EXCEPT !.payload = "freed"]]
      /\ wire' = wire \ {p} /\ UNCHANGED up /\ up
  BY AcksItsRow DEF PInv, Acknowledge
<1>2. rows \in [Id -> Row]
  BY DEF PInv, HInv, TypeOK
<1>3. /\ rows'[p.id].client = NoClient
      /\ \A i \in Id : i # p.id => rows'[i] = rows[i]
  BY <1>1, <1>2 DEF FreshRow
<1>4. DebtOf(p) = DebtOf(rows[p.id]) /\ DebtOf(p) \in Owed
  BY InHandIsOwed
<1>5. ASSUME NEW i \in Id, rows[i].client # NoClient, DebtOf(rows[i]) = DebtOf(p)
      PROVE  i = p.id
  <2>1. rows[i].msg = rows[p.id].msg /\ rows[i].client = rows[p.id].client
    BY <1>4, <1>5 DEF DebtOf
  <2>2. rows[i].msg # NoMsg
    BY <1>5, Numbers DEF PInv, HInv
  <2> QED BY <1>1, <2>1, <2>2 DEF PInv, Numbered
<1>6. Owed = {DebtOf(rows[i]) : i \in {j \in Id : rows[j].client # NoClient}}
  BY DEF Owed, DebtOf
<1>7. Owed' = {DebtOf(rows'[i]) : i \in {j \in Id : rows'[j].client # NoClient}}
  BY DEF Owed, DebtOf
<1>8. Owed' = Owed \ {DebtOf(p)}
  <2>1. ASSUME NEW d \in Owed'
        PROVE  d \in Owed /\ d # DebtOf(p)
    <3>1. PICK i \in Id : rows'[i].client # NoClient /\ d = DebtOf(rows'[i])
      BY <1>7
    <3>2. i # p.id /\ rows'[i] = rows[i]
      BY <1>3, <3>1
    <3> QED BY <1>5, <1>6, <3>1, <3>2
  <2>2. ASSUME NEW d \in Owed, d # DebtOf(p)
        PROVE  d \in Owed'
    <3>1. PICK i \in Id : rows[i].client # NoClient /\ d = DebtOf(rows[i])
      BY <1>6
    <3>2. i # p.id
      BY <1>4, <2>2, <3>1
    <3>3. rows'[i] = rows[i]
      BY <1>3, <3>2
    <3> QED BY <1>7, <3>1, <3>3
  <2> QED BY <2>1, <2>2
<1>9. Hand' = Hand \ {DebtOf(p)}
  <2>1. ASSUME NEW r \in wire, r # p
        PROVE  DebtOf(r) # DebtOf(p)
    <3>1. r.id \in Id /\ DebtOf(r) = DebtOf(rows[r.id]) /\ r.client \in Client
      BY InHandIsOwed
    <3>2. r.id # p.id
      BY <2>1, PacketsDiffer DEF PInv
    <3>3. rows[r.id].client # NoClient
      BY <3>1, BrokerAssumption DEF DebtOf, NoClient
    <3> QED BY <1>5, <3>1, <3>2, <3>3
  <2> QED BY <1>1, <2>1 DEF Hand
<1>10. DebtOf(p) \in Hand
  BY DEF Hand
<1>11. Promise!Settle(DebtOf(p))
  BY <1>4, <1>8, <1>9, <1>10 DEF Promise!Settle, Hand, DebtOf
<1> QED BY <1>1, <1>4, <1>11 DEF Promise!Next

LEMMA PromiseNext ==
  ASSUME Orderly, Room, PInv, [Next]_vars
  PROVE  Promise!Next \/ UNCHANGED Promise!vars
<1>1. ASSUME NEW c \in Client, Accept(c)
      PROVE  UNCHANGED Promise!vars
  BY <1>1, PromiseStutters DEF Accept
<1>2. ASSUME NEW f \in Fd, NEW clean \in CleanFlags, Connect(f, clean)
      PROVE  Promise!Next \/ UNCHANGED Promise!vars
  BY <1>2, PromiseConnect
<1>3. ASSUME NEW f \in Fd, up, DropConnection(f)
      PROVE  Promise!Next
  BY <1>3, PromiseLoses DEF DropConnection, WithoutFd
<1>4. ASSUME NEW f \in Fd, Refuse(f) \/ NotConnected(f)
      PROVE  Promise!Next
  BY <1>3, <1>4 DEF Refuse, NotConnected
<1>5. ASSUME NEW f \in Fd, NEW t \in Topic, NEW q \in QoS, Publish(f, t, q)
      PROVE  Promise!Next
  BY <1>5, PromisePublish
<1>6. ASSUME NEW f \in Fd, NEW k \in DOMAIN Filters, NEW q \in QoS, Subscribe(f, k, q)
      PROVE  UNCHANGED Promise!vars
  BY <1>6, PromiseStutters DEF Subscribe
<1>7. ASSUME NEW f \in Fd, NEW k \in DOMAIN Filters, Unsubscribe(f, k)
      PROVE  Promise!Next \/ UNCHANGED Promise!vars
  BY <1>7, PromiseStutters, PromiseDies DEF Unsubscribe
<1>8. ASSUME NEW f \in Fd, Disconnect(f) \/ Hangup(f)
      PROVE  Promise!Next
  BY <1>3, <1>8, PromiseSessionClose DEF Disconnect, Hangup
<1>9. ASSUME NEW p \in wire, PubAck(p) \/ PubRec(p)
      PROVE  Promise!Next
  BY <1>9, PromiseAcknowledge DEF PubAck, PubRec
<1>10. CASE UNCHANGED vars
  BY <1>10, PromiseStutters DEF vars
<1> QED BY <1>1, <1>2, <1>4, <1>5, <1>6, <1>7, <1>8, <1>9, <1>10 DEF Next

(* A message owed to a client stays owed until that client acknowledges    *)
(* this message: as long as there is room below 128 and clients keep to    *)
(* one connection with one CONNECT, session.c implements Delivery, however *)
(* connections end, wills go out and rows are reused.                      *)
THEOREM PromiseKept ==
  ASSUME Orderly
  PROVE  Spec /\ []Room => KeepsPromise
<1>1. Init => Promise!Init
  BY PromiseInit
<1>2. PInv /\ Room /\ [Next]_vars => [Promise!Next]_(Promise!vars)
  BY PromiseNext
<1> QED BY <1>1, <1>2, NumberedThroughout, PTL DEF Spec, KeepsPromise, Promise!Spec
=============================================================================

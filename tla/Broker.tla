------------------------------- MODULE Broker -------------------------------
(***************************************************************************)
(* The broker: event_handle (event.c) and session.c under the plain-text   *)
(* event loop of service_socket.c, over the trie of module Filtering and   *)
(* the identifier codec of module PacketId.                                *)
(*                                                                         *)
(* The program has one thread and finishes a packet before it reads the    *)
(* next, so one action is one packet (or one end of stream) and everything *)
(* its handler calls.  What interleaves is the clients: connections open,  *)
(* break and are reopened, descriptors are reused, acknowledgements arrive *)
(* late.  A NULL or freed pointer kills the process: `up' turns FALSE, the *)
(* rest of the state is left as it was, and nothing happens any more.      *)
(***************************************************************************)
EXTENDS Filtering, PacketId

CONSTANTS Client,       \* client identifiers: positive numbers in strcmp order
          MaxFd,        \* descriptors a connection can get: 1..MaxFd
          MaxId,        \* rows of session_packet_identifier in use; 65535 in the code
          MaxMsg,       \* bound: messages published, wills included
          MaxSessions,  \* bound: sessions at any one time
          Filters,      \* the filters clients use, as a sequence in strcmp order
          Topic,        \* the topics messages are published on
          QoS,          \* QoS values clients ask for
          WillTopic,    \* the topic of every will
          WillQoS,      \* QoS values clients ask for in a will; {}: no wills
          CleanFlags,   \* values of clean_session clients send
          Liberties     \* what clients do beyond the ordinary

(* "Overlap": a client opens a connection while the broker still has one   *)
(* of its connections (it lost it without a FIN, or two programs use one   *)
(* client identifier).  "ConnectAgain": a second CONNECT on a connection.  *)
(* "Share": a client subscribes to a filter another one is entered under.  *)
ASSUME BrokerAssumption ==
  /\ Client \subseteq Nat \ {0}
  /\ MaxFd \in Nat \ {0} /\ MaxId \in Nat \ {0}
  /\ MaxMsg \in Nat /\ MaxSessions \in Nat
  /\ Filters \in Seq(Seq(STRING)) /\ Topic \subseteq Seq(STRING)
  /\ WillTopic \in Seq(STRING)
  /\ QoS \subseteq 0..2 /\ WillQoS \subseteq 0..2
  /\ CleanFlags \subseteq BOOLEAN
  /\ Liberties \subseteq {"Overlap", "ConnectAgain", "Share"}

VARIABLES
  up,        \* FALSE once the process has died
  peer,      \* who is at the other end of each descriptor; NoClient: closed
  sessions,  \* both hash tables: the sessions, the newest first
  rows,      \* session_packet_identifier[1..MaxId]
  trie,      \* root and sys
  wire,      \* PUBLISHes with QoS > 0 sent and not yet acknowledged
  posted     \* messages numbered so far

vars == <<up, peer, sessions, rows, trie, wire, posted>>

NoClient == 0
NoMsg    == 0

Fd  == 1..MaxFd
Id  == 1..MaxId
Msg == 1..MaxMsg

(* A session's will, numbered at CONNECT; msg = NoMsg: there is none. *)
Will == [msg : Msg \cup {NoMsg}, qos : 0..1]

NoWill == [msg |-> NoMsg, qos |-> 0]

Session == [sock : Fd, client : Client, clean : BOOLEAN,
            will : Will, topics : SUBSET (DOMAIN Filters)]

(* A row is free when its client_id is NULL; its payload pointer outlives  *)
(* it: "none" before the first use, then "live" or, dangling, "freed".     *)
FreeRow == [client : {NoClient}, msg : {NoMsg}, qos : {0}, payload : {"none", "freed"}]
UsedRow == [client : Client, msg : Msg, qos : 1..2, payload : {"live"}]
Row == FreeRow \cup UsedRow

FreshRow == [client |-> NoClient, msg |-> NoMsg, qos |-> 0, payload |-> "none"]

(* A PUBLISH in flight: where it was written, for whom it was meant, the   *)
(* identifier session_publish_add returned, and the message.               *)
Packet == [fd : Fd, client : Client, id : Id, msg : Msg, qos : 1..2]

(* The labels trie nodes can have. *)
Labels == {"/"} \cup UNION {ToSet(Filters[k]) : k \in DOMAIN Filters}

TypeOK ==
  /\ up \in BOOLEAN
  /\ peer \in [Fd -> Client \cup {NoClient}]
  /\ sessions \in Seq(Session)
  /\ rows \in [Id -> Row]
  /\ trie.nodes \subseteq Seq(Labels) /\ trie.alloc \subseteq Seq(Labels)
  /\ trie.subs \subseteq [place : Seq(Labels), client : Client, qos : QoS]
  /\ wire \subseteq Packet
  /\ posted \in 0..MaxMsg

----------------------------------------------------------------------------
(* HASH_FIND on session_sock and session_client_id.  uthash adds at the    *)
(* head of a bucket: of several sessions with one key it finds the newest. *)
HasSession(f) == \E s \in DOMAIN sessions : sessions[s].sock = f

SessionOn(f) ==
  CHOOSE s \in DOMAIN sessions :
    sessions[s].sock = f /\ \A r \in 1..(s - 1) : sessions[r].sock # f

IsKnown(c) == \E s \in DOMAIN sessions : sessions[s].client = c

(* A mutant: the newest session, whoever's it is.                          *)
NewestSession(c) == 1

SessionOf(c) ==
  CHOOSE s \in DOMAIN sessions :
    sessions[s].client = c /\ \A r \in 1..(s - 1) : sessions[r].client # c

(* What is in flight on a connection is lost with it. *)
WithoutFd(packets, f) == {p \in packets : p.fd # f}

(* A NULL or dangling pointer was followed. *)
Die ==
  /\ up' = FALSE
  /\ UNCHANGED <<peer, sessions, rows, trie, wire, posted>>

----------------------------------------------------------------------------
(* The fan-out of a message, common to PUBLISH and publish_will_message:   *)
(* subscribers in strcmp order, the QoS lowered to what a subscriber was   *)
(* granted and never raised again for the ones after it.  (For a will,     *)
(* session.c:285 compares with the will's own QoS instead; that being 0 or *)
(* 1, the outcome is the same.)                                            *)
EffectiveQoS(answer, q, c) ==
  Min({q} \cup {answer[d] : d \in {e \in DOMAIN answer : e <= c}})

Takers(answer, q) == {c \in DOMAIN answer : EffectiveQoS(answer, q, c) > 0}

(* session_publish_add for one subscriber after the other: the lowest row  *)
(* that is free and was not just taken; with none left it stores nothing   *)
(* and returns the last identifier all the same.                           *)
(* A mutant: a row is taken whether it is free or not.                     *)
OpenRowsAny(ids, c) ==
  {i \in Id : \A d \in DOMAIN ids : d < c => ids[d] # i}

OpenRows(ids, c) ==
  {i \in Id : rows[i].client = NoClient /\
              \A d \in DOMAIN ids : d < c => ids[d] # i}

SessionPublishAdd(ids) ==
  \A c \in DOMAIN ids :
    LET open == OpenRows(ids, c)
    IN  IF open = {} THEN ids[c] = MaxId
        ELSE ids[c] \in open /\ \A i \in open : ids[c] <= i

Stored(ids) == {c \in DOMAIN ids : OpenRows(ids, c) # {}}

RowsAfter(ids, answer, q, m) ==
  [i \in Id |->
     IF \E c \in Stored(ids) : ids[c] = i
     THEN LET c == CHOOSE c \in Stored(ids) : ids[c] = i
          IN  [client |-> c, msg |-> m, payload |-> "live",
               qos |-> EffectiveQoS(answer, q, c)]
     ELSE rows[i]]

PacketsAfter(ids, answer, q, m) ==
  wire \cup {[fd |-> sessions[SessionOf(c)].sock, client |-> c, id |-> ids[c],
              msg |-> m, qos |-> EffectiveQoS(answer, q, c)] :
               c \in {d \in DOMAIN ids : IsKnown(d)}}

----------------------------------------------------------------------------
(* server_socket_loop: accept takes the lowest descriptor that is free. *)
Accept(c) ==
  /\ up
  /\ "Overlap" \in Liberties \/ \A f \in Fd : peer[f] # c
  /\ \E f \in Fd :
       /\ peer[f] = NoClient
       /\ \A g \in 1..(f - 1) : peer[g] # NoClient
       /\ peer' = [peer EXCEPT ![f] = c]
  /\ UNCHANGED <<up, sessions, rows, trie, wire, posted>>

(* What CONNECT with clean_session = 0 sends again: every row of this      *)
(* client_id.  Mutants: rows of other clients as well; rows of QoS 1 only; *)
(* none.                                                                   *)
ResentAnyones(f, c) ==
  {[fd |-> f, client |-> c, id |-> i, msg |-> rows[i].msg, qos |-> rows[i].qos] :
     i \in Id}

ResentOfQoS1(f, c) ==
  {[fd |-> f, client |-> c, id |-> i, msg |-> rows[i].msg, qos |-> rows[i].qos] :
     i \in {j \in Id : rows[j].client = c /\ rows[j].qos = 1}}

ResentNone(f, c) == {}

Resent(f, c) ==
  {[fd |-> f, client |-> c, id |-> i, msg |-> rows[i].msg, qos |-> rows[i].qos] :
     i \in {j \in Id : rows[j].client = c}}

(* CONNECT accepted: session_add, CONNACK, the rows of the client.         *)
(* session_add never finds the client's earlier session (it looks it up    *)
(* under the bytes of a struct, not of the client_id), so the branch that  *)
(* would take it over, here and in event_handle, is not reached.  The      *)
(* will's QoS keeps only its low bit.                                      *)
AddSession(f, clean, will) ==
  /\ sessions' = <<[sock |-> f, client |-> peer[f], clean |-> clean,
                   will |-> will, topics |-> {}]>> \o sessions
  /\ wire' = IF clean THEN wire ELSE wire \cup Resent(f, peer[f])

Connect(f, clean) ==
  /\ up
  /\ peer[f] # NoClient
  /\ "ConnectAgain" \in Liberties \/ ~HasSession(f)
  /\ Len(sessions) < MaxSessions
  /\ \/ AddSession(f, clean, NoWill) /\ UNCHANGED posted
     \/ /\ posted < MaxMsg
        /\ \E q \in WillQoS :
             AddSession(f, clean, [msg |-> posted + 1, qos |-> q % 2])
        /\ posted' = posted + 1
  /\ UNCHANGED <<up, peer, rows, trie>>

(* event_handle returned -1 and nothing called session_close: socket_close *)
(* alone, and what was in flight on the connection is lost.                *)
DropConnection(f) ==
  /\ peer' = [peer EXCEPT ![f] = NoClient]
  /\ wire' = WithoutFd(wire, f)
  /\ UNCHANGED <<up, sessions, rows, trie, posted>>

(* CONNECT refused: another protocol level, or the plugin's verdict.       *)
Refuse(f) ==
  /\ up
  /\ peer[f] # NoClient
  /\ "ConnectAgain" \in Liberties \/ ~HasSession(f)
  /\ DropConnection(f)

(* Any other packet on a connection without a session.                     *)
NotConnected(f) ==
  /\ up
  /\ peer[f] # NoClient
  /\ ~HasSession(f)
  /\ DropConnection(f)

(* PUBLISH: search, a row and a packet for each subscriber in turn; a      *)
(* subscriber without a session gets its row all the same.                 *)
PublishAs(f, heard, q) ==
  /\ up
  /\ peer[f] # NoClient /\ HasSession(f)
  /\ posted < MaxMsg
  /\ IF SearchCrashes(trie, heard) THEN Die
     ELSE /\ \E answer \in Answers(trie, heard) :
               \E ids \in [Takers(answer, q) -> Id] :
                 /\ SessionPublishAdd(ids)
                 /\ rows' = RowsAfter(ids, answer, q, posted + 1)
                 /\ wire' = PacketsAfter(ids, answer, q, posted + 1)
          /\ posted' = posted + 1
          /\ UNCHANGED <<up, peer, sessions, trie>>

Publish(f, t, q) == \E heard \in Heard(t) : PublishAs(f, heard, q)

(* session_publish_delete: whosever row it is.  The payload pointer is not *)
(* cleared: freeing it again is undefined (glibc aborts, or nothing is     *)
(* seen to happen), freeing the NULL of a row never used is fatal.         *)
(* A mutant: every row of the client goes.                                 *)
SessionPublishDeleteAll(i) ==
  /\ rows[i].payload = "live"
  /\ rows' = [j \in Id |-> IF rows[j].client = rows[i].client
                            THEN [FreshRow EXCEPT !.payload = "freed"]
                            ELSE rows[j]]
  /\ UNCHANGED up

SessionPublishDelete(i) ==
  \/ /\ rows[i].payload = "live"
     /\ rows' = [rows EXCEPT ![i] = [FreshRow EXCEPT !.payload = "freed"]]
     /\ UNCHANGED up
  \/ rows[i].payload = "freed" /\ UNCHANGED <<up, rows>>
  \/ rows[i].payload # "live" /\ up' = FALSE /\ UNCHANGED rows

Acknowledge(p) ==
  /\ up
  /\ HasSession(p.fd)
  /\ SessionPublishDelete(AckedId(p.id))
  /\ wire' = wire \ {p}
  /\ UNCHANGED <<peer, sessions, trie, posted>>

(* PUBACK, and PUBREC, whose row goes before the PUBREL is written.        *)
(* (PUBREL, PUBCOMP and PINGREQ change no state.)                          *)
PubAck(p) == p.qos = 1 /\ Acknowledge(p)
PubRec(p) == p.qos = 2 /\ Acknowledge(p)

(* SUBSCRIBE, one filter: the session's list and the trie.                 *)
EnteredAlone(k, c) ==
  \A e \in trie.subs : e.place = Place(Filters[k]) => e.client = c

Subscribe(f, k, q) ==
  /\ up
  /\ peer[f] # NoClient /\ HasSession(f)
  /\ LET s == SessionOn(f)
     IN  /\ "Share" \in Liberties \/ EnteredAlone(k, sessions[s].client)
         /\ sessions' = [sessions EXCEPT ![s].topics = @ \cup {k}]
         /\ trie' = Intercept(trie, Filters[k], q, sessions[s].client)
  /\ UNCHANGED <<up, peer, rows, wire, posted>>

(* UNSUBSCRIBE, one filter, held or not.                                   *)
Unsubscribe(f, k) ==
  /\ up
  /\ peer[f] # NoClient /\ HasSession(f)
  /\ IF DeleteCrashes(trie, Filters[k]) THEN Die
     ELSE LET s == SessionOn(f)
          IN  /\ sessions' = [sessions EXCEPT ![s].topics = @ \ {k}]
              /\ trie' = DeleteTopics(trie, {Filters[k]}, sessions[s].client)
              /\ UNCHANGED <<up, peer, rows, wire, posted>>

----------------------------------------------------------------------------
(* session_close, then socket_close: the will goes out while the session   *)
(* is still in the tables, then session_delete.                            *)

HasWill(s) == s.will.msg # NoMsg

(* publish_will_message writes to a subscriber's session unseen.           *)
WillCrashes(s, heard) ==
  /\ HasWill(s)
  /\ \/ SearchCrashes(trie, heard)
     \/ \E c \in ClientsOf(Gathered(trie, heard)) : ~IsKnown(c)

WillAnswers(s, heard) == IF HasWill(s) THEN Answers(trie, heard) ELSE {<<>>}

(* session_delete takes a clean session's filters out of the trie, in      *)
(* strcmp order; a persistent session leaves them there.                   *)
KeysOf(topics) == {Filters[k] : k \in topics}

DeletionCrashes(s) ==
  /\ s.clean
  /\ \E k \in s.topics :
       DeleteCrashes(
         DeleteTopics(trie, KeysOf({j \in s.topics : j < k}), s.client),
         Filters[k])

(* A mutant: a clean session's filters stay there as well.                 *)
TrieKept(s) == trie

TrieWithout(s) ==
  IF s.clean THEN DeleteTopics(trie, KeysOf(s.topics), s.client) ELSE trie

SessionClose(f) ==
  LET n == SessionOn(f)
      s == sessions[n]
  IN  \E heard \in Heard(WillTopic) :
      IF WillCrashes(s, heard) \/ DeletionCrashes(s) THEN Die
      ELSE /\ \E answer \in WillAnswers(s, heard) :
                \E ids \in [Takers(answer, s.will.qos) -> Id] :
                  /\ SessionPublishAdd(ids)
                  /\ rows' = RowsAfter(ids, answer, s.will.qos, s.will.msg)
                  /\ wire' = WithoutFd(
                        PacketsAfter(ids, answer, s.will.qos, s.will.msg), f)
           /\ trie' = TrieWithout(s)
           /\ sessions' = RemoveAt(sessions, n)
           /\ peer' = [peer EXCEPT ![f] = NoClient]
           /\ UNCHANGED <<up, posted>>

(* DISCONNECT: the will is published here as well.                         *)
Disconnect(f) ==
  /\ up
  /\ peer[f] # NoClient /\ HasSession(f)
  /\ SessionClose(f)

(* A mutant: the descriptor is closed and its session forgotten about.     *)
HangupUnseen(f) ==
  /\ up
  /\ peer[f] # NoClient
  /\ DropConnection(f)

(* End of stream or a read error, or a packet that cannot be decoded.      *)
Hangup(f) ==
  /\ up
  /\ peer[f] # NoClient
  /\ IF HasSession(f) THEN SessionClose(f) ELSE DropConnection(f)

----------------------------------------------------------------------------
Init ==
  /\ up = TRUE
  /\ peer = [f \in Fd |-> NoClient]
  /\ sessions = <<>>
  /\ rows = [i \in Id |-> FreshRow]
  /\ trie = EmptyTrie
  /\ wire = {}
  /\ posted = 0

Next ==
  \/ \E c \in Client : Accept(c)
  \/ \E f \in Fd :
       \/ \E clean \in CleanFlags : Connect(f, clean)
       \/ Refuse(f)
       \/ NotConnected(f)
       \/ \E t \in Topic, q \in QoS : Publish(f, t, q)
       \/ \E k \in DOMAIN Filters, q \in QoS : Subscribe(f, k, q)
       \/ \E k \in DOMAIN Filters : Unsubscribe(f, k)
       \/ Disconnect(f)
       \/ Hangup(f)
  \/ \E p \in wire : PubAck(p) \/ PubRec(p)

Spec == Init /\ [][Next]_vars

(* A client acknowledges what it has in hand, and the loop reads it: epoll *)
(* reports a socket as long as there is something to read.                 *)
AckedBy(c) == \E p \in wire : peer[p.fd] = c /\ (PubAck(p) \/ PubRec(p))

FairSpec == Spec /\ \A c \in Client : WF_vars(AckedBy(c))

----------------------------------------------------------------------------
(* A session belongs to the connection it was made on: its descriptor is   *)
(* open, its peer is the client, and no two sessions share one.  Every     *)
(* close of a descriptor has to close the session first                    *)
(* (service_socket.c:132, 152; event.c:47, 292), for the descriptor is     *)
(* given to the next client that connects.                                 *)
SocketOwned ==
  /\ \A s \in DOMAIN sessions : peer[sessions[s].sock] = sessions[s].client
  /\ \A r, s \in DOMAIN sessions : sessions[r].sock = sessions[s].sock => r = s

(* What is in flight on a connection was meant for the client at its other *)
(* end: no subscriber is handed what another subscribed to.                *)
Addressed == \A p \in wire : peer[p.fd] = p.client

(* The identifier of a PUBLISH in flight is still the row of that message: *)
(* its acknowledgement will free the row it is about (event.c:209 and 226  *)
(* do not look whose row it is).                                           *)
HeldRow ==
  \A p \in wire :
    LET row == rows[AckedId(p.id)]
    IN  row.client = p.client /\ row.msg = p.msg /\ row.qos = p.qos

(* Every row of a client with a persistent session is in flight on that    *)
(* session's connection: published while it is there, or sent again by its *)
(* CONNECT (event.c:69); nothing waits for a wake-up that never comes.     *)
CaughtUp ==
  \A s \in DOMAIN sessions : ~sessions[s].clean =>
    \A i \in Id : rows[i].client = sessions[s].client =>
      \E p \in wire : p.fd = sessions[s].sock /\ p.id = i

(* What a session lists, the trie has (session.c:196, filtering.c:158).    *)
Backed ==
  \A s \in DOMAIN sessions : \A k \in sessions[s].topics :
    \E e \in trie.subs :
      e.place = Place(Filters[k]) /\ e.client = sessions[s].client

(* Where clients only ask for clean sessions, the trie has nothing but     *)
(* what live sessions list: nobody's subscription outlives its session     *)
(* (session_delete), however the session ended.  It holds as long as no    *)
(* two clients subscribe to one filter, and fails when they do: the run    *)
(* `residue' has the trace.                                                *)
NoResidue ==
  \A e \in trie.subs : \E s \in DOMAIN sessions :
    /\ sessions[s].client = e.client
    /\ \E k \in sessions[s].topics : Place(Filters[k]) = e.place

(* Acknowledged delivery as the subscribers see it. *)
Owed == {[client |-> rows[i].client, msg |-> rows[i].msg] :
           i \in {j \in Id : rows[j].client # NoClient}}

Promise == INSTANCE Delivery
             WITH owed <- Owed,
                  inHand <- {[client |-> p.client, msg |-> p.msg] : p \in wire}

(* A message owed to a client stays owed until that client acknowledges    *)
(* this message: rows are not lost, overwritten or freed by others.        *)
KeepsPromise == Promise!Spec

(* A client whose persistent session stays gets, and settles, everything   *)
(* owed to it.                                                             *)
Online(c) ==
  /\ up
  /\ \E s \in DOMAIN sessions : sessions[s].client = c /\ ~sessions[s].clean

Drains ==
  \A c \in Client :
    <>[]Online(c) => <>[](\A i \in Id : rows[i].client # c)

----------------------------------------------------------------------------
(* event.c:128 turns away a connection that has not sent CONNECT: a new    *)
(* connection starts without a session.                                    *)
ConnectFirst ==
  [][\A f \in Fd : peer[f] = NoClient /\ peer'[f] # NoClient
       => ~\E s \in DOMAIN sessions' : sessions'[s].sock = f]_vars

(* README.md:5 has the broker support MQTT 3.1.1: publishing a will is not *)
(* the end of the broker, whoever subscribed to its topic.                 *)
WillSurvives ==
  \A s \in DOMAIN sessions : \A heard \in Heard(WillTopic) :
    ~WillCrashes(sessions[s], heard)
=============================================================================

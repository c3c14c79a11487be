# A TLA+ model of dauntless

dauntless is a small MQTT 3.1.1 broker in C: one process, one thread, one
`epoll` loop. This directory holds TLA+ modules translated from its source, TLC
configurations that check them on small instances, and TLAPS proofs of the
properties that can be proved for every instance. Paths such as `event.c` are
relative to `src/src/`, `uthash.h` and `iniparser.c` to `src/3rd/`.
`PROJECT.json` maps every definition to the lines it models.

## 1. The system

| Component | Source | State | Operations |
|---|---|---|---|
| Subscription trie | `filtering.c`, `filtering.h` | the globals `root` and `sys`: nodes in uthash tables, and three kinds of `UT_array` of subscribers (a node's own, its `#` array, the root's `#` array), each NULL until first used | `intercept` (subscribe), `search` (who gets a topic), `delete_topic` (unsubscribe), with `deduplication`, `delete_node`, `delete_client_id` |
| Sessions | `session.c`, `session.h` | every session in two hash tables, `session_sock` by descriptor and `session_client_id` by client; a session has its will, its `clean_session` flag and the list of its filters | `session_add`, `session_close` (publishes the will, then `session_delete`), `session_subscribe_topic`, `session_unsubscribe_topic`, `session_delete_all` on exit |
| In-flight table | `session.c` | `session_packet_identifier[65536]`: a row for each message with QoS > 0 and each of its subscribers, until acknowledged; its index is the packet identifier | `session_publish_add`, `session_publish_delete` |
| Packet handler | `event.c` | none of its own; calls all of the above | `event_handle`, a branch for each packet type |
| Event loop | `service_socket.c` | the epoll set, a buffer of 128 bytes | accept, read, cut into packets, `socket_close` |
| TLS loop | `service_socket_tls.c` | the same, with a `SocketData` and an SSL object per connection | the same, with a handshake and a good-bye |
| Codec | `mqtt_decode.c`, `mqtt_encode.c` | static buffers | one function per packet type; `ML_encode`, `string_len`, `hex_to_string` |
| Start-up | `main.c`, `config.c`, `service.c` | `struct config` | command line, configuration file, sockets, SIGINT handlers |
| Plugin | `plugin.c` and a shared object | handles of `dlopen` | hooks on CONNECT, SUBSCRIBE, PUBLISH |
| Configuration parser | `iniparser.c`, `dictionary.c` | a dictionary in three parallel arrays | `iniparser_load`, `iniparser_getstring`, `_getint`, `_getboolean` |
| Hash table | `uthash.h` | buckets of doubly linked chains, a doubly linked list through all elements | `HASH_ADD`, `HASH_FIND`, `HASH_DELETE`, `HASH_ITER`, bucket expansion |
| Other vendored code | `utarray.h`, `log.c`, ... | | |

**How they interact.** `main` reads the configuration files the command line
names, loads the plugin and starts one of the two loops. The loop reads from a
descriptor and calls `event_handle`, which finds the session of that descriptor
and calls the trie and the in-flight table. A PUBLISH goes `search` -> for each
subscriber in turn `session_publish_add` and a `write` to the session found
under its client identifier. The end of a connection goes the same way for the
will, then through the session's filters to `delete_topic`. Three things are
shared and held together by convention only: a *descriptor* is known to the
kernel, to a session and to messages in flight; a *filter* is in a session's
list and in the trie; a *message* is in a row and on a connection. Most of the
properties of the broker are about those three pairs.

**What is hard here.** There is one thread, so handlers do not interleave; the
clients do. Connections break without warning and are reopened, descriptors
are reused at once, acknowledgements arrive after reconnects, subscribers come
and go on trie nodes others depend on, TCP cuts and joins packets, a peer that
does not read stops the loop. The code has no error path for a NULL pointer, a
broken pipe or a length that does not fit: many mistakes end the process, and
the models keep that (`up`, `how`, `"crash"`).

**What makes each component correct.**

* Trie: nodes and arrays hang together; nobody's subscription changes by what
  others do; nodes go when the last entry under them goes; a search answers from
  the entries that are there.
* Sessions: a session's descriptor is open with its client at the other end;
  what a session lists is in the trie; nothing of a clean session outlives it
  (not so where clients share a filter: section 4).
* In-flight table: a row is freed by the acknowledgement of its own message and
  by nothing else (below 128, that is); what is owed to a client that is there is on its way to it;
  a row comes back in the end.
* Loops and handler: a descriptor is never closed with its session left behind;
  only a connection that sent CONNECT is served; packets are acted on once, in
  order; a client that has sent something is served.
* Codec: what is stored, relayed and answered is what was sent.
* Hash table: links and counts agree; a key that is there is found.
* Configuration: what serves is what the last file says.

## 2. The modules

```
 Filtering (operators) --+-- TopicTrie ---- MCTopicTrie, TrieProofs   refines Subscriptions
                         +-- Broker ------- MCBroker                  refines Delivery
 PacketId  (operators) --+      +-- BrokerProofs
                         +-- IdsInUse
                                +--- Wire - MCWire, WireProofs        refines IdsInUse
 Dedup      deduplication, which Filtering takes as one step;  DedupProofs
 Lookup     bsearch in what it leaves, another step there;     MCDedup has both
 Loop       the event loops under which Broker runs -------- MCLoop, LoopProofs
 ExactlyOnce  the QoS 2 handshakes from publisher to subscriber; ExactlyOnceProofs
 UtHash     the tables sessions and trie nodes are in ------ MCUtHash, UtHashProofs  refines OrderedTable
 Dictionary -- IniFile -- Startup -------------------------- MCStartup, StartupProofs
```

The modules overlap on purpose: `Broker` takes packets as whole and hash lookups
as "the newest"; `Loop`, `Wire` and `UtHash` say how far that is so. Identifiers
go through `PacketId` in `Broker` and in `ExactlyOnce`, both ways.

### Filtering, TopicTrie, Subscriptions: the trie

`Filtering` has one operator per function of `filtering.c`, on one value with
three parts: the *nodes* (a node is the path of hash keys that leads to it), the
*allocated* arrays (the emptied ones, which stay until their node is dropped,
differ from those that never existed) and the *entries*. `Place` is the walk
over a key, with its treatment of empty levels; `Intercept`, `Scanned` and
`DeleteTopics` are the three operations; `DeleteCrashes` and `SearchCrashes` say
when a NULL pointer is followed. `SearchCrashes` rests on what module `Dedup`
shows about the loop of `deduplication`. The order in which a search gathers
the arrays is left out: of two entries of one client, `Answers` allows either to
be the one that stays. On adding to an array the earlier entry stays, because
glibc's `qsort` is a merge sort, hence stable, at these sizes; with a C library
whose `qsort` is not, either might.

`TopicTrie` lets clients use the three operations in any order.
`Subscriptions` is what they amount to: a table of grants, no trie. It
leaves open whether `a/#` covers the topic `a` (the code decides it by whether
`a`'s own array was ever allocated, `filtering.c:352`) and allows the process to
die on two occasions: a search with two or more surplus entries, and giving up a
filter that is not held. The refinement mapping reads the grants off the arrays.
It assumes that no two of the filters in use make the same walk (`//a` and `/a`
do): see `FilterAssumption`.

Two more things that the code does and that reach far:

* **Entries a deletion misses.** `delete_client_id` and `delete_topic` look an
  entry up with `utarray_find`, that is `bsearch(key, ...)`, which hands the
  comparison the key first; `struct_str_sort` takes it second (`filtering.c:40`).
  After the first probe the search goes on in the wrong half. `Lookup` is the
  loop of `bsearch`, and the run `dedup` shows what `Filtering!Found` says: only the
  entry in the middle of the array is found. Of two subscribers to a filter the smaller
  cannot give it up; its entry, and the nodes on the way to it, stay.
  `Subscriptions` has this as a liberty: a grant may outlive its being given up
  where another client holds the filter too.
* **Levels that are read on.** `search` copies every level but the first into a
  block of exactly its length, without a terminator (`filtering.c:339`), so that
  what `HASH_FIND_STR` looks for may go on in the bytes behind it. `Misread` says
  what may be read for a level (`ReadAs`, `Heard`): a topic is searched for as it
  was heard, which may be another filter's topic, or nobody's.

A *first* level is copied into such a block too, with a terminator one byte
behind it (`filtering.c:464, 473`). What that byte hits is not modelled: first
levels are assumed to be of other lengths than the blocks `malloc` hands out.

### Dedup, Lookup: the loops of `deduplication` and `utarray_find`

One iteration a step. The loop compares each entry with the last one it kept
and erases at the number of entries visited, which runs ahead of the array as
it shrinks. It starts from every sorted array up to the bounds. In `MCDedup` a
client is then looked for in what is left, one probe of `Lookup` a step.

### PacketId, IdsInUse, Wire: the codec

`ML_encode` writes a number as a variable-length integer over two bytes whose
roles overlap, `string_len` reads it from the other end (`PacketId`). `IdsInUse`
passes every identifier that `session_publish_add` can hand out through both.
`Base` is 128 in the code; it is a parameter so that all combinations of digits
fit into a run.

`Wire` goes through a packet at a time. The client sends a legal packet, laid
out as MQTT 3.1.1 says; `got` is what the decoder makes of its bytes, `replies`
what is written back, `relayed` what is written to a subscriber of a PUBLISH,
which the subscriber takes apart in turn (`Received`). A string of n bytes is
`Fill(n)`; a zero byte matters in payloads only, which `strcpy` cuts. A read
past the buffer, and a payload whose end is looked for behind its memory
(`ended`), are nondeterministic. `Wire` extends `IdsInUse`: the identifiers of
the PUBLISHes it relays are those rows. Illegal packets, and the bits of type
bytes, are left out.

### Broker, Delivery: sessions, rows and connections

| Variable | Code |
|---|---|
| `up` | the process is alive |
| `peer` | who is at the other end of each descriptor (the kernel's and the clients' view) |
| `sessions` | both hash tables, as one sequence, the newest first: of several under one key `HASH_FIND` returns the newest, for those added since the buckets were last expanded (`UtHash!NewestSince`; an expansion takes ten elements in one bucket) |
| `rows` | `session_packet_identifier`: client, message, QoS, and whether `payload` is NULL, valid or dangling |
| `trie` | `root` and `sys`, as in `Filtering` |
| `wire` | PUBLISHes with QoS > 0 written and not yet acknowledged, each with the descriptor it went to and the client it was for |
| `posted` | numbers messages, so that properties can tell them apart |

| Action | Code |
|---|---|
| `Accept` | `server_socket_loop`, accept: the lowest free descriptor |
| `Connect` | CONNECT accepted: `session_add`, rows sent again when not clean (`event.c:52-117`) |
| `Refuse` | CONNECT refused by protocol level or plugin |
| `NotConnected` | any other packet on a descriptor without a session |
| `Publish` | PUBLISH: search, then row and packet for each subscriber |
| `PubAck`, `PubRec` | free the row the identifier names |
| `Subscribe`, `Unsubscribe` | the session's list and the trie, for one filter |
| `Disconnect`, `Hangup` | will, filters out of the trie, session out of the tables, descriptor closed |

An action is a whole handler. SUBSCRIBE and UNSUBSCRIBE may carry several
filters; one filter an action assumes less atomicity and allows more
interleavings than the code. PUBREL, PUBCOMP and PINGREQ change no state, a
SUBSCRIBE the plugin refuses neither: they are stuttering steps. QoS 0 packets
leave no trace after the write and are not kept.

Three oddities of the code that the model has, and a reader might take for
mistakes of the model:

* `session_add` looks the client up under the bytes of the `mqtt_string` struct
  rather than its characters (`session.c:100`). It never finds an earlier
  session, so the take-over branches (`session.c:101-137`, `event.c:100-114`)
  are unreachable and are not modelled; a client may have several sessions.
* The QoS of a message is lowered to what each subscriber was granted, in the
  order of client identifiers, and never raised again (`EffectiveQoS`).
* A will's QoS keeps only its low bit: `a * 2 + b & 1` is `(a * 2 + b) & 1`
  (`session.c:131, 164`).

Where the C program is undefined the model is nondeterministic: freeing a
dangling `payload` again may kill the process or go unnoticed.

`Delivery` is what acknowledged delivery promises, in terms of debts: a message
owed to a client stays owed until that client, with the message in hand,
acknowledges it; a copy in hand is one that was sent. The mapping takes the
used rows as the debts and the packets in flight as the copies.

**Clients** in the model acknowledge each copy of a message at most once, send
one CONNECT per connection and have one connection at a time, unless
`Liberties` says otherwise: `"Overlap"` lets a client connect while the broker
still has its earlier connection, `"ConnectAgain"` lets it send a second
CONNECT. `"Share"` is no misbehaviour: a client subscribes to a filter another one
is entered under, which most runs allow; without it (`EnteredAlone`) deletions
find what they look for.

### ExactlyOnce: QoS 2 from end to end

A publisher, the broker's rows, and a subscriber whose connections end and come
back; both clients follow the protocol, repetitions included. Unlike in
`Broker` the table is small enough to be full, what a subscriber wrote on an
old connection may be read after the CONNECT on the new one (`inbox`, one queue
a connection), a PUBREL may be lost, and a publisher repeats itself. Identifiers
are what is on the wire (`Wire`): `ToPublish` writes `MLEncode` of the row, the
subscriber copies it, and `GetPubRec` frees the row `StringLen` reads off it,
which from `Base` on is another one. What went wrong on the way is kept in history
variables (`harm`, `unheard`), so that `LostOnly` and `DiesOnly` can say that
nothing else does harm. `MaxId` is below the cube of `Base`, so that a row has two
bytes (65535 rows and 128 in the code).

### Loop: the event loops

Bytes are positions in what a client sends. A packet is a kind and a length, and
two tags: whether it is a CONNECT with a will, and whether it is *deadly*, that is
one the handler may die of although it has read it whole. Which packets are
deadly is the matter of other modules: an empty client id (`Wire!DiesOnly`), a
PUBLISH or a will with two surplus subscribers (`Dedup`), an UNSUBSCRIBE of a filter
nobody held (`DeleteCrashes`), a will for a subscriber that is away
(`WillSurvives`). Here a deadly packet may end the process when it is handled
(`Kills`) or when its session closes (`EndKills`); a closing session writes its
will to whoever there is (`LastWords`).
`Arrive` cuts the stream anywhere the bounds let it, `Read` takes up to a buffer,
`HandlePacket` is one turn of `while(str_len)`: a whole packet (`HandleWhole`,
`TurnAway`) or what a cut left of one (`HandleTorn`, where what is missing is
whatever the buffers held before: the handler dies, refuses or acts on it).
`NextOffset` is the length of the last packet, as in the code, and not the sum of
those before. With `tls` a read never goes past a record, part of a record may
stay inside the SSL object where `epoll_wait` does not see it (`half`), a
handshake and a good-bye hold up everybody. Writes block when the peer does not
read (`room`) and a second write to a peer that has gone is SIGPIPE (`gone`).
The branch for `event_handle` returning more than 0 is not modelled: it never
does.

### UtHash, OrderedTable: the hash table

The links of handles, chains and buckets as the macros set them, with the
expansion of buckets (`Expanded`: the old chains are walked one after the other,
`Rehashed`, each element pushed in front of its new one, `Moved`), its ideal chain
length and its giving up after two ineffective rounds. `InitBuckets` is a power of
two, so the mask of `HASH_TO_BKT` is the remainder. `OrderedTable` is what `HASH_ITER`
and `HASH_COUNT` show: a list of elements, added at the end.

### Dictionary, IniFile, Startup: from `main` to a server and back

`Dictionary` has the parallel arrays with their growth; `IniFile` the lines (a
text is a sequence of tokens), continuation, sections, pairs, comments, and the
three getters the program uses (a last line of one letter without a newline,
which the loop skips, counts as having no text); `Startup` the process: options, files read line
by line, `config_file_load`, plugin, log, sockets, SIGINT at any moment.
`Traffic` lets sessions and `#` arrays come and go freely, more freely than
`Broker` does. Three oddities of the parser are in the model: a line that ends in
a backslash swallows the next one even if it is a comment, and is lost at the
end of the file; `[]` cuts the section's name to one letter; a boolean that is
none of yes, true, 1, no, false, 0 by its first letter is the default.

## 3. The runs

`tlc -config <run>.cfg <module>`; each takes less than five minutes.

| Run | Module | Bounds | States | Properties |
|---|---|---|---|---|
| `trie` | MCTopicTrie | 2 clients and 4 filters that share nodes (`a`, `a/#`, `a/bc`, `a/+`), one QoS; 2 clients and 3 filters that meet in the first level (`#`, `+/`, `$SYS/`), two QoS; 3 clients and 2 filters, one below the other; `b` may be heard as `bc`, `bc` as `bcd` | 3 951 | `WellFormed` `NoDeadBranch` `OneByOne` `ImplementsStore` |
| `dedup` | MCDedup | every sorted array of up to 7 entries of 5 clients, every client looked for | 25 975 | `DoneIsRight` `CrashesOnSurplus` `Terminates` `OnlyTheMiddle` |
| `wire` | MCWire | `Base` 8 for 128, so lengths around 8 and 16; up to 2 filters; 66 rows | 82 224 | `ReadsAsSent` `DiesOnly` `RelayedIntact` `AcknowledgesTheSame` `OwnRowBelowBase` `DistinctOnWire` |
| `broker_core` | MCBroker | 2 clients, 2 descriptors, 4 rows, 2 messages (wills included), QoS 1 and 2, one filter | 366 374 | `TypeOK` `HeldRow` `CaughtUp` `Backed` `KeepsPromise` `Drains` |
| `broker_overlap` | MCBroker | 2 clients that overlap, 3 descriptors, 3 sessions, filters `a` and `a/b`, `b` may be heard as `bcd`, clean sessions, no filter shared | 156 087 | `SocketOwned` `Addressed` `NoResidue` |
| `exactly_once` | ExactlyOnce | 3 rows, `Base` 3 (so the third comes back as another), 3 messages, 2 subscriber connections, 1 publisher break | 276 431 | `OncePerPublish` `LostOnly` `DiesOnly` `RowsReturn` `HighRowsStay` |
| `loop` | MCLoop | 2 clients, a buffer of 6 bytes, six streams of up to 4 packets, deadly ones and wills among them, with and without TLS | 716 798 | `InOrder` `SecondAgain` `BoundaryOrDead` `AliveIfDecent` `Served` |
| `uthash` | MCUtHash | 6 elements of colliding and equal keys, 1 bucket at first, 32 at most | 17 475 | `Fsck` `FindsWhatIsThere` `NewestSince` `Implements` |
| `startup` | MCStartup | two `-c` options over a complete file with every setting of its switches, a line missing or one too many; 2 sessions | 91 379 | `LastAssignmentHolds` `ServesAsWritten` `DiesOnly` |
| `residue` | MCBroker | 2 clients, clean sessions, one filter | | `NoResidue`, violated |
| `connect_first` | MCBroker | as `broker_core`, with second CONNECTs | | `ConnectFirst`, violated |
| `will_survives` | MCBroker | as `broker_core` | | `WillSurvives`, violated |

**What they show.**

* *The trie is a table of grants.* `ImplementsStore` is the refinement of
  `Subscriptions`: with filters that hang from the same nodes, no order of
  subscribing and unsubscribing changes anyone else's subscription, searches
  answer from what is current, a filter one client has to itself is gone when it
  gives it up, and the process dies on the two occasions named there only.
  `WellFormed` and `NoDeadBranch` are why: nothing hangs in the air, and what is
  left over is due to entries a deletion missed, not to nodes it forgot.
  `OneByOne` says that `session_delete`, which takes a
  session's filters one by one, comes to the same as taking them as one set, as
  `Broker` has it.
* *A deletion* finds the entry in the middle of an array and no other
  (`OnlyTheMiddle`): with two subscribers to a filter the first in `strcmp` order
  cannot be removed, with three only the second can.
* *Deduplication* is right when it comes back, and comes back exactly when at
  most one entry is surplus. With two, the process dies: a client with three
  filters for one topic is enough.
* *The wire.* `OwnRowBelowBase`: an acknowledgement frees the row it is about
  exactly if the row's number is below 128; `DistinctOnWire`: up to 16383 no two
  identifiers look the same. `ReadsAsSent`, `RelayedIntact` and
  `AcknowledgesTheSame` say for which strings and payloads what is stored,
  relayed and answered is what was sent, as equivalences: each names what survives
  *and* what does not. `DiesOnly` names the packets that end the process.
* *Rows.* `HeldRow`: the row an acknowledgement will free is the row of that very
  message. `CaughtUp`: each row of a client with a persistent session is in
  flight on that session's connection. `KeepsPromise` is the refinement of
  `Delivery`. `Drains`: a client whose persistent session stays is owed nothing
  in the end.
* *Descriptors.* `SocketOwned` and `Addressed`, with clients that reconnect before
  the broker has seen the end of the old connection: no session is left on a
  descriptor that was closed or is someone else's, no message in flight is on
  another client's connection. `NoResidue`: clean sessions leave nothing in the
  trie as long as no two clients are entered under one filter; `Backed`: what a
  session lists is there, shared or not.
* *Exactly once.* `OncePerPublish`: the subscriber receives a message at most as
  often as the publisher sent the PUBLISH (the broker does not recognise a
  repetition), unless the message was given a row from `Base` on: then it arrives
  with every CONNECT. `LostOnly` and `DiesOnly`: there are four ways to lose a
  message, a PUBREL the subscriber did not hear, a full table, a PUBREC read after
  the CONNECT of a newer connection, and a PUBREC for a row from `Base` on, which
  frees another message's row; the process dies of the last three only.
  `RowsReturn`: if the subscriber stays in the end, rows below `Base` become free
  again. `HighRowsStay`: the others never do.
* *The loop.* `InOrder`: as long as a read holds one or two whole packets, they
  are acted on once and in order. `SecondAgain`: from the third on the second
  is acted on again. `BoundaryOrDead`: a cut packet costs the connection or the
  process, but never has the loop read on in the middle of a packet (unless the
  cut goes through the remaining length). `AliveIfDecent`: peers who stay within
  those bounds and send nothing that is deadly of itself do not bring the process
  down, a failed TLS handshake and second writes to one that has gone aside.
  `Served`: what has arrived is read, but for the rest of a TLS record.
* *The hash table.* `Fsck` is what `HASH_FSCK` asserts, `Implements` the
  refinement of `OrderedTable`; `NewestSince` says which of several elements with
  one key `HASH_FIND` returns.
* *Start-up.* `LastAssignmentHolds`: a file means what the last line for each key
  says, whatever breaks off, continues or doubles before it. `ServesAsWritten`: a
  server that serves does what the last file says and nothing of the first
  one's. `DiesOnly` names the four ways to crash on the way up and down.

**Why the bounds are enough.** Two clients are the least for one to harm the
other, and three descriptors let a descriptor be reused while both are connected
and one of them twice. In the broker runs there are rows for every message and
client, so the table is never full: a full table, with a row whose identifier is
read as another's, is in `exactly_once`, all combinations of digits are in `wire`. One or two messages are enough for a
row to be reused while an acknowledgement is on its way. Four filters
on two levels have every pair of arrays on a node, `+` beside a label, and nodes
on nodes; the walk over a deeper filter repeats the same step. `broker_core` has
one filter, which both clients may hold: what filters do to each other is in
`trie`, and `OneByOne` and `ImplementsStore` carry it over. Three clients on one
filter have an entry before the middle, one after it and one there; `dedup` has
the longer arrays. `Base` = 8 has all
combinations of zero and nonzero digits that 128 has. A buffer of six bytes holds
three of the smallest packets, and is shorter than the longest. Six elements make
the table expand, and give up expanding. The proofs below do without these
bounds where they apply.

Symmetry is not used: the order of client identifiers decides the fan-out, and
the runs with temporal properties would not allow it. `CHECK_DEADLOCK FALSE` is
set where the system may stop: the process may die, or (bounds) all messages may
have been sent. The hash table always has a next step and is checked for
deadlock.

**Fairness.** `Loop` assumes that the loop takes its next step unless it waits
for a peer (`WF(Serve)`), nothing of the peers; `Served` assumes in addition
(`Attentive`) that every peer that stays reads what it is sent and that handshakes
and good-byes end, without which the single thread rightly stops. `Broker`'s
`FairSpec` assumes for each client that what it has in hand is acknowledged and
read, which `Served` justifies for the broker's part. `ExactlyOnce` assumes that
the broker reads each connection, that the subscriber comes back while its
connections last, and that both clients answer what they receive; nobody has to
publish, leave or break. `Dedup` is a loop.

## 4. Findings

* `residue`: `delete_client_id` looks for an entry with a comparison that is the
  wrong way round (`filtering.c:40, 366`) and finds it only in the middle of the
  array. Two clean sessions with one filter are enough: the smaller client's entry
  stays when its session is deleted, although `session.c:179` is there to take all
  of its filters out. `service_socket.c:150` has a TODO about deletions that are
  not clean. The same holds of UNSUBSCRIBE (`filtering.c:439`).
* `connect_first`: a second CONNECT on a connection makes a second session under
  the same descriptor. At the end of the connection one of the two is deleted; the
  other waits for the descriptor, and the next connection that gets it is served
  without having sent CONNECT, which `event.c:128` is there to prevent.
* `will_survives`: `publish_will_message` writes to the session of each subscriber
  without looking whether there is one (`session.c:302`; `event.c:171` looks). A
  will for a persistent subscriber that is away ends the process.

What else the code does that its readers may not expect is in properties that
hold, and in `hazards` of `PROJECT.json`: `OnlyTheMiddle`, `SecondAgain`,
`OwnRowBelowBase`, `HighRowsStay`, `CrashesOnSurplus`, `LostOnly`, the three
`DiesOnly`.

## 5. The proofs

`tlapm <module>`. Every theorem is for all values of the constants, from the
`ASSUME`s of the modules, which the runs evaluate.

| Module | Theorem | States |
|---|---|---|
| BrokerProofs | `TypeCorrect` | `Spec => []TypeOK` |
| BrokerProofs | `SessionsBelong`, `PacketsAddressed` | without second CONNECTs, `Spec => [](SocketOwned /\ Addressed)` |
| BrokerProofs | `NothingLeftBehind` | clean sessions only, no filter shared, other liberties taken: `Spec => []NoResidue` |
| BrokerProofs | `AcksAreSafe` | orderly clients: `Spec /\ []Room => []HeldRow` |
| BrokerProofs | `SessionsCaughtUp` | orderly clients: `Spec /\ []Room => []CaughtUp` |
| BrokerProofs | `ListsBacked` | orderly clients, filters apart: `Spec => []Backed` |
| BrokerProofs | `PromiseKept` | orderly clients: `Spec /\ []Room => KeepsPromise` |
| WireProofs | `AcksFindTheirRow`, `IdentifiersDiffer` | `OwnRowBelowBase`, `DistinctOnWire` of `IdsInUse` |
| WireProofs | `WireImplementsRows` | `Wire` implements `IdsInUse` |
| WireProofs | `WireOwnRow`, `WireDistinct` | the two invariants for `Wire` |
| WireProofs | `ReadsWhatIsSent`, `DiesOfLengthsOnly` | any legal packets: `WireSpec => []ReadsAsSent`, `[]DiesOnly` |
| WireProofs | `AnsweredWithWhatCame`, `SubackTellsWhatIsStored` | likewise: `[]AcknowledgesTheSame`, `[]SubackAnswers` (a SUBACK answers every filter, and refuses what is not stored; proved only, no run) |
| WireProofs | `ComesThroughIntact` | likewise, whatever row is taken: `WireSpec => []RelayedIntact` |
| DedupProofs | `ComesBackRight`, `CrashesWhenItMust` | `DoneIsRight`, `CrashesOnSurplus`, for arrays of any length |
| TrieProofs | `TrieHangsTogether`, `NoNodeLeftOver` | `WellFormed`, `NoDeadBranch`, for any filters and clients |
| TrieProofs | `OneByOneIsTogether` | `Spec => []OneByOne` |
| TrieProofs | `TrieIsStore` | straight filters and topics: `Spec => ImplementsStore` |
| ExactlyOnceProofs | `HandshakeTypes` | `Spec => []TypeOK` (proved only, no run) |
| ExactlyOnceProofs | `RowsFromBaseStay` | `Spec => HighRowsStay` |
| ExactlyOnceProofs | `LostToReleases`, `DeathNeedsHarm` | `LostOnly`, `DiesOnly` |
| ExactlyOnceProofs | `NoMoreThanTaken` | `Spec => []OncePerPublish` |
| LoopProofs | `PacketsInOrder`, `DecencyKeepsAlive` | one length byte per packet in a buffer: `Spec => []InOrder`, `[]AliveIfDecent` |
| LoopProofs | `CutsCost` | likewise: `Spec => []BoundaryOrDead` |
| LoopProofs | `SecondForTheRest` | likewise: `Spec => []SecondAgain` |
| StartupProofs | `LastAssignmentCounts` | any files: `Spec => []LastAssignmentHolds` |
| StartupProofs | `ConfiguredAsWritten`, `DiesForAReason` | likewise: `[]ServesAsWritten`, `[]DiesOnly` |
| UtHashProofs | `LinkedSoundly` | any elements, keys, hashes: the inductive invariant, `Spec => []HInv` |
| UtHashProofs | `FsckPasses`, `FindFinds`, `FindsTheNewest` | `[]Fsck`, `[]FindsWhatIsThere`, `[]NewestSince` |
| UtHashProofs | `IsAnOrderedTable` | `Spec => Implements` |

**The broker.** `TypeOK` is inductive as it is; what takes work is the fan-out
(`RowsAfterType`, `PacketsAfterType`) and the lemmas that `HASH_FIND` returns a
session of the key. `SocketOwned /\ Addressed` is inductive together with it:
each way a descriptor is closed takes its session and its packets along.
`NoResidue` needs that every session is clean, which with `CleanFlags` = {TRUE} is
inductive together with it (`Tidy`), and that an array has one entry at most
(`Alone`), which a deletion then finds: what leaves with the last session are all
the filters of that session, `#` and `+` included, and nobody else's are there.

`HeldRow` and `CaughtUp` are false without conditions, and the theorems state
them. *Orderly* (no liberty but `"Share"`): with two connections a client has two copies
of one row's message, the first acknowledgement frees the row, the second frees
whatever is there by then. *Room*: with fewer free rows below `Base` than there
are clients, a fan-out may have to take a row whose identifier comes back as
another, or give the last row to a second message. `Room` is assumed of the whole
behaviour; the code does nothing to bring it about, it is for a deployment to
see to. (With `Base` = 128 it means that no more than 127 rows, less the number of
clients, are taken at any time.)

The inductive invariant is `HInv`: types, `Belongs`, `OneConn` (one connection a
client) and `Held` (rows in use are below `Base`, and a packet in flight has its
row). `Held` alone is not inductive: that an acknowledgement leaves the *other*
packets their rows needs that no two packets share one (`PacketsDiffer`), and
that follows from `OneConn` and `Addressed`. `OneIsOpen` is a pigeonhole argument:
whoever's turn it is in the fan-out, fewer rows were taken before than are free.
`CaughtUp` needs in addition that a client has one session (`OneSession`).
`Backed` needs neither rows nor room, but `OneSession` and that no two filters are
one place (`Apart`), or giving up `//a` would take `/a` out of the trie. Entries a
deletion misses do it no harm.

`PromiseKept` is step simulation: `Publish` and `SessionClose` map to `Post`,
`Connect` to `Resend`, an acknowledgement to `Settle`, an end of connection to
`Lose`. `Post` requires that nobody was owed the message before. `HInv` does not
give that, hence `Numbered`: messages in rows are numbered no higher than
`posted`, a will's number is in no row and in no other will.

**The codec.** `AcksFindTheirRow` is arithmetic on two digits. `WireImplementsRows` maps
`Wire` to `IdsInUse`, so that the two invariants carry over without being proved
again.

The other invariants of `Wire` are about the packet at hand, so nothing has to be
strengthened (but that nothing is relayed between two packets, `NothingYet`); the
work is in what recursive functions compute. All that is assumed (`WireAssumption`)
is that the packets are legal: two-byte lengths, no empty topic or filter. Bytes
are placed first: `FlattenSeq` puts strings one behind the other (`Flattened`), so
those of a CONNECT, a SUBSCRIBE, an UNSUBSCRIBE lie in the buffer in order (`Lying`).
`string_len` returns a length of one digit as it is and any other as less
(`LenRead`). Hence, by induction on the rounds of `hex_to_string`, plain strings are
all read as they were sent (`PlainPrefix`), and the first that is not plain comes out
shorter or stops the reading, whatever is found behind it (`Spoilt`): together
`ReadAlike`, from which `ReadsAsSent` and `DiesOnly` follow for each kind of packet.
For `RelayedIntact` the bytes that are written are placed (`WrittenOut`) and taken
apart again (`ReceivedIs`). With a plain topic they come through if one digit says
how long they are; if not, the second byte of the "length" is the topic's zero byte, and
the length does not fit (`PlainComesThrough`). With a topic of two digits the packet is
not whole, or its topic not the one that was sent (`LongTopicGetsLost`); the one topic
that could be mistaken for itself, of 2 * 128 + 1 bytes, is read as one byte
(`LooksLikeOne`).

**Deduplication.** The loop is in one of three situations: nothing erased yet
(`NoneErased`), one entry erased and all shifted by one (`OneErased`), or a
duplicate was passed over with the erasure behind it (`Behind`), which can only
end in the crash. With each goes what the array is, in terms of the one given.

**The trie.** The invariant is `WellFormed` and `NoDeadBranch` together. `Rooted`
is what makes dropping nodes safe: a node is dropped only with everything below
it, so what stays keeps its ancestors, and an array whose node stays keeps the
way to it (`Hanging`). Entries that stay keep their node, hence their array
(`Filed`). That a deletion leaves no dead branch uses that there was none before:
what is left without a subscriber below the node of the deleted filter had that
filter's only, and lies on the way to it. `ChainIs`, `PrefixIs` and their like
say that the way to a node is closed under prefixes.

`OneByOne` rests on a closed form: in a trie as above, `DeleteTopics` of any set of
filters is `Pruned` to the entries that stay, the nodes with an entry at or below
them and the arrays on those; and pruning twice is pruning once to the entries
that stay both times. `TrieIsStore` is step simulation. It is for filters and
topics that are *straight*: walked as they are written. That leaves out keys with
two empty levels in front (of which the walk drops one) and keys with a level
`/` (which is how the walk names an empty one). A deletion that misses its entry is
the store's liberty, since the entry it misses is not alone in its array. The bulk is that the arrays a search gathers
(`Gathered`) are those of the filters that match, in any order, which goes level
by level over what `Scanned` passes.

**Exactly once.** What row an identifier is read as is arithmetic: the one it was
written for if that is below `Base` (`Low`), and else another one below `Base`. Hence
`RowsFromBaseStay`; the invariants below speak of the rows that identifiers in
`Low` name (`Held`). `Typed` adds to the types where the queues stand: nothing is on
its way to a subscriber whose CONNECT is unread, what is queued behind a CONNECT
are PUBRECs; `Traced` that every message in a row or on its way was given its
identifier. `LostOnly` and `DiesOnly` follow from `Safe`, which says of a run so far
without harm that the process is up, that nothing is lost, and why: a PUBREC to be read on the newest connection
names a row in use, of a message delivered, and is the only one to name it
(`Acks`); a PUBLISH on its way has its row (`Copies`); an identifier the subscriber
holds is that of a delivered message still in its row, or a PUBREL for it is on
the way ahead of any PUBLISH, or was lost (`Holds`). That CONNECT sends the rows in ascending order, each once, is a lemma
of its own (`Ascending`): the enumeration exists, so `Resent` is not empty talk.

`OncePerPublish` holds whatever harm was done, so `Safe` is of no use to it. The
invariant `Bounded` counts: what was delivered of a message, plus the rows of it
that can still lead to a delivery (`Open`: the subscriber does not hold their
identifier, or is about to release it), plus the PUBLISHes on their way that
will be delivered although their row is no longer theirs (`Stray`), is no more
than was accepted, for every message that was given no row from `Base` on. An accepted PUBLISH adds
one to the right, and at most one row or PUBLISH on the left; no other step adds
to the left without taking something from it.

**The event loops.** The theorems assume `Short`: `Buff` is at most `Base` + 1, so that
a packet that fits the buffer has one length byte (in the code both are 128). `End`,
where a packet ends, is a recursive function of the stream; that it exists and is the
sum of the sizes is shown with least numbers (`SumExists`, `EndIs`), and everything
about places in the stream comes from `EndsGrow`, `EndsDiffer` and `BegunIs`.
`PacketStep` says how a turn of `while(str_len)` can end, `StepIs` that no other step
acts on a packet. `Laid` is what the four invariants have in common: what has arrived
lies in order behind what was read, and a read at work is not empty. `InOrder` needs
`Follows`: of a client that was only read one or two whole packets at a time, those
acted on are as many as were read, but for those of the read at work. Its second
packet is found because `NextOffset`, the length of the first, happens to be where
the first one ended; `AliveIfDecent` follows from the same, and from what is left
of the ways to die: a deadly packet among those read (`Dire`). `BoundaryOrDead` needs
`Stands`, which tells a cut through the length of a packet from any other.
`SecondAgain` needs `Repeats`: of a read of packets of one size the offset stays where
the second began, and the loop counts down by that size.

**Start-up.** A dictionary of the code `Represents` a function: its cells hold the
function's pairs and nothing else, each key in one cell, and `n` counts both. `SetIs`
says that `dictionary_set` represents the function with that value, whether it
replaces, fills a slot or doubles the arrays first. What a file means is defined
without reading it in order, so the bulk is about the beginning of a file and one line
more: where the logical line begins (`BeginExists`, `BeginOnly`), that what is held back
is its text so far (`Held`), that the section so far (`SectionOf`) is the reader's
(`SectionStays`, `SectionStarts`), and that its entries are those before it and at most
one after all others (`EntriesMore`), whose value is then the meaning of its key
(`MeaningMore`). Together that is `ReadsMore`: one turn of `iniparser_load` keeps `Reads`,
which is the inductive invariant while a file is read. From there on `AsConfigured` says
that `struct config` says what the entries mean (`ConfiguredIs`). Assumed of the files is
only that the header lines that name nothing are `[]` (`NamelessAssumption`), of words that
one letter is not abbreviated further and that the keys the program asks for are in
lower case (`IniAssumption`, `StartupAssumption`), which they are.

**The hash table.** None of the properties is inductive: an expansion rebuilds every
chain from its elements' hashes, and a deletion trusts the links it finds. The
inductive invariant (`HInv`) says what they are links of: of one list of all elements,
forward and backward, with the tail at its end (`ListIs`), and for each bucket of one
chain of exactly the elements whose hash falls in it, with its count (`ChainsAre`);
the elements added since the last expansion end the list, and in a chain nothing is ahead of
one of them but what was added after it (`SinceIs`). What is read by following links is then the list
itself (`PathIs`), and the lemmas on lists without repetition say what setting two or
three links does to it: in front (`PushedLinks`), at the end (`AppendedLinks`), out of
the middle (`RemovedLinks`). The expansion is two inductions, over the elements of an
old chain (`RehashedIs`) and over the old buckets (`AllRehashed`): the new chains always
hold exactly what has been walked, and what has not been walked has its old links still,
because an element is in one old chain only. That `Fsck`'s sum of the counts is the
number of items is an induction over the buckets (`CountsSum`, `SumIs`). For the
refinement, `AddKeeps` and `DeleteKeeps` say of each action what becomes of the list as
well as that `HInv` stays. Of the constants only `UtHashAssumption` is used: finitely many
elements, hashes that are numbers, some threshold and at least one bucket; equal keys, hashes that
all collide and any bound `MaxBuckets` are allowed.

**Only model-checked.** Liveness under fairness (`Drains`, `RowsReturn`, `Served`,
`Terminates`) is out of the reach of the proof system.

## 6. Not modelled

* **Sizes of the configuration's strings** (`strcpy` into `struct config`,
  `sprintf` into the parser's buffers) and failing `malloc`.
* **Of the parser**: `dictionary_unset`, `iniparser_set`, `iniparser_unset`, the
  dumps and the section queries, which the program does not call or which only
  print.
* **Of the codec**: encoders only a client needs, the retain flag, the keep-alive
  time, random client identifiers, and packets that are not legal.
* **Signals**: SIGINT comes between two handlers, not inside one.
* **The heap**: the byte written behind the block of a first level (section 2,
  Filtering).
* **Of TLS**: renegotiation and session tickets; the `SSL` pointer a first session
  keeps when a second CONNECT is refused; that wills are written below the SSL
  object. Both are among the hazards.
* **Of `uthash`**: the hash functions (a run takes each key's hash as given), and
  replacing, sorting, selecting and ordered adding, which the program does not
  use. `utarray` is taken as sequences.
* **The other vendored headers** (`utlist.h`, `utstring.h`, `utringbuffer.h`,
  `utstack.h`), `log.c`, and the printing functions: unused, or without effect on
  the state.
* **Plugins** beyond loading and verdicts: what a hook does is its own.
* The branch of the loops for a positive return of `event_handle`, and the
  branches for a client that is already known: no execution reaches them.

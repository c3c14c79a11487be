-------------------------------- MODULE Wire --------------------------------
(***************************************************************************)
(* What the broker makes of the bytes of one packet (mqtt_decode.c), and   *)
(* what a subscriber makes of the bytes the broker writes for it           *)
(* (mqtt_encode.c), next to the rows of module IdsInUse, whose identifiers *)
(* go out in the PUBLISHes relayed here.                                   *)
(*                                                                         *)
(* The peers are external and follow MQTT 3.1.1: the length of a string is *)
(* two bytes of radix 2 * Base, the remaining length digits of radix Base, *)
(* the lowest first, all but the last with the high bit (>= Base) set.     *)
(* The broker reads and writes both lengths in its own way.  The packets   *)
(* are legal MQTT; what a string says is left out except for a zero byte   *)
(* in a payload, so that a string of n bytes is Fill(n).                   *)
(***************************************************************************)
EXTENDS IdsInUse, SequencesExt

CONSTANTS
  ClientIdLimit,  \* 64 in the code: client_id[64]
  Zeroed,         \* 8 in the code: sizeof(packet->payload), a pointer
  ConnectFields,  \* what a CONNECT may carry: sequences of string lengths,
                  \*   the client id first
  Topics,         \* the lengths of the topics that are published to
  FilterLens,     \* the lengths of the filters that are sent
  MaxFilters,     \* filters of one SUBSCRIBE or UNSUBSCRIBE
  Payloads        \* the payloads that are published: sequences of bytes

(* Legal packets: a length is two bytes, a topic or a filter is not empty. *)
PeerLen == 0..(4 * Base * Base - 1)

ASSUME WireAssumption ==
  /\ ClientIdLimit \in Nat /\ Zeroed \in Nat /\ MaxFilters \in Nat
  /\ ConnectFields \subseteq Seq(PeerLen) \ {<<>>}
  /\ Topics \cup FilterLens \subseteq PeerLen \ {0}
  /\ Payloads \subseteq Seq(0..(2 * Base - 1))

VARIABLES
  sent,     \* the packet the client sent: a record, or NoPacket
  got,      \* what mqtt_pack_decode returned
  replies,  \* the bytes written back to the client, a packet an element
  relayed   \* the bytes written to a subscriber, <<>> for nothing

wireVars == <<sent, got, replies, relayed>>
vars == <<id, sent, got, replies, relayed>>

NoPacket == [kind |-> "none"]
Identifier == <<2, 3>>   \* the packet identifier in what the client sends
QoS == 0..2
Refused == 2 * Base      \* FAILURE, 0x80: no quality of service

-----------------------------------------------------------------------------
(* The peers' side. *)
Fill(n) == [i \in 1..n |-> 1]
Str(n) == <<n \div (2 * Base), n % (2 * Base)>> \o Fill(n)
Strs(lens) == FlattenSeq([i \in DOMAIN lens |-> Str(lens[i])])

Filters == UNION {[1..n -> FilterLens \X QoS] : n \in 1..MaxFilters}

(* What follows the fixed header; of a CONNECT, what follows its name,     *)
(* level, flags and keep-alive.                                            *)
Body(p) ==
  CASE p.kind = "connect" -> Strs(p.fields)
    [] p.kind = "publish" ->
         Str(p.topic) \o (IF p.qos > 0 THEN Identifier ELSE <<>>) \o p.payload
    [] p.kind = "subscribe" ->
         Identifier \o FlattenSeq([i \in DOMAIN p.filters |->
                                     Str(p.filters[i][1]) \o <<p.filters[i][2]>>])
    [] p.kind = "unsubscribe" ->
         Identifier \o Strs([i \in DOMAIN p.filters |-> p.filters[i][1]])
    [] p.kind \in {"puback", "pubrec", "pubrel", "pubcomp"} -> Identifier
    [] p.kind \in {"pingreq", "disconnect"} -> <<>>

(* A subscriber takes a PUBLISH apart: the remaining length, the topic,    *)
(* the identifier, the payload; "whole" if the packet ends where the bytes *)
(* that were written end.                                                  *)
Digits(b) == {i \in 2..Len(b) : \A j \in 2..i : b[j] >= Base <=> j < i}
Received(b, qos) ==
  LET last == CHOOSE i \in Digits(b) : TRUE
      value[i \in 2..(last + 1)] ==
        IF i > last THEN 0 ELSE (b[i] % Base) + Base * value[i + 1]
      size == value[2]
      body == SubSeq(b, last + 1, Len(b))
      topic == body[1] * 2 * Base + body[2]
      head == 2 + topic + IF qos > 0 THEN 2 ELSE 0
  IN IF Digits(b) = {} \/ size # Len(body) \/ Len(body) < head
     THEN [whole |-> FALSE]
     ELSE [whole |-> TRUE, topic |-> SubSeq(body, 3, 2 + topic),
           id |-> SubSeq(body, 3 + topic, head),
           payload |-> SubSeq(body, head + 1, Len(body))]

-----------------------------------------------------------------------------
(* The broker's side: decoding.                                            *)

(* string_len at b[at], b[at + 1]; first a mutant, the length as the       *)
(* peers write it.                                                         *)
AsByte(x) == Byte(x % Base, x >= Base)
LenAtRadix(b, at) == b[at] * 2 * Base + b[at + 1]
LenAt(b, at) == StringLen([msb |-> AsByte(b[at]), lsb |-> AsByte(b[at + 1])])

(* A C string: the bytes before the first zero. *)
Cut(b) ==
  LET zero == SelectInSeq(b, LAMBDA x : x = 0)
  IN IF zero = 0 THEN b ELSE SubSeq(b, 1, zero - 1)

(* hex_to_string, k times over, each string followed by gap bytes (the     *)
(* quality of service of a filter, which is kept).  With a limit (0 is     *)
(* none) the strings end at two zero bytes, or where one would reach       *)
(* further than the limit.  An empty string has a NULL pointer, which      *)
(* every caller follows: "crash".  "beyond" is a read past the buffer.     *)
OneMore(b, acc, start, gap, limit) ==
  LET n == LenAt(b, acc.at)
      next == acc.at + 2 + n
      last == IF next <= Len(b) THEN next - 1 ELSE Len(b)
  IN IF acc.status # "more" THEN acc
     ELSE IF acc.at >= Len(b) THEN [acc EXCEPT !.status = "beyond"]
     ELSE IF limit > 0 /\ ((b[acc.at] = 0 /\ b[acc.at + 1] = 0) \/ next - start > limit)
     THEN [acc EXCEPT !.status = "read"]
     ELSE IF n = 0 THEN [acc EXCEPT !.status = "crash"]
     ELSE IF gap > 0 /\ next > Len(b) THEN [acc EXCEPT !.status = "beyond"]
     ELSE [status |-> "more",
           at |-> next + gap,
           texts |-> Append(acc.texts, <<Cut(SubSeq(b, acc.at + 2, last)),
                                         IF gap > 0 THEN b[next] ELSE 0>>)]

Strings(b, start, k, gap, limit) ==
  LET read[i \in 0..k] ==
        IF i = 0 THEN [status |-> "more", at |-> start, texts |-> <<>>]
        ELSE OneMore(b, read[i - 1], start, gap, limit)
  IN IF read[k].status = "more" THEN [read[k] EXCEPT !.status = "read"] ELSE read[k]

(* mqtt_pack_decode copies the body and adds two zero bytes. *)
Buffer(p) == Body(p) \o <<0, 0>>

(* mqtt_connect_packet_create: what each string is read as, if the         *)
(* protocol level is 4 and the client id is not too long.                  *)
ConnectPacketCreate(p) ==
  LET b == Buffer(p)
  IN IF p.level # 4 THEN [status |-> "version"]
     ELSE IF LenAt(b, 1) >= ClientIdLimit THEN [status |-> "null"]
     ELSE Strings(b, 1, Len(p.fields), 0, 0)

(* mqtt_publish_packet_create: the payload is everything that remains      *)
(* after the topic, counted as if there were no identifier, so that with   *)
(* one the two zero bytes end it; "ended" says whether a zero byte does.   *)
(* Of the payload's memory the first Zeroed bytes are cleared.          *)
PublishPacketCreate(p) ==
  LET b == Buffer(p)
      topic == Strings(b, 1, 1, 0, 0)
      from == topic.at + IF p.qos > 0 THEN 2 ELSE 0
      len == Len(Body(p)) - LenAt(b, 1) - 2
      payload == SubSeq(b, from, from + len - 1)
  IN IF topic.status # "read" THEN topic
     ELSE [status |-> "read", topic |-> topic.texts[1][1],
           id |-> SubSeq(b, topic.at, topic.at + 1),
           payload |-> Cut(payload),
           ended |-> 0 \in Range(payload) \/ len < Zeroed]

(* mqtt_subscribe_packet_create, mqtt_unsubscribe_packet_create; first a   *)
(* mutant that takes no quality of service from behind the filter.         *)
SubscribePacketCreateNoQoS(p) ==
  Strings(Buffer(p), 3, Len(Body(p)) \div 3, 0, 2 * Len(Body(p)) + 2 * Base)

SubscribePacketCreate(p) ==
  Strings(Buffer(p), 3, Len(Body(p)) \div 3, 1, 2 * Len(Body(p)) + 2 * Base)

UnsubscribePacketCreate(p) ==
  Strings(Buffer(p), 3, Len(Body(p)) \div 2, 0, Len(Body(p)) - 2)

(* mqtt_const_packet_create, mqtt_pingreq_packet_create and                *)
(* mqtt_disconnect_packet_create: two bytes, or none.                      *)
ConstPacketCreate(p) ==
  [status |-> "read", id |-> SubSeq(Buffer(p), 1, 2)]

-----------------------------------------------------------------------------
(* The broker's side: encoding.  The remaining length is one byte.         *)
Written(byte) == byte.digit + IF byte.high THEN Base ELSE 0
ML(x) == <<Written(MLEncode(x).msb), Written(MLEncode(x).lsb)>>

ConstPacket(type, bytes) == <<type, 2>> \o bytes

(* mqtt_publish_encode_qos_0, mqtt_publish_encode_qos_1_2; the first byte  *)
(* says the quality of service.  First a mutant that forgets the           *)
(* identifier in the remaining length.                                     *)
PublishEncodeShort(topic, qos, row, payload) ==
  LET rest == ML(Len(topic)) \o topic
              \o (IF qos > 0 THEN ML(row) ELSE <<>>) \o payload
  IN <<qos, (Len(topic) + Len(payload) + 2) % (2 * Base)>> \o rest

PublishEncode(topic, qos, row, payload) ==
  LET rest == ML(Len(topic)) \o topic
              \o (IF qos > 0 THEN ML(row) ELSE <<>>) \o payload
  IN <<qos, Len(rest) % (2 * Base)>> \o rest

(* mqtt_suback_encode. *)
SubackEncode(codes) ==
  <<"SUBACK", 2 + Len(codes)>> \o Identifier \o codes

-----------------------------------------------------------------------------
(* The handler's use of them, one packet at a time. *)
WireInit ==
  /\ Init
  /\ sent = NoPacket
  /\ got = [status |-> "none"]
  /\ replies = <<>>
  /\ relayed = <<>>

Sends(p) == sent = NoPacket /\ sent' = p

(* CONNECT: a refusal is always CONNECT_ERROR_AUTHORIZED (5), and an       *)
(* acceptance claims a session when no flag at all is set.                 *)
Connect ==
  /\ \E fields \in ConnectFields, level \in {4, 5}, clean \in BOOLEAN :
       /\ Sends([kind |-> "connect", fields |-> fields, level |-> level, clean |-> clean])
       /\ got' = ConnectPacketCreate(sent')
       /\ replies' =
            CASE got'.status = "read" ->
                   <<ConstPacket("CONNACK",
                       <<IF ~clean /\ Len(fields) = 1 THEN 1 ELSE 0, 0>>)>>
              [] got'.status = "version" -> <<ConstPacket("CONNACK", <<0, 5>>)>>
              [] OTHER -> <<>>
  /\ UNCHANGED <<id, relayed>>

(* PUBLISH, to one subscriber of quality of service qos; a payload without *)
(* an end goes on with whatever lies behind it.                            *)
Acknowledged(qos, bytes) ==
  CASE qos = 0 -> <<>>
    [] qos = 1 -> <<ConstPacket("PUBACK", bytes)>>
    [] qos = 2 -> <<ConstPacket("PUBREC", bytes)>>

Publish ==
  \E topic \in Topics, payload \in Payloads, q \in QoS :
    /\ Sends([kind |-> "publish", topic |-> topic, payload |-> payload, qos |-> q])
    /\ LET read == PublishPacketCreate(sent')
       IN IF read.status # "read"
          THEN got' = read /\ replies' = <<>> /\ relayed' = <<>> /\ UNCHANGED id
          ELSE \E qos \in 0..q, behind \in {<<>>, Fill(1)} :
                 /\ read.ended => behind = <<>>
                 /\ got' = [read EXCEPT !.payload = @ \o behind, !.ended = behind = <<>>]
                 /\ IF qos > 0 THEN SessionPublishAdd ELSE UNCHANGED id
                 /\ relayed' = PublishEncode(got'.topic, qos, id', got'.payload)
                 /\ replies' = Acknowledged(q, got'.id)

(* SUBSCRIBE: a return code for every filter that was read.  Without a     *)
(* plugin every code is the quality of service of the first filter; a      *)
(* plugin answers each with its own or refuses.                            *)
Codes(texts) == [i \in DOMAIN texts |-> texts[1][2]]

Stores(code) == code # Refused

Subscribe ==
  /\ \E filters \in Filters :
       /\ Sends([kind |-> "subscribe", filters |-> filters])
       /\ LET read == SubscribePacketCreate(sent')
              Answered(refused) == [i \in DOMAIN read.texts |->
                 IF read.texts[i] \in refused THEN Refused ELSE read.texts[i][2]]
          IN IF read.status # "read"
             THEN got' = read /\ replies' = <<>>
             ELSE \E codes \in {Codes(read.texts)}
                               \cup {Answered(r) : r \in SUBSET Range(read.texts)} :
                    /\ got' = [status |-> "read", texts |-> read.texts,
                               stored |-> {i \in DOMAIN codes : Stores(codes[i])}]
                    /\ replies' = <<SubackEncode(codes)>>
  /\ UNCHANGED <<id, relayed>>

(* UNSUBSCRIBE. *)
Unsubscribe ==
  /\ \E filters \in Filters :
       /\ Sends([kind |-> "unsubscribe", filters |-> filters])
       /\ got' = UnsubscribePacketCreate(sent')
       /\ replies' = IF got'.status = "read"
                     THEN <<ConstPacket("UNSUBACK", Identifier)>> ELSE <<>>
  /\ UNCHANGED <<id, relayed>>

(* The packets of two bytes or none; PUBACK, PUBCOMP and DISCONNECT have   *)
(* no answer.                                                              *)
Answers(kind, bytes) ==
  CASE kind = "pubrec" -> <<ConstPacket("PUBREL", bytes)>>
    [] kind = "pubrel" -> <<ConstPacket("PUBCOMP", bytes)>>
    [] kind = "pingreq" -> <<<<"PINGRESP", 0>>>>
    [] OTHER -> <<>>

Control ==
  /\ \E kind \in {"puback", "pubrec", "pubrel", "pubcomp", "pingreq", "disconnect"} :
       /\ Sends([kind |-> kind])
       /\ got' = ConstPacketCreate(sent')
       /\ replies' = Answers(kind, got'.id)
  /\ UNCHANGED <<id, relayed>>

(* The client is done with this packet. *)
Done ==
  /\ sent # NoPacket
  /\ sent' = NoPacket
  /\ got' = [status |-> "none"]
  /\ replies' = <<>>
  /\ relayed' = <<>>
  /\ UNCHANGED id

(* Rows are also taken by messages this module does not follow. *)
Others == sent = NoPacket /\ SessionPublishAdd /\ UNCHANGED wireVars

Next == Connect \/ Publish \/ Subscribe \/ Unsubscribe \/ Control \/ Done \/ Others

WireSpec == WireInit /\ [][Next]_vars

-----------------------------------------------------------------------------
Lens(p) ==
  CASE p.kind = "connect" -> p.fields
    [] p.kind = "publish" -> <<p.topic>>
    [] p.kind \in {"subscribe", "unsubscribe"} -> [i \in DOMAIN p.filters |-> p.filters[i][1]]
    [] OTHER -> <<>>

(* The strings both sides read alike: from one byte up to the first length *)
(* that needs a high bit.                                                  *)
Plain(p) == \A i \in DOMAIN Lens(p) : Lens(p)[i] \in 1..(Base - 1)

(* The strings as they were sent, each with the quality of service that    *)
(* follows a filter of a SUBSCRIBE.                                        *)
SentTexts(p) ==
  [i \in DOMAIN Lens(p) |->
     <<Fill(Lens(p)[i]), IF p.kind = "subscribe" THEN p.filters[i][2] ELSE 0>>]

(* What the broker stores of a CONNECT, SUBSCRIBE or UNSUBSCRIBE is what   *)
(* the client sent if and only if every string in it has 1 to 127 bytes    *)
(* (and the client id less than 64): string_len drops the eighth bit of    *)
(* either length byte (mqtt_decode.c:10).                                  *)
ReadsAsSent ==
  sent.kind \in {"connect", "subscribe", "unsubscribe"} /\ got.status # "version" =>
    (got.status = "read" /\ got.texts = SentTexts(sent) <=>
       /\ Plain(sent)
       /\ sent.kind = "connect" => sent.fields[1] < ClientIdLimit)

(* A legal packet ends the process, or has it read past the packet, only   *)
(* if it holds an empty string or one of 128 bytes or more, and an empty   *)
(* one always does, unless the client id, the protocol level or a longer   *)
(* string before it stops the decoding (hex_to_string returns NULL and no  *)
(* caller looks, mqtt_decode.c:46).                                        *)
DiesOnly ==
  sent # NoPacket =>
    /\ got.status \in {"crash", "beyond"} => ~Plain(sent)
    /\ \A i \in DOMAIN Lens(sent) :
         /\ Lens(sent)[i] = 0
         /\ \A j \in 1..(i - 1) : Lens(sent)[j] \in 1..(Base - 1)
         /\ Lens(sent)[1] < ClientIdLimit
         => got.status \in {"crash", "version"}

(* A subscriber receives the topic, the identifier and the payload of the  *)
(* message, in a packet it finds the end of, if and only if the topic has  *)
(* at most 127 bytes, the payload no zero byte and an end in memory, and   *)
(* one byte of remaining length can say how long the packet is.  Only a    *)
(* payload of 8 bytes or more that was published with quality of service 0 *)
(* may lack an end (mqtt_decode.c:197-201, mqtt_encode.c:197).             *)
Intact ==
  LET qos == relayed[1]
      msg == Received(relayed, qos)
  IN /\ msg.whole
     /\ msg.topic = Fill(sent.topic)
     /\ msg.payload = sent.payload
     /\ qos > 0 => msg.id = ML(id)

RelayedIntact ==
  relayed # <<>> =>
    /\ Intact <=> /\ Plain(sent)
                  /\ got.ended
                  /\ 0 \notin Range(sent.payload)
                  /\ Len(relayed) - 2 < Base
    /\ Plain(sent) /\ ~got.ended => sent.qos = 0 /\ Len(sent.payload) >= Zeroed

(* Whatever is answered with an identifier is answered with the one that   *)
(* came, if and only if the strings before it were read as they were sent: *)
(* a PUBLISH is searched for it behind its topic.                          *)
AcknowledgesTheSame ==
  got.status = "read" /\ sent.kind \notin {"connect", "pingreq"} /\ replies # <<>> =>
    (SubSeq(replies[1], 3, 4) = Identifier <=> (sent.kind = "publish" => Plain(sent)))

(* A SUBACK is as long as it says, answers every filter, refuses exactly   *)
(* those that are not subscribed, and where it names another quality of    *)
(* service than the one that is subscribed it is the first filter's        *)
(* (event.c:251).                                                          *)
SubackAnswers ==
  sent.kind = "subscribe" /\ Plain(sent) =>
    LET codes == SubSeq(replies[1], 5, Len(replies[1]))
    IN /\ replies[1][2] = Len(replies[1]) - 2
       /\ DOMAIN codes = DOMAIN sent.filters
       /\ \A i \in DOMAIN codes :
            /\ codes[i] = Refused <=> i \notin got.stored
            /\ codes[i] \notin {Refused, sent.filters[i][2]} =>
                 codes = [j \in DOMAIN codes |-> sent.filters[1][2]]
=============================================================================

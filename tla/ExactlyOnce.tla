---------------------------- MODULE ExactlyOnce ----------------------------
(***************************************************************************)
(* The QoS 2 handshakes of event_handle from end to end: a publisher, the  *)
(* broker with its table of rows, and a subscriber that loses and reopens  *)
(* its connection.  The two clients are external; they follow MQTT 3.1.1:  *)
(* a publisher sends PUBLISH or PUBREL again after a break, a subscriber   *)
(* answers every PUBLISH with PUBREC and delivers one whose identifier it  *)
(* is not holding; it holds an identifier until PUBREL.                    *)
(*                                                                         *)
(* The broker keeps nothing of a publisher's handshake, frees a row at     *)
(* PUBREC and does not remember that a PUBREL is due.  The subscriber's    *)
(* subscription and its session are persistent (clean_session = 0).  That  *)
(* a write to a peer that has gone may end the process is in module Loop.  *)
(*                                                                         *)
(* A row's number is its identifier, and on the wire the two bytes of      *)
(* module PacketId: the subscriber copies them, and the row the broker     *)
(* reads off a PUBREC is another one from Base (128) on.                   *)
(***************************************************************************)
EXTENDS PacketId, FiniteSets, SequencesExt, FiniteSetsExt

CONSTANTS MaxId,      \* rows of session_packet_identifier; 65535 in the code
          MaxMsg,     \* bound: messages published
          MaxConn,    \* bound: connections of the subscriber
          MaxBreaks   \* bound: times the publisher loses its connection

ASSUME ExactlyOnceAssumption ==
  /\ MaxId \in Nat \ {0} /\ MaxId < Base * Base * Base
  /\ MaxMsg \in Nat \ {0} /\ MaxConn \in Nat
  /\ MaxBreaks \in Nat

VARIABLES
  up,        \* FALSE once the process has died
  rows,      \* session_packet_identifier: the message and the payload pointer
  sessions,  \* connections of the subscriber that have a session
  inbox,     \* what the subscriber wrote on each connection, yet to be read
  opened,    \* connections the subscriber has made
  ended,     \* those it has closed and the broker has not
  at,        \* the subscriber's connection; 0: none
  down,      \* what was written to it there
  holding,   \* identifiers the subscriber has received and not seen released
  stage,     \* the publisher: "idle", "publish" or "release"
  sent,      \* its current message
  flight,    \* the one packet between it and the broker; "": lost
  breaks,    \* times it lost its connection
  accepted,  \* history: PUBLISHes of each message the broker has handled
  delivered, \* history: times the subscriber delivered it
  given,     \* history: <<message, identifier>> pairs written to the subscriber
  unheard,   \* history: identifiers whose PUBREL was lost
  harm       \* history: "full": no row was left; "late": a PUBREC was read
             \* from a connection after the CONNECT on a newer one; "astray":
             \* a PUBREC was for a row from Base on, and freed another

broker     == <<up, rows, sessions>>
subscriber == <<at, opened, holding, delivered>>
publisher  == <<stage, sent, flight, breaks>>
wires      == <<inbox, ended, down>>
history    == <<accepted, given, unheard, harm>>
vars == <<broker, subscriber, publisher, wires, history>>

Id   == 1..MaxId
Msg  == 1..MaxMsg
Conn == 1..MaxConn
NoMsg == 0

FreshRow == [msg |-> NoMsg, payload |-> "none"]
FreedRow == [msg |-> NoMsg, payload |-> "freed"]
Rows == {FreshRow, FreedRow} \cup [msg : Msg, payload : {"live"}]

(* The identifiers on the wire. *)
Wire == {MLEncode(i) : i \in Id}

FromSubscriber == [kind : {"CONNECT"}] \cup [kind : {"PUBREC"}, id : Wire]
ToSubscriber   == [kind : {"PUBLISH"}, id : Wire, msg : Msg] \cup
                  [kind : {"PUBREL"}, id : Wire]

TypeOK ==
  /\ up \in BOOLEAN
  /\ rows \in [Id -> Rows]
  /\ sessions \subseteq Conn
  /\ inbox \in [Conn -> Seq(FromSubscriber)]
  /\ opened \in 0..MaxConn /\ at \in {0, opened} /\ ended \subseteq 1..opened \ {at}
  /\ down \in Seq(ToSubscriber)
  /\ holding \subseteq Wire
  /\ stage \in {"idle", "publish", "release"} /\ sent \in 0..MaxMsg
  /\ flight \in {"", "PUBLISH", "PUBREC", "PUBREL", "PUBCOMP"}
  /\ breaks \in 0..MaxBreaks
  /\ accepted \in [Msg -> Nat] /\ delivered \in [Msg -> Nat]
  /\ given \subseteq Msg \X Wire /\ unheard \subseteq Wire
  /\ harm \subseteq {"full", "late", "astray"}

Init ==
  /\ up = TRUE
  /\ rows = [i \in Id |-> FreshRow]
  /\ sessions = {} 
  /\ inbox = [n \in Conn |-> <<>>]
  /\ ended = {} /\ opened = 0 /\ at = 0 /\ down = <<>> /\ holding = {}
  /\ stage = "idle" /\ sent = 0 /\ flight = "" /\ breaks = 0
  /\ accepted = [m \in Msg |-> 0] /\ delivered = [m \in Msg |-> 0]
  /\ given = {} /\ unheard = {} /\ harm = {}

----------------------------------------------------------------------------
(* The publisher (external). *)

PublishNext ==
  /\ stage = "idle" /\ sent < MaxMsg
  /\ stage' = "publish" /\ sent' = sent + 1 /\ flight' = "PUBLISH"
  /\ UNCHANGED <<broker, subscriber, breaks, wires, history>>

PublisherGets ==
  /\ \/ flight = "PUBREC" /\ stage' = "release" /\ flight' = "PUBREL"
     \/ flight = "PUBCOMP" /\ stage' = "idle" /\ flight' = ""
  /\ UNCHANGED <<broker, subscriber, sent, breaks, wires, history>>

(* Its connection breaks, what was in flight is lost, and it sends again.  *)
PublisherBreaks ==
  /\ stage # "idle" /\ breaks < MaxBreaks
  /\ flight' = IF stage = "publish" THEN "PUBLISH" ELSE "PUBREL"
  /\ breaks' = breaks + 1
  /\ UNCHANGED <<broker, subscriber, stage, sent, wires, history>>

----------------------------------------------------------------------------
(* The subscriber (external). *)

(* What is on its way to a subscriber that leaves is lost. *)
Releases(packets) == {p.id : p \in {q \in ToSet(packets) : q.kind = "PUBREL"}}

Leave ==
  /\ at # 0
  /\ ended' = ended \cup {at} /\ at' = 0
  /\ unheard' = unheard \cup Releases(down) /\ down' = <<>>
  /\ UNCHANGED <<broker, opened, holding, delivered, publisher, inbox,
                 accepted, given, harm>>

Come ==
  /\ at = 0 /\ opened < MaxConn
  /\ opened' = opened + 1 /\ at' = opened'
  /\ inbox' = [inbox EXCEPT ![at'] = <<[kind |-> "CONNECT"]>>]
  /\ UNCHANGED <<broker, holding, delivered, publisher, ended, down, history>>

SubscriberGets ==
  /\ down # <<>>
  /\ LET p == Head(down)
     IN  \/ /\ p.kind = "PUBLISH"
            /\ inbox' = [inbox EXCEPT ![at] = Append(@, [kind |-> "PUBREC", id |-> p.id])]
            /\ holding' = holding \cup {p.id}
            /\ delivered' = IF p.id \in holding THEN delivered
                            ELSE [delivered EXCEPT ![p.msg] = @ + 1]
         \/ /\ p.kind = "PUBREL"
            /\ holding' = holding \ {p.id}
            /\ UNCHANGED <<inbox, delivered>>
  /\ down' = Tail(down)
  /\ UNCHANGED <<broker, at, opened, publisher, ended, history>>

----------------------------------------------------------------------------
(* The broker. *)

(* write to the session's socket: heard if the subscriber is still there.  *)
WriteTo(n, packets) ==
  /\ down' = IF n = at THEN down \o packets ELSE down
  /\ unheard' = IF n = at THEN unheard ELSE unheard \cup Releases(packets)

(* The message and the identifier of every PUBLISH written.                *)
Given(packets) == {<<p.msg, p.id>> : p \in ToSet(packets)}

ToPublish(i, m) == [kind |-> "PUBLISH", id |-> MLEncode(i), msg |-> m]

(* The lowest free row; MaxId if there is none.  Mutants: the last row is  *)
(* used again when there is none; always the same row.                     *)
FreeOrLast ==
  LET free == {i \in Id : rows[i].msg = NoMsg} IN IF free = {} THEN {MaxId} ELSE free

Free == {i \in Id : rows[i].msg = NoMsg}
SameRow == 1
NextRow == IF Free = {} THEN MaxId ELSE Min(Free)

(* PUBLISH from the publisher, its DUP flag and identifier unread: a row,  *)
(* a PUBLISH to the newest session if there is one, PUBREC.                *)
GetPublish ==
  /\ flight = "PUBLISH"
  /\ rows' = IF Free = {} THEN rows
             ELSE [rows EXCEPT ![NextRow] = [msg |-> sent, payload |-> "live"]]
  /\ harm' = IF Free = {} THEN harm \cup {"full"} ELSE harm
  /\ IF sessions = {} THEN UNCHANGED <<down, unheard>>
     ELSE WriteTo(Max(sessions), <<ToPublish(NextRow, sent)>>)
  /\ given' = given \cup {<<sent, MLEncode(NextRow)>>}
  /\ accepted' = [accepted EXCEPT ![sent] = @ + 1]
  /\ flight' = "PUBREC"
  /\ UNCHANGED <<up, sessions, subscriber, stage, sent, breaks, inbox, ended>>

GetPubRel ==
  /\ flight = "PUBREL" /\ flight' = "PUBCOMP"
  /\ UNCHANGED <<broker, subscriber, stage, sent, breaks, wires, history>>

(* CONNECT: the new session, and every row again.  A mutant: the first     *)
(* only.                                                                   *)
ResentFirst == LET used == Id \ Free IN IF used = {} THEN <<>> ELSE <<Min(used)>>

Resent ==
  LET used == Id \ Free
  IN  CHOOSE s \in [1..Cardinality(used) -> used] :
        \A j, k \in DOMAIN s : j < k => s[j] < s[k]

GetConnect(n) ==
  /\ Head(inbox[n]).kind = "CONNECT"
  /\ sessions' = sessions \cup {n}
  /\ WriteTo(n, [k \in DOMAIN Resent |-> ToPublish(Resent[k], rows[Resent[k]].msg)])
  /\ UNCHANGED <<up, rows, given, harm>>

(* session_publish_delete: the payload pointer is left dangling.  Freeing  *)
(* it again is undefined: the end of the process, or nothing to be seen.   *)
(* A mutant: the row stays.                                                *)
SessionPublishKeep(i) == UNCHANGED <<up, rows>>
SessionPublishDelete(i) ==
  \/ /\ rows[i].payload # "none"
     /\ rows' = [rows EXCEPT ![i] = FreedRow]
     /\ UNCHANGED up
  \/ rows[i].payload # "live" /\ up' = FALSE /\ UNCHANGED rows

(* The CONNECT on a newer connection has been read. *)
Superseded(n) ==
  \E k \in (n + 1)..opened : inbox[k] = <<>> \/ Head(inbox[k]).kind # "CONNECT"

(* PUBREC: the row string_len reads is dropped, then PUBREL written.       *)
Harm(n, w) ==
  (IF Superseded(n) THEN {"late"} ELSE {}) \cup
  (IF w.msb.high THEN {"astray"} ELSE {})

GetPubRec(n) ==
  LET p == Head(inbox[n])
  IN  /\ p.kind = "PUBREC"
      /\ SessionPublishDelete(StringLen(p.id))
      /\ WriteTo(n, <<[kind |-> "PUBREL", id |-> p.id]>>)
      /\ harm' = harm \cup Harm(n, p.id)
      /\ UNCHANGED <<sessions, given>>

Get(n) ==
  /\ inbox[n] # <<>>
  /\ GetConnect(n) \/ GetPubRec(n)
  /\ inbox' = [inbox EXCEPT ![n] = Tail(@)]
  /\ UNCHANGED <<subscriber, publisher, ended, accepted>>

(* End of stream, behind everything that was sent. *)
Close(n) ==
  /\ n \in ended /\ inbox[n] = <<>>
  /\ sessions' = sessions \ {n} /\ ended' = ended \ {n}
  /\ UNCHANGED <<up, rows, subscriber, publisher, inbox, down, history>>

----------------------------------------------------------------------------
Broker     == up /\ (GetPublish \/ GetPubRel \/ \E n \in Conn : Get(n) \/ Close(n))
Subscriber == up /\ (Come \/ SubscriberGets)
Publisher  == up /\ (PublishNext \/ PublisherGets)
Breaks     == up /\ (PublisherBreaks \/ Leave)

Next == Broker \/ Subscriber \/ Publisher \/ Breaks

(* The loop reads what has arrived on every connection; the clients read   *)
(* what they are sent and come back as long as MaxConn lets them.          *)
Spec ==
  /\ Init /\ [][Next]_vars
  /\ WF_vars(up /\ (GetPublish \/ GetPubRel))
  /\ \A n \in Conn : WF_vars(up /\ (Get(n) \/ Close(n)))
  /\ WF_vars(up /\ Come) /\ WF_vars(up /\ SubscriberGets)
  /\ WF_vars(up /\ PublisherGets)

----------------------------------------------------------------------------
(* No message is delivered more often than the broker took it from the     *)
(* publisher, breaks and repetitions to the subscriber notwithstanding     *)
(* (event.c 88, 203): it is the PUBLISH repeated by the publisher, not     *)
(* looked at for what it is, that arrives twice (event.c 131).  Not so a   *)
(* message that was given a row from Base on: that one stays in its row    *)
(* and arrives with every CONNECT (event.c 226).                           *)
GivenHigh(m) == \E w \in Wire : w.msb.high /\ <<m, w>> \in given

OncePerPublish == \A m \in Msg : GivenHigh(m) \/ delivered[m] <= accepted[m]

(* What was taken is delivered, is in a row that will be sent again, or    *)
(* was given an identifier the subscriber still holds from a PUBREL it did *)
(* not hear of: for PUBREL is never repeated (event.c 226).  A full table  *)
(* (session.c 432), a late PUBREC (session.c 466) and a PUBREC that frees  *)
(* another row than its own (event.c 225) lose messages too.               *)
Kept(m) == \E i \in Id : rows[i].msg = m

LostOnly ==
  up => \A m \in Msg :
    \/ accepted[m] = 0 \/ delivered[m] > 0 \/ Kept(m)
    \/ harm # {}
    \/ \E w \in unheard : <<m, w>> \in given

(* An acknowledgement frees what was freed before (session.c 474) only if  *)
(* it comes late, carries the identifier a full table gave twice, or is    *)
(* read as another row's.                                                  *)
DiesOnly == ~up => harm # {}

(* If the subscriber stays in the end, no row below Base is taken for      *)
(* ever: what was not acknowledged before is sent again (event.c 71) and   *)
(* then is.                                                                *)
Stays == <>[](at # 0)

RowsReturn ==
  Stays => \A i \in Id : i < Base =>
    \A m \in Msg : rows[i].msg = m ~> rows[i].msg # m \/ ~up

(* A row from Base on is taken once: no acknowledgement, its own included, *)
(* ever gives it back (event.c 209, 225), and the table fills up with them *)
(* for as long as the process runs.                                        *)
HighRowsStay ==
  [][\A i \in Id : i >= Base /\ rows[i].msg # NoMsg => rows'[i] = rows[i]]_vars
=============================================================================

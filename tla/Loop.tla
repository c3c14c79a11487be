-------------------------------- MODULE Loop --------------------------------
(***************************************************************************)
(* The event loops, plain (server_socket_loop) and TLS                     *)
(* (server_socket_tls_loop), with what they need of event_handle and       *)
(* mqtt_pack_decode: where a packet starts, how long it is, whether its    *)
(* connection goes on, and to whom the handler writes.                     *)
(*                                                                         *)
(* Bytes are positions in what a client sends.  Both loops read at most    *)
(* Buff of them and take packets from there: the first from the start of   *)
(* the buffer, each other from the length of the one before it -- not from *)
(* where that one ended.  Writes block and are not checked.                *)
(*                                                                         *)
(* Whether the handler survives a packet that it read whole is the matter  *)
(* of modules Wire (an empty client id), Dedup (two surplus subscribers),  *)
(* TopicTrie (giving up what nobody holds) and Broker (a will for a client *)
(* that is away); here a packet it may die of, at once or at the end of    *)
(* the session, is called deadly.                                          *)
(***************************************************************************)
EXTENDS Integers, FiniteSets, SequencesExt, FiniteSetsExt

CONSTANTS Client,    \* peers, each of which connects once
          Buff,      \* BUFF_SIZE, 128 in the code
          Base,      \* 128: lengths from here on take a second byte
          Streams,   \* bound: what each client may have to say
          Cuts,      \* bound: bytes after which what it sends may pause
          Room       \* bound: writes a peer takes before it has to read

Kind == {"connect", "ping", "publish", "disconnect"}

(* will: a CONNECT with a will.  deadly: handling the packet, or later     *)
(* closing its session (its will, its filters), may be the end of the      *)
(* process.                                                                *)
Packets == [kind : Kind, len : Nat, will : BOOLEAN, deadly : BOOLEAN]

ASSUME LoopAssumption ==
  /\ Buff \in Nat \ {0} /\ Base \in Nat \ {0} /\ Room \in Nat \ {0}
  /\ \A c \in Client : Streams[c] \subseteq Seq(Packets)
  /\ Cuts \in [Client -> SUBSET Nat]

VARIABLES
  tls,      \* config.tls
  stream,   \* what each client sends, packet by packet
  up,       \* FALSE once the process has died
  conn,     \* "none", "asking", "open" or "closed" for each client
  segs,     \* where the bytes end that have arrived and are not read: one place
            \* when plain, one for each TLS record otherwise
  half,     \* part of the first record is already inside the SSL object
  taken,    \* bytes read so far
  gone,     \* what is left of the peer: "here", "fin", "reset" or "broken"
  room,     \* how many more writes the peer's socket takes
  session,  \* a CONNECT was accepted
  pc,       \* "wait", "events", "packets", "shaking" or "closing"
  batch,    \* connections epoll_wait has reported and the loop not yet come to
  cur,      \* the read at work: its connection, bytes before it, packet_len, str_len
  acted,    \* history: the packets event_handle has acted on
  tidy,     \* history: every read was one or two whole packets
  clean     \* history: every read started with a packet and began one or two

peers == <<stream, tls>>
vars == <<tls, stream, up, conn, segs, half, taken, gone, room, session,
          pc, batch, cur, acted, tidy, clean>>

Listener == "server_sock"

NoRead(c) == [conn |-> c, base |-> 0, off |-> 0, left |-> 0]

MaxLen == Max({0} \cup UNION {{p.len : p \in ToSet(s)} : s \in UNION {Streams[c] : c \in Client}})

----------------------------------------------------------------------------
(* Packets as bytes. *)

(* A type byte, one or two length bytes, the rest.                         *)
HeaderSize(p) == IF p.len < Base THEN 2 ELSE 3
Size(p)       == HeaderSize(p) + p.len

(* Where the n-th packet of a client ends. *)
End(c, n) ==
  LET end[k \in 0..Len(stream[c])] == IF k = 0 THEN 0 ELSE end[k - 1] + Size(stream[c][k])
  IN  end[n]

Boundary(c, b) == \E n \in 0..Len(stream[c]) : End(c, n) = b

(* The packets that begin among the bytes after a, up to b. *)
Begun(c, a, b) == {n \in DOMAIN stream[c] : a <= End(c, n - 1) /\ End(c, n - 1) < b}

(* What mqtt_pack_decode reports as packet_len: two, whatever the number   *)
(* of length bytes.                                                        *)
PacketLen(n) == n + 2

(* Where in the buffer the next packet is taken from.  Mutants: always the *)
(* start; where the one before ended.                                      *)
NextOffsetNone(off, len) == 0
NextOffsetSum(off, len) == off + len
NextOffset(off, len) == len

(* str_len after a packet.  A mutant: never below zero.                    *)
LeftClipped(left, len) == IF len > left THEN 0 ELSE left - len
LeftAfter(left, len) == left - len

----------------------------------------------------------------------------
Init ==
  /\ tls \in BOOLEAN
  /\ stream \in {f \in [Client -> UNION Range(Streams)] : \A c \in Client : f[c] \in Streams[c]}
  /\ up = TRUE
  /\ conn = [c \in Client |-> "none"]
  /\ segs = [c \in Client |-> <<>>]
  /\ half = [c \in Client |-> FALSE]
  /\ taken = [c \in Client |-> 0]
  /\ gone = [c \in Client |-> "here"]
  /\ room = [c \in Client |-> Room]
  /\ session = [c \in Client |-> FALSE]
  /\ pc = "wait"
  /\ batch = {}
  /\ cur = NoRead(CHOOSE c \in Client : TRUE)
  /\ acted = [c \in Client |-> <<>>]
  /\ tidy = [c \in Client |-> TRUE]
  /\ clean = [c \in Client |-> TRUE]

Die ==
  /\ up' = FALSE
  /\ UNCHANGED <<peers, conn, segs, half, taken, gone, room, session,
                 pc, batch, cur, acted, tidy, clean>>

----------------------------------------------------------------------------
(* The peers. *)
server == <<up, session, pc, batch, cur, acted, tidy, clean, taken>>

Ask(c) ==
  /\ conn[c] = "none"
  /\ conn' = [conn EXCEPT ![c] = "asking"]
  /\ UNCHANGED <<peers, server, segs, half, gone, room>>

(* Some more bytes arrive: a TCP stream has no seams, a TLS record has.    *)
Arrive(c) ==
  /\ conn[c] = "open" /\ gone[c] = "here"
  /\ LET from == IF segs[c] = <<>> THEN taken[c] ELSE Last(segs[c])
         all  == End(c, Len(stream[c]))
     IN  \E b \in {b \in Cuts[c] \cup {all} : from < b /\ b <= all} :
           segs' = [segs EXCEPT ![c] = IF tls THEN Append(@, b) ELSE <<b>>]
  /\ UNCHANGED <<peers, server, conn, half, gone, room>>

Leave(c) ==
  /\ conn[c] \in {"asking", "open"} /\ gone[c] = "here"
  /\ \E how \in {"fin", "reset"} : gone' = [gone EXCEPT ![c] = how]
  /\ UNCHANGED <<peers, server, conn, segs, half, room>>

(* The peer reads what was written to it. *)
Drain(c) ==
  /\ room[c] < Room /\ gone[c] = "here"
  /\ room' = [room EXCEPT ![c] = Room]
  /\ UNCHANGED <<peers, server, conn, segs, half, gone>>

----------------------------------------------------------------------------
(* epoll_wait. *)

(* The kernel knows nothing of the bytes inside an SSL object.  A mutant:  *)
(* it reports only what has arrived on a connection never read before.     *)
ReadyOnce(c) ==
  /\ conn[c] = "open"
  /\ \/ segs[c] # <<>> /\ taken[c] = 0
     \/ gone[c] # "here"

Ready(c) ==
  /\ conn[c] = "open"
  /\ \/ segs[c] # <<>> /\ ~(half[c] /\ Len(segs[c]) = 1)
     \/ gone[c] # "here"

Asking == {c \in Client : conn[c] = "asking"}

EpollWait ==
  /\ pc = "wait"
  /\ batch' = {c \in Client : Ready(c)} \cup (IF Asking = {} THEN {} ELSE {Listener})
  /\ batch' # {}
  /\ pc' = "events"
  /\ UNCHANGED <<peers, up, conn, segs, half, taken, gone, room, session,
                 cur, acted, tidy, clean>>

EventsDone ==
  /\ pc = "events" /\ batch = {}
  /\ pc' = "wait"
  /\ UNCHANGED <<peers, up, conn, segs, half, taken, gone, room, session,
                 batch, cur, acted, tidy, clean>>

(* accept, and SSL_accept, which waits for the peer: nobody else is served *)
(* until the handshake is over.                                            *)
Accept(c) ==
  /\ pc = "events" /\ Listener \in batch /\ conn[c] = "asking"
  /\ IF tls
     THEN pc' = "shaking" /\ cur' = NoRead(c) /\ UNCHANGED <<conn, batch>>
     ELSE /\ conn' = [conn EXCEPT ![c] = "open"]
          /\ batch' = batch \ {Listener}
          /\ UNCHANGED <<pc, cur>>
  /\ UNCHANGED <<peers, up, segs, half, taken, gone, room, session, acted, tidy, clean>>

(* The peer's part of the handshake.  When it fails socket_tls_accept      *)
(* returns NULL, whose fd is then given to epoll_ctl.                      *)
Handshake(c) ==
  /\ pc = "shaking" /\ cur.conn = c
  /\ \/ /\ gone[c] = "here"
        /\ conn' = [conn EXCEPT ![c] = "open"]
        /\ batch' = batch \ {Listener}
        /\ pc' = "events"
        /\ UNCHANGED <<peers, up, segs, half, taken, gone, room, session,
                       cur, acted, tidy, clean>>
     \/ Die

(* socket_close; socket_tls_close says good-bye and waits for the answer.  *)
CloseConn(c) ==
  /\ conn' = [conn EXCEPT ![c] = "closed"]
  /\ session' = [session EXCEPT ![c] = FALSE]
  /\ segs' = [segs EXCEPT ![c] = <<>>]
  /\ half' = [half EXCEPT ![c] = FALSE]
  /\ batch' = batch \ {c}

Shutdown(c) == pc' = IF tls /\ gone[c] = "here" THEN "closing" ELSE "events"

GoodBye(c) ==
  /\ pc = "closing" /\ cur.conn = c
  /\ pc' = "events"
  /\ UNCHANGED <<peers, up, conn, segs, half, taken, gone, room, session,
                 batch, cur, acted, tidy, clean>>

(* Writing to each of to: it waits for those that have no room.  The first *)
(* write to a peer that has gone passes or returns an error nobody looks   *)
(* at, the second is the end of the process (SIGPIPE).  A mutant: the first *)
(* is the end.                                                             *)
CanWrite(to) == \A d \in to : gone[d] = "here" => room[d] > 0
BrokenAtOnce(to) == \E d \in to : gone[d] # "here"
Broken(to) == \E d \in to : gone[d] = "broken"

Write(to) ==
  /\ room' = [d \in Client |-> IF d \in to /\ gone[d] = "here" THEN room[d] - 1 ELSE room[d]]
  /\ gone' = [d \in Client |-> IF d \in to /\ gone[d] # "here" THEN "broken" ELSE gone[d]]

(* A session that closes publishes the will of its CONNECT, if it had one. *)
(* Who has acted on part of a packet may have read a will there.           *)
Everyone   == {d \in Client : session[d]}
Said(c)    == {stream[c][e.n] : e \in {e \in ToSet(acted[c]) : e.whole}}
Garbled(c) == \E e \in ToSet(acted[c]) : ~e.whole

LastWords(c) ==
  IF session[c] /\ (Garbled(c) \/ \E p \in Said(c) : p.will) THEN {{}, Everyone} ELSE {{}}

EndKills(c) ==
  session[c] /\ (Garbled(c) \/ \E p \in Said(c) : p.deadly)

EndOfStream(c) ==
  /\ pc = "events" /\ c \in batch
  /\ \/ gone[c] = "fin" /\ segs[c] = <<>>
     \/ gone[c] \in {"reset", "broken"}
  /\ \/ EndKills(c) /\ Die
     \/ \E to \in LastWords(c) :
          /\ CanWrite(to)
          /\ IF Broken(to) THEN Die
             ELSE /\ Write(to) /\ CloseConn(c)
                  /\ UNCHANGED <<peers, up, taken, pc, cur, acted, tidy, clean>>

Read(c) ==
  /\ pc = "events" /\ c \in batch /\ segs[c] # <<>>
  /\ LET a    == taken[c]
         k    == Min({Buff, Head(segs[c]) - a})
         rest == a + k < Head(segs[c])
     IN  /\ segs' = [segs EXCEPT ![c] = IF rest THEN @ ELSE Tail(@)]
         /\ half' = [half EXCEPT ![c] = tls /\ rest]
         /\ taken' = [taken EXCEPT ![c] = a + k]
         /\ cur' = [conn |-> c, base |-> a, off |-> 0, left |-> k]
         /\ LET fair == Boundary(c, a) /\ Cardinality(Begun(c, a, a + k)) \in 1..2
            IN  /\ clean' = [clean EXCEPT ![c] = @ /\ fair]
                /\ tidy' = [tidy EXCEPT ![c] = @ /\ fair /\ Boundary(c, a + k)]
  /\ pc' = "packets"
  /\ UNCHANGED <<peers, up, conn, gone, room, session, batch, acted>>

----------------------------------------------------------------------------
(* while(str_len): one packet. *)

Here == cur.base + cur.off

(* What of the n-th packet of c, if that is what stands Here, was read. *)
Framed(c, n)     == n \in DOMAIN stream[c] /\ End(c, n - 1) = Here
LengthSeen(c, n) == Framed(c, n) /\ HeaderSize(stream[c][n]) <= cur.left
Whole(c, n)      == Framed(c, n) /\ Size(stream[c][n]) <= cur.left

GoOn(c, len) ==
  /\ cur' = [cur EXCEPT !.off = NextOffset(@, len), !.left = LeftAfter(@, len)]
  /\ IF LeftAfter(cur.left, len) = 0
     THEN pc' = "events" /\ batch' = batch \ {c}
     ELSE UNCHANGED <<pc, batch>>

(* To whom the handler of a packet writes: a PUBLISH goes to everyone with *)
(* a session, CONNECT and PINGREQ are answered; a CONNECT that cannot be   *)
(* decoded and DISCONNECT close the session there is.                      *)
Targets(c, p) ==
  CASE p.kind = "publish"    -> {Everyone}
    [] p.kind = "ping"       -> {{c}}
    [] p.kind = "connect"    -> {{c}} \cup LastWords(c)
    [] p.kind = "disconnect" -> LastWords(c)

Kills(c, p) ==
  \/ p.deadly
  \/ p.kind \in {"connect", "disconnect"} /\ EndKills(c)

HandleWhole(c, n) ==
  LET p == stream[c][n]
  IN  /\ Whole(c, n)
      /\ session[c] \/ p.kind = "connect"
      /\ \/ Kills(c, p) /\ Die
         \/ \E to \in Targets(c, p) :
              /\ CanWrite(to)
              /\ IF Broken(to) THEN Die
                 ELSE /\ Write(to)
                      /\ acted' = [acted EXCEPT ![c] = Append(@, [n |-> n, whole |-> TRUE])]
                      /\ \/ /\ p.kind # "disconnect" /\ (p.kind = "connect" => to = {c})
                            /\ session' = [session EXCEPT ![c] = TRUE]
                            /\ GoOn(c, PacketLen(p.len))
                            /\ UNCHANGED <<conn, segs, half>>
                         \/ /\ p.kind \in {"disconnect", "connect"}
                            /\ CloseConn(c) /\ Shutdown(c) /\ UNCHANGED cur
                      /\ UNCHANGED <<peers, up, taken, tidy, clean>>

(* Before a CONNECT was accepted everything else is turned away. *)
TurnAway(c, n) ==
  /\ Whole(c, n)
  /\ ~session[c] /\ stream[c][n].kind # "connect"
  /\ CloseConn(c) /\ Shutdown(c)
  /\ UNCHANGED <<peers, up, taken, gone, room, cur, acted, tidy, clean>>

(* Part of a packet, or the middle of one: what is missing is whatever the *)
(* buffers held.  It may kill the handler, be refused, or be acted on; if  *)
(* the length was read it is at least taken for what it is.                *)
HandleTorn(c) ==
  /\ \A n \in DOMAIN stream[c] : ~Whole(c, n)
  /\ \/ Die
     \/ /\ \E to \in LastWords(c) : CanWrite(to) /\ ~Broken(to) /\ Write(to)
        /\ CloseConn(c) /\ Shutdown(c)
        /\ UNCHANGED <<peers, up, taken, cur, acted, tidy, clean>>
     \/ /\ \E to \in {{}, {c}, Everyone} : CanWrite(to) /\ ~Broken(to) /\ Write(to)
        /\ \E len \in 0..MaxLen :
             /\ \A n \in DOMAIN stream[c] : LengthSeen(c, n) => len = stream[c][n].len
             /\ GoOn(c, PacketLen(len))
        /\ \E s \in BOOLEAN : session' = [session EXCEPT ![c] = @ \/ s]
        /\ acted' = [acted EXCEPT ![c] = Append(@, [n |-> 0, whole |-> FALSE])]
        /\ UNCHANGED <<peers, up, conn, segs, half, taken, tidy, clean>>

(* str_len went below zero, which is not FALSE: memmove is asked for almost *)
(* all of the address space.                                               *)
HandlePacket(c) ==
  /\ pc = "packets" /\ cur.conn = c
  /\ IF cur.left < 0 THEN Die
     ELSE HandleTorn(c) \/ \E n \in DOMAIN stream[c] : HandleWhole(c, n) \/ TurnAway(c, n)

----------------------------------------------------------------------------
Serve ==
  /\ up
  /\ \/ EpollWait \/ EventsDone
     \/ \E c \in Client : Accept(c) \/ EndOfStream(c) \/ Read(c) \/ HandlePacket(c)

Peers ==
  /\ up
  /\ \E c \in Client :
       Ask(c) \/ Arrive(c) \/ Leave(c) \/ Drain(c) \/ Handshake(c) \/ GoodBye(c)

Next == Serve \/ Peers

(* The loop itself runs whenever it is not waiting for a peer. *)
Spec == Init /\ [][Next]_vars /\ WF_vars(Serve)

----------------------------------------------------------------------------
(* While reads hold one or two whole packets, every packet is acted on     *)
(* once, in the order sent, whatever else goes on (service_socket.c 117).  *)
InOrder ==
  \A c \in Client : tidy[c] => acted[c] = [n \in DOMAIN acted[c] |-> [n |-> n, whole |-> TRUE]]

(* Three or more whole packets of one size in a read: from the third on it *)
(* is the second that is acted on again, packet_len being the length of    *)
(* one packet and not the sum of those before (service_socket.c 119).      *)
SecondAgain ==
  LET c     == cur.conn
      begun == Begun(c, cur.base, taken[c])
      first == Min(begun)
      size  == Size(stream[c][first])
      done  == (taken[c] - cur.base - cur.left) \div size
  IN  /\ conn[c] = "open" /\ cur.off > 0
      /\ Boundary(c, cur.base) /\ Boundary(c, taken[c])
      /\ \A n \in begun : Size(stream[c][n]) = size
      => Last(acted[c]) = [n |-> first + Min({done, 2}) - 1, whole |-> TRUE]

(* A packet that is cut by the end of a read costs its connection or the   *)
(* process: the loop never goes on reading in the middle of a packet,      *)
(* unless the cut went through the length bytes (service_socket.c 140).    *)
BoundaryOrDead ==
  \A c \in Client :
    up /\ conn[c] = "open" /\ clean[c] /\ ~(pc = "packets" /\ cur.conn = c)
      => \/ Boundary(c, taken[c])
         \/ \E n \in DOMAIN stream[c] :
              HeaderSize(stream[c][n]) = 3 /\ taken[c] = End(c, n - 1) + 2

(* Peers whose packets come one or two to a read, that have sent none that *)
(* is deadly of itself, and that are not written to twice after they have  *)
(* gone, do not bring the process down, a failed handshake aside           *)
(* (event.c 27).                                                           *)
Decent(c) ==
  /\ tidy[c] /\ gone[c] # "broken"
  /\ \A n \in DOMAIN stream[c] : stream[c][n].deadly => End(c, n) > taken[c]

AliveIfDecent == (\A c \in Client : Decent(c)) /\ pc # "shaking" => up

(* Every peer that stays reads what it is sent, and the loop is not held   *)
(* up for ever in a handshake or a good-bye.                               *)
Attentive ==
  /\ <>[](\A c \in Client : room[c] > 0 \/ gone[c] # "here")
  /\ []<>(pc \notin {"shaking", "closing"})

(* Then what has arrived is read or its connection closed -- but for the   *)
(* rest of a TLS record longer than the buffer: epoll_wait does not know   *)
(* of it and SSL_pending is never asked (service_socket_tls.c 162).        *)
Waiting(c) == up /\ conn[c] = "open" /\ segs[c] # <<>> /\ ~(half[c] /\ Len(segs[c]) = 1)

Served == Attentive => \A c \in Client : Waiting(c) ~> ~Waiting(c)
=============================================================================

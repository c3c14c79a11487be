----------------------------- MODULE LoopProofs -----------------------------
(***************************************************************************)
(* Proofs about the event loops, for any number of clients, any streams of *)
(* packets and any way the bytes are cut, where a packet that fits into    *)
(* the buffer has one length byte (Short: both are 128 in the code).       *)
(***************************************************************************)
EXTENDS Loop, SequenceTheorems, WellFoundedInduction, FiniteSetTheorems, TLAPS

Short == Buff <= Base + 1

----------------------------------------------------------------------------
(* Least numbers, and induction up to a bound.                             *)

LEMMA LeastNumber ==
  ASSUME NEW S, S \subseteq Nat, S # {}
  PROVE  \E n \in S : \A m \in S : n <= m
<1> DEFINE R == OpToRel(<, Nat)
<1>1. PICK n \in S : \A m \in S : <<m, n>> \notin R
  <2>1. IsWellFoundedOn(R, Nat)
    BY NatLessThanWellFounded
  <2> QED BY <2>1, WFMin
<1>2. \A m \in S : ~(m < n)
  BY <1>1 DEF OpToRel
<1> HIDE DEF R
<1> QED BY <1>2

LEMMA LeastOfTwo ==
  ASSUME NEW x \in Int, NEW y \in Int
  PROVE  Min({x, y}) = IF x <= y THEN x ELSE y
  BY DEF Min

(* What holds of 0 and goes from a number to the next one holds up to the  *)
(* bound.                                                                  *)
LEMMA UpTo ==
  ASSUME NEW b \in Nat, NEW S, 0 \in S,
         \A n \in 0..b : n > 0 /\ n - 1 \in S => n \in S
  PROVE  \A n \in 0..b : n \in S
<1> DEFINE Out == {n \in 0..b : n \notin S}
<1>1. SUFFICES ASSUME Out # {} PROVE FALSE
  OBVIOUS
<1>2. PICK n \in Out : \A m \in Out : n <= m
  <2>1. Out \subseteq Nat
    OBVIOUS
  <2> HIDE DEF Out
  <2> QED BY <1>1, <2>1, LeastNumber
<1>3. n \in 0..b /\ n > 0 /\ n - 1 \notin Out
  BY <1>2
<1>4. n - 1 \in S
  BY <1>3
<1> QED BY <1>2, <1>3, <1>4

----------------------------------------------------------------------------
(* Where packets end.                                                      *)

LEMMA PacketSize ==
  ASSUME NEW p \in Packets
  PROVE  /\ HeaderSize(p) \in 2..3
         /\ Size(p) \in Nat /\ Size(p) = HeaderSize(p) + p.len /\ Size(p) >= 2
         /\ p.len < Base <=> HeaderSize(p) = 2
  BY LoopAssumption DEF Packets, HeaderSize, Size

(* The sum of sizes that End stands for exists.                            *)
LEMMA SumExists ==
  ASSUME NEW s \in Seq(Packets)
  PROVE  \E f \in [0..Len(s) -> Nat] :
           f = [k \in 0..Len(s) |-> IF k = 0 THEN 0 ELSE f[k - 1] + Size(s[k])]
<1> DEFINE Upto(n, f) == \A k \in 0..n : f[k] = IF k = 0 THEN 0 ELSE f[k - 1] + Size(s[k])
           S == {n \in Nat : \E f \in [0..n -> Nat] : Upto(n, f)}
<1>1. 0 \in S
  <2>1. [k \in 0..0 |-> 0] \in [0..0 -> Nat] /\ Upto(0, [k \in 0..0 |-> 0])
    OBVIOUS
  <2> QED BY <2>1
<1>2. ASSUME NEW n \in 0..Len(s), n > 0, n - 1 \in S PROVE n \in S
  <2>1. PICK f \in [0..(n - 1) -> Nat] : Upto(n - 1, f)
    BY <1>2
  <2> DEFINE g == [k \in 0..n |-> IF k = n THEN f[n - 1] + Size(s[n]) ELSE f[k]]
  <2>2. n \in 1..Len(s) /\ s[n] \in Packets
    BY <1>2
  <2>3. Size(s[n]) \in Nat
    BY <2>2, PacketSize
  <2>4. g \in [0..n -> Nat]
    BY <2>1, <2>2, <2>3
  <2>5. ASSUME NEW k \in 0..n PROVE g[k] = IF k = 0 THEN 0 ELSE g[k - 1] + Size(s[k])
    <3>1. CASE k = n
      BY <3>1, <2>2
    <3>2. CASE k # n
      <4>1. k \in 0..(n - 1) /\ g[k] = f[k] /\ k > 0 => k - 1 \in 0..(n - 1) /\ g[k - 1] = f[k - 1]
        BY <3>2, <2>2
      <4>2. k \in 0..(n - 1) /\ g[k] = f[k]
        BY <3>2, <2>2
      <4> QED BY <4>1, <4>2, <2>1, <2>2
    <3> QED BY <3>1, <3>2
  <2>6. n \in Nat /\ Upto(n, g)
    BY <2>2, <2>5
  <2> HIDE DEF g
  <2> QED BY <2>4, <2>6
<1> HIDE DEF S
<1>3. Len(s) \in S
  <2>1. Len(s) \in Nat
    OBVIOUS
  <2>2. \A n \in 0..Len(s) : n \in S
    BY <1>1, <1>2, <2>1, UpTo
  <2> QED BY <2>1, <2>2
<1>4. PICK f \in [0..Len(s) -> Nat] : Upto(Len(s), f)
  BY <1>3 DEF S
<1>5. f = [k \in 0..Len(s) |-> IF k = 0 THEN 0 ELSE f[k - 1] + Size(s[k])]
  BY <1>4
<1> QED BY <1>5

LEMMA EndIs ==
  ASSUME NEW c, stream[c] \in Seq(Packets)
  PROVE  /\ End(c, 0) = 0
         /\ \A n \in 0..Len(stream[c]) : End(c, n) \in Nat
         /\ \A n \in 1..Len(stream[c]) : End(c, n) = End(c, n - 1) + Size(stream[c][n])
<1> DEFINE s == stream[c]
           Sum(f) == f = [k \in 0..Len(s) |-> IF k = 0 THEN 0 ELSE f[k - 1] + Size(s[k])]
           end == CHOOSE f : Sum(f)
<1>1. PICK f \in [0..Len(s) -> Nat] : Sum(f)
  BY SumExists
<1>2. Sum(end)
  BY <1>1
<1>3. \A n \in 0..Len(s) : End(c, n) = end[n]
  BY DEF End
<1>4. Len(s) \in Nat
  OBVIOUS
<1> HIDE DEF end
<1>5. \A k \in 0..Len(s) : end[k] = IF k = 0 THEN 0 ELSE end[k - 1] + Size(s[k])
  BY <1>2
<1>6. \A n \in 1..Len(s) : n \in 0..Len(s) /\ n - 1 \in 0..Len(s) /\ s[n] \in Packets
  BY <1>4
<1>7. end[0] = 0
  BY <1>4, <1>5
<1> DEFINE S == {n \in 0..Len(s) : end[n] \in Nat}
<1>8. \A n \in 0..Len(s) : n \in S
  <2>1. 0 \in S
    BY <1>4, <1>7
  <2>2. ASSUME NEW n \in 0..Len(s), n > 0, n - 1 \in S PROVE n \in S
    <3>1. n \in 1..Len(s) /\ Size(s[n]) \in Nat
      BY <2>2, <1>6, PacketSize
    <3> QED BY <3>1, <2>2, <1>5
  <2> HIDE DEF S
  <2> QED BY <2>1, <2>2, <1>4, UpTo
<1>9. \A n \in 0..Len(s) : end[n] \in Nat
  BY <1>8
<1>10. \A n \in 1..Len(s) : end[n] = end[n - 1] + Size(s[n])
  BY <1>5, <1>6
<1> HIDE DEF S, Sum
<1>11. End(c, 0) = 0
  BY <1>3, <1>4, <1>7
<1>12. ASSUME NEW n \in 0..Len(stream[c]) PROVE End(c, n) \in Nat
  BY <1>3, <1>9
<1>13. ASSUME NEW n \in 1..Len(stream[c])
       PROVE  End(c, n) = End(c, n - 1) + Size(stream[c][n])
  <2>1. n \in 0..Len(s) /\ n - 1 \in 0..Len(s)
    BY <1>6
  <2>2. End(c, n) = end[n] /\ End(c, n - 1) = end[n - 1]
    BY <1>3, <2>1
  <2>3. end[n] = end[n - 1] + Size(s[n])
    BY <1>10
  <2> QED BY <2>2, <2>3
<1> QED BY <1>11, <1>12, <1>13

(* Ends are in the order of the packets, two bytes apart at least.         *)
LEMMA EndsGrow ==
  ASSUME NEW c, stream[c] \in Seq(Packets),
         NEW i \in 0..Len(stream[c]), NEW j \in 0..Len(stream[c]), i < j
  PROVE  End(c, i) + 2 <= End(c, j)
<1> DEFINE L == Len(stream[c])
           S == {n \in 0..L : i < n => End(c, i) + 2 <= End(c, n)}
<1>1. 0 \in S
  OBVIOUS
<1>2. ASSUME NEW n \in 0..L, n > 0, n - 1 \in S PROVE n \in S
  <2>1. /\ n \in 1..L /\ End(c, n) \in Nat /\ End(c, n - 1) \in Nat /\ End(c, i) \in Nat
        /\ End(c, n) = End(c, n - 1) + Size(stream[c][n])
        /\ stream[c][n] \in Packets
    BY <1>2, EndIs
  <2>2. Size(stream[c][n]) \in Nat /\ Size(stream[c][n]) >= 2
    BY <2>1, PacketSize
  <2>3. CASE i = n - 1
    BY <2>1, <2>2, <2>3
  <2>4. CASE i < n - 1
    <3>1. End(c, i) + 2 <= End(c, n - 1)
      BY <1>2, <2>4
    <3> QED BY <3>1, <2>1, <2>2
  <2> QED BY <2>1, <2>3, <2>4
<1> HIDE DEF S
<1>3. j \in S
  <2>1. L \in Nat
    OBVIOUS
  <2>2. \A n \in 0..L : n \in S
    BY <1>1, <1>2, <2>1, UpTo
  <2> QED BY <2>2
<1> QED BY <1>3 DEF S

(* Hence an end belongs to one packet. *)
LEMMA EndsDiffer ==
  ASSUME NEW c, stream[c] \in Seq(Packets),
         NEW i \in 0..Len(stream[c]), NEW j \in 0..Len(stream[c])
  PROVE  /\ End(c, i) = End(c, j) => i = j
         /\ End(c, i) < End(c, j) => i < j
         /\ i <= j => End(c, i) <= End(c, j)
<1>1. /\ End(c, i) \in Nat /\ End(c, j) \in Nat
      /\ i < j => End(c, i) + 2 <= End(c, j)
      /\ j < i => End(c, j) + 2 <= End(c, i)
  BY EndIs, EndsGrow
<1> QED BY <1>1
----------------------------------------------------------------------------
(* The inductive invariants.                                               *)

Typed ==
  /\ tls \in BOOLEAN /\ up \in BOOLEAN
  /\ stream \in [Client -> Seq(Packets)]
  /\ conn \in [Client -> {"none", "asking", "open", "closed"}]
  /\ segs \in [Client -> Seq(Nat)]
  /\ taken \in [Client -> Nat]
  /\ gone \in [Client -> {"here", "fin", "reset", "broken"}]
  /\ pc \in {"wait", "events", "packets", "shaking", "closing"}
  /\ cur \in [conn : {cur.conn}, base : Nat, off : Nat, left : Int]
  /\ acted \in [Client -> Seq([n : Nat, whole : BOOLEAN])]
  /\ tidy \in [Client -> BOOLEAN] /\ clean \in [Client -> BOOLEAN]

(* What has arrived lies in order behind what was read, on connections     *)
(* that are open.                                                          *)
Arrived ==
  \A c \in Client :
    /\ segs[c] # <<>> => conn[c] = "open"
    /\ taken[c] <= End(c, Len(stream[c]))
    /\ \A i \in DOMAIN segs[c] :
         /\ taken[c] < segs[c][i] /\ segs[c][i] <= End(c, Len(stream[c]))
         /\ \A k \in DOMAIN segs[c] : i < k => segs[c][i] < segs[c][k]

InRead(c) == pc = "packets" /\ cur.conn = c

(* The read at work. *)
AtWork ==
  /\ pc = "packets" => cur.conn \in Client /\ conn[cur.conn] = "open" /\ cur.left # 0
  /\ pc = "shaking" => cur.conn \in Client /\ conn[cur.conn] = "asking"
  /\ cur.off > 0 => cur.conn \in Client
  /\ pc = "packets" \/ cur.off > 0 =>
       /\ conn[cur.conn] \in {"open", "closed"}
       /\ cur.base < taken[cur.conn] /\ taken[cur.conn] <= cur.base + Buff

Laid == Typed /\ Arrived /\ AtWork

(* Of a client whose reads held one or two whole packets: those acted on   *)
(* are the first ones, and are as many as were read, but for the one or    *)
(* two of the read at work.                                                *)
Follows(c) ==
  /\ acted[c] = [n \in 1..Len(acted[c]) |-> [n |-> n, whole |-> TRUE]]
  /\ Len(acted[c]) <= Len(stream[c]) /\ End(c, Len(acted[c])) <= taken[c]
  /\ conn[c] # "closed" /\ ~InRead(c) => taken[c] = End(c, Len(acted[c]))
  /\ InRead(c) =>
       /\ Here = End(c, Len(acted[c])) /\ cur.left = taken[c] - Here
       /\ \E j \in 1..2 : /\ Len(acted[c]) + j <= Len(stream[c])
                          /\ taken[c] = End(c, Len(acted[c]) + j)
                          /\ j = 2 => cur.off = 0

Orderly == \A c \in Client : tidy[c] => Follows(c)

(* One of the packets of c that may kill was read. *)
Dire(c) == \E n \in DOMAIN stream[c] : stream[c][n].deadly /\ End(c, n) <= taken[c]

Living ==
  up \/ pc = "shaking" \/ \E c \in Client : ~tidy[c] \/ gone[c] = "broken" \/ Dire(c)

(* Where the loop stands with a client whose reads began with a packet: it *)
(* is behind one, or in the middle of the length of one, or about to die,  *)
(* or at the first or second packet of a read.                             *)
Stands(c) ==
  /\ ~InRead(c) => \/ Boundary(c, taken[c])
                   \/ \E n \in DOMAIN stream[c] :
                        HeaderSize(stream[c][n]) = 3 /\ taken[c] = End(c, n - 1) + 2
  /\ InRead(c) =>
       \/ cur.left < 0
       \/ /\ cur.left = taken[c] - Here
          /\ \E n \in DOMAIN stream[c] :
               /\ Here = End(c, n - 1)
               /\ \/ cur.off = 0 /\ (n < Len(stream[c]) => taken[c] <= End(c, n + 1))
                  \/ taken[c] <= End(c, n)

Bounded == \A c \in Client : clean[c] /\ conn[c] # "closed" => Stands(c)

(* The read at work is of the packets after the i-th up to the j-th one of  *)
(* c, all of size s; m of them are left, the last one acted on was the      *)
(* first, or else the second.                                              *)
OfSize(c, i, j, s) == \A n \in (i + 1)..j : Size(stream[c][n]) = s

Spans(c, i, j) == cur.base = End(c, i) /\ taken[c] = End(c, j)

Remain(c, i, j, s, m) ==
  /\ cur.left = m * s
  /\ cur.off = IF m = j - i THEN 0 ELSE s
  /\ m < j - i => Last(acted[c]) = [n     |-> IF m + 1 = j - i THEN i + 1 ELSE i + 2,
                                    whole |-> TRUE]

Repeated(c) ==
  \A i, j \in 0..Len(stream[c]), s \in Nat :
    Spans(c, i, j) /\ OfSize(c, i, j, s) => \E m \in 0..(j - i) : Remain(c, i, j, s, m)

Repeats ==
  (cur.off > 0 \/ pc = "packets") /\ conn[cur.conn] = "open" => Repeated(cur.conn)

----------------------------------------------------------------------------
(* What a step does. *)

LEMMA EndSame ==
  ASSUME stream' = stream
  PROVE  \A c, n : End(c, n)' = End(c, n)
  BY DEF End

(* The outcomes of a turn of while(str_len). *)
Append1(c, entry) == acted' = [acted EXCEPT ![c] = Append(@, entry)]

Dies(c) ==
  /\ Die
  /\ \/ cur.left < 0
     \/ \A n \in DOMAIN stream[c] : ~Whole(c, n)
     \/ \E d \in Client : gone[d] = "broken"
     \/ \E n \in DOMAIN stream[c] : Whole(c, n) /\ stream[c][n].deadly
     \/ EndKills(c)

Closes(c) ==
  /\ CloseConn(c) /\ pc' \in {"events", "closing"} /\ up' = up /\ cur' = cur
  /\ \/ acted' = acted
     \/ \E n \in DOMAIN stream[c] : Whole(c, n) /\ Append1(c, [n |-> n, whole |-> TRUE])

Blunders(c) ==
  /\ cur.left >= 0 /\ \A n \in DOMAIN stream[c] : ~Whole(c, n)
  /\ \E len \in Nat :
       /\ \A n \in DOMAIN stream[c] : LengthSeen(c, n) => len = stream[c][n].len
       /\ GoOn(c, PacketLen(len))
  /\ Append1(c, [n |-> 0, whole |-> FALSE])
  /\ up' = up /\ conn' = conn /\ segs' = segs

Acts(c) ==
  /\ \E n \in DOMAIN stream[c] :
       /\ Whole(c, n)
       /\ GoOn(c, PacketLen(stream[c][n].len))
       /\ Append1(c, [n |-> n, whole |-> TRUE])
  /\ up' = up /\ conn' = conn /\ segs' = segs

LEMMA WriteGoes ==
  ASSUME Typed, NEW to \in SUBSET Client, Write(to)
  PROVE  /\ gone' \in [Client -> {"here", "fin", "reset", "broken"}]
         /\ \A d \in Client : gone[d] = "broken" => gone'[d] = "broken"
  BY DEF Typed, Write

LEMMA PacketStep ==
  ASSUME Typed, NEW c \in Client, HandlePacket(c)
  PROVE  /\ InRead(c)
         /\ stream' = stream /\ tls' = tls /\ taken' = taken /\ tidy' = tidy /\ clean' = clean
         /\ gone' \in [Client -> {"here", "fin", "reset", "broken"}]
         /\ \A d \in Client : gone[d] = "broken" => gone'[d] = "broken"
         /\ Dies(c) \/ Closes(c) \/ Blunders(c) \/ Acts(c)
<1>1. InRead(c)
  BY DEF HandlePacket, InRead
<1>2. /\ \A to \in LastWords(c) : to \in SUBSET Client
      /\ Everyone \in SUBSET Client
      /\ \A n \in DOMAIN stream[c] : \A to \in Targets(c, stream[c][n]) : to \in SUBSET Client
  <2>1. Everyone \in SUBSET Client
    BY DEF Everyone
  <2>2. \A to \in LastWords(c) : to \in SUBSET Client
    BY <2>1 DEF LastWords
  <2>3. ASSUME NEW n \in DOMAIN stream[c] PROVE \A to \in Targets(c, stream[c][n]) : to \in SUBSET Client
    <3>1. stream[c][n].kind \in Kind
      <4>1. stream[c] \in Seq(Packets)
        BY DEF Typed
      <4>2. stream[c][n] \in Packets
        BY <4>1
      <4> QED BY <4>2 DEF Packets
    <3> QED BY <2>1, <2>2, <3>1 DEF Targets, Kind
  <2> QED BY <2>1, <2>2, <2>3
<1>3. Shutdown(c) => pc' \in {"events", "closing"}
  BY DEF Shutdown
<1>4. CASE Die /\ cur.left < 0
  BY <1>1, <1>4 DEF Die, peers, Dies, Typed
<1>5. CASE cur.left >= 0 /\ HandleTorn(c)
  <2>1. \A n \in DOMAIN stream[c] : ~Whole(c, n)
    BY <1>5 DEF HandleTorn
  <2>2. CASE Die
    BY <1>1, <2>1, <2>2 DEF Die, peers, Dies, Typed
  <2>3. CASE /\ \E to \in LastWords(c) : CanWrite(to) /\ ~Broken(to) /\ Write(to)
             /\ CloseConn(c) /\ Shutdown(c)
             /\ UNCHANGED <<peers, up, taken, cur, acted, tidy, clean>>
    <3>1. PICK to \in LastWords(c) : Write(to)
      BY <2>3
    <3> QED BY <1>1, <1>2, <1>3, <2>3, <3>1, WriteGoes DEF peers, Closes, Typed
  <2>4. CASE /\ \E to \in {{}, {c}, Everyone} : CanWrite(to) /\ ~Broken(to) /\ Write(to)
             /\ \E len \in 0..MaxLen :
                  /\ \A n \in DOMAIN stream[c] : LengthSeen(c, n) => len = stream[c][n].len
                  /\ GoOn(c, PacketLen(len))
             /\ Append1(c, [n |-> 0, whole |-> FALSE])
             /\ UNCHANGED <<peers, up, conn, segs, half, taken, tidy, clean>>
    <3>1. Blunders(c)
      BY <1>5, <2>1, <2>4 DEF Blunders
    <3>2. PICK to \in {{}, {c}, Everyone} : Write(to)
      BY <2>4
    <3>3. to \in SUBSET Client
      BY <1>2, <3>2
    <3> QED BY <1>1, <2>4, <3>1, <3>2, <3>3, WriteGoes DEF peers
  <2> QED BY <1>5, <2>2, <2>3, <2>4 DEF HandleTorn, Append1
<1>6. CASE \E n \in DOMAIN stream[c] : TurnAway(c, n)
  BY <1>1, <1>3, <1>6 DEF TurnAway, peers, Closes, Typed
<1>7. ASSUME NEW n \in DOMAIN stream[c], HandleWhole(c, n)
      PROVE  /\ stream' = stream /\ tls' = tls /\ taken' = taken /\ tidy' = tidy /\ clean' = clean
             /\ gone' \in [Client -> {"here", "fin", "reset", "broken"}]
             /\ \A d \in Client : gone[d] = "broken" => gone'[d] = "broken"
             /\ Dies(c) \/ Closes(c) \/ Blunders(c) \/ Acts(c)
  <2> DEFINE p == stream[c][n]
  <2>1. Whole(c, n)
    BY <1>7 DEF HandleWhole
  <2>2. CASE Kills(c, p) /\ Die
    <3>1. Dies(c)
      BY <2>1, <2>2 DEF Kills, Dies
    <3> QED BY <2>2, <3>1 DEF Die, peers, Typed
  <2>3. ASSUME NEW to \in Targets(c, p), CanWrite(to),
               IF Broken(to) THEN Die
               ELSE /\ Write(to)
                    /\ Append1(c, [n |-> n, whole |-> TRUE])
                    /\ \/ /\ GoOn(c, PacketLen(p.len))
                          /\ UNCHANGED <<conn, segs, half>>
                       \/ CloseConn(c) /\ Shutdown(c) /\ UNCHANGED cur
                    /\ UNCHANGED <<peers, up, taken, tidy, clean>>
        PROVE  /\ stream' = stream /\ tls' = tls /\ taken' = taken /\ tidy' = tidy /\ clean' = clean
               /\ gone' \in [Client -> {"here", "fin", "reset", "broken"}]
               /\ \A d \in Client : gone[d] = "broken" => gone'[d] = "broken"
               /\ Dies(c) \/ Closes(c) \/ Blunders(c) \/ Acts(c)
    <3>1. to \in SUBSET Client
      BY <1>2, <2>3
    <3>2. CASE Broken(to)
      <4>1. Die /\ \E d \in Client : gone[d] = "broken"
        BY <2>3, <3>1, <3>2 DEF Broken
      <4> QED BY <4>1 DEF Die, peers, Dies, Typed
    <3>3. CASE ~Broken(to)
      <4>1. Write(to) /\ stream' = stream /\ tls' = tls /\ taken' = taken /\ tidy' = tidy
            /\ clean' = clean
        BY <2>3, <3>3 DEF peers
      <4>2. Closes(c) \/ Acts(c)
        BY <1>3, <2>1, <2>3, <3>3 DEF Closes, Acts
      <4> QED BY <3>1, <4>1, <4>2, WriteGoes
    <3> QED BY <3>2, <3>3
  <2>4. \/ Kills(c, p) /\ Die
        \/ \E to \in Targets(c, p) :
             /\ CanWrite(to)
             /\ IF Broken(to) THEN Die
                ELSE /\ Write(to)
                     /\ Append1(c, [n |-> n, whole |-> TRUE])
                     /\ \/ /\ GoOn(c, PacketLen(p.len))
                           /\ UNCHANGED <<conn, segs, half>>
                        \/ CloseConn(c) /\ Shutdown(c) /\ UNCHANGED cur
                     /\ UNCHANGED <<peers, up, taken, tidy, clean>>
    BY <1>7 DEF HandleWhole, Append1
  <2> QED BY <2>2, <2>3, <2>4
<1>8. cur.left < 0 \/ cur.left >= 0
  BY DEF Typed
<1> QED BY <1>1, <1>4, <1>5, <1>6, <1>7, <1>8 DEF HandlePacket

LEMMA GoOnIs ==
  ASSUME Typed, NEW c, NEW len \in Nat, GoOn(c, PacketLen(len))
  PROVE  /\ cur' = [cur EXCEPT !.off = len + 2, !.left = cur.left - (len + 2)]
         /\ cur'.conn = cur.conn /\ cur'.base = cur.base
         /\ cur'.off = len + 2 /\ cur'.left = cur.left - (len + 2)
         /\ cur' \in [conn : {cur'.conn}, base : Nat, off : Nat, left : Int]
         /\ pc' = IF cur'.left = 0 THEN "events" ELSE pc
<1>1. cur' = [cur EXCEPT !.off = len + 2, !.left = cur.left - (len + 2)]
  BY DEF GoOn, NextOffset, LeftAfter, PacketLen
<1>2. cur \in [conn : {cur.conn}, base : Nat, off : Nat, left : Int]
  BY DEF Typed
<1>3. /\ cur'.conn = cur.conn /\ cur'.base = cur.base
      /\ cur'.off = len + 2 /\ cur'.left = cur.left - (len + 2)
      /\ cur' \in [conn : {cur'.conn}, base : Nat, off : Nat, left : Int]
  <2>1. cur.base \in Nat /\ cur.left \in Int
    BY <1>2
  <2>2. cur = [conn |-> cur.conn, base |-> cur.base, off |-> cur.off, left |-> cur.left]
    BY <1>2
  <2>3. cur' = [conn |-> cur.conn, base |-> cur.base, off |-> len + 2,
                left |-> cur.left - (len + 2)]
    BY <1>1, <2>2, Zenon
  <2>4. len + 2 \in Nat /\ cur.left - (len + 2) \in Int
    BY <2>1
  <2> QED BY <2>1, <2>3, <2>4
<1>4. pc' = IF cur'.left = 0 THEN "events" ELSE pc
  BY <1>3 DEF GoOn, LeftAfter, PacketLen
<1> QED BY <1>1, <1>3, <1>4
LEMMA ReadIs ==
  ASSUME Laid, NEW c \in Client, Read(c)
  PROVE  \E k \in 1..Buff :
           /\ pc = "events" /\ pc' = "packets" /\ conn[c] = "open" /\ segs[c] # <<>>
           /\ taken[c] + k <= Head(segs[c])
           /\ segs' = [segs EXCEPT ![c] = IF taken[c] + k < Head(segs[c]) THEN @ ELSE Tail(@)]
           /\ taken' = [taken EXCEPT ![c] = taken[c] + k]
           /\ cur' = [conn |-> c, base |-> taken[c], off |-> 0, left |-> k]
           /\ LET fair == /\ Boundary(c, taken[c])
                          /\ Cardinality(Begun(c, taken[c], taken[c] + k)) \in 1..2
              IN  /\ clean' = [clean EXCEPT ![c] = @ /\ fair]
                  /\ tidy' = [tidy EXCEPT ![c] = @ /\ fair /\ Boundary(c, taken[c] + k)]
           /\ UNCHANGED <<tls, stream, up, conn, gone, acted>>
<1> DEFINE k == Min({Buff, Head(segs[c]) - taken[c]})
<1>1. segs[c] # <<>> /\ segs[c] \in Seq(Nat) /\ taken[c] \in Nat /\ Buff \in Nat /\ Buff > 0
  BY LoopAssumption DEF Laid, Typed, Read
<1>2. 1 \in DOMAIN segs[c] /\ Head(segs[c]) = segs[c][1] /\ Head(segs[c]) \in Nat
  BY <1>1
<1>3. taken[c] < Head(segs[c]) /\ conn[c] = "open"
  BY <1>1, <1>2 DEF Laid, Arrived
<1>4. k = IF Buff <= Head(segs[c]) - taken[c] THEN Buff ELSE Head(segs[c]) - taken[c]
  BY <1>1, <1>2, LeastOfTwo
<1>5. k \in 1..Buff /\ taken[c] + k <= Head(segs[c])
  BY <1>1, <1>2, <1>3, <1>4
<1>6. /\ pc = "events" /\ pc' = "packets"
      /\ segs' = [segs EXCEPT ![c] = IF taken[c] + k < Head(segs[c]) THEN @ ELSE Tail(@)]
      /\ taken' = [taken EXCEPT ![c] = taken[c] + k]
      /\ cur' = [conn |-> c, base |-> taken[c], off |-> 0, left |-> k]
      /\ clean' = [clean EXCEPT ![c] = @ /\ (Boundary(c, taken[c])
             /\ Cardinality(Begun(c, taken[c], taken[c] + k)) \in 1..2)]
      /\ tidy' = [tidy EXCEPT ![c] = @ /\ (Boundary(c, taken[c])
             /\ Cardinality(Begun(c, taken[c], taken[c] + k)) \in 1..2)
             /\ Boundary(c, taken[c] + k)]
      /\ UNCHANGED <<tls, stream, up, conn, gone, acted>>
  BY DEF Read, peers
<1> HIDE DEF k
<1> QED BY <1>1, <1>3, <1>5, <1>6

----------------------------------------------------------------------------
(* Types, and where things lie. *)

LEMMA ArrivedSame ==
  ASSUME Arrived, stream' = stream, conn' = conn, segs' = segs, taken' = taken
  PROVE  Arrived'
  BY EndSame DEF Arrived

LEMMA LaidSame ==
  ASSUME Laid, up' \in BOOLEAN, gone' \in [Client -> {"here", "fin", "reset", "broken"}],
         pc' \in {"wait", "events", "packets", "shaking", "closing"},
         pc' \in {"packets", "shaking"} => pc' = pc,
         UNCHANGED <<tls, stream, conn, segs, taken, cur, acted, tidy, clean>>
  PROVE  Laid'
<1>1. Arrived'
  BY ArrivedSame DEF Laid
<1>2. Typed'
  BY DEF Laid, Typed
<1>3. AtWork'
  BY DEF Laid, AtWork
<1> QED BY <1>1, <1>2, <1>3 DEF Laid

(* A connection is asked for, opened or closed. *)
LEMMA LaidConn ==
  ASSUME Laid, NEW c \in Client, NEW to \in {"open", "closed"},
         conn' = [conn EXCEPT ![c] = to],
         \/ segs[c] = <<>> /\ segs' = segs
         \/ to = "closed" /\ segs' = [segs EXCEPT ![c] = <<>>],
         pc' \in {"wait", "events", "closing"},
         acted' \in [Client -> Seq([n : Nat, whole : BOOLEAN])],
         gone' \in [Client -> {"here", "fin", "reset", "broken"}],
         UNCHANGED <<tls, stream, up, taken, cur, tidy, clean>>
  PROVE  Laid'
<1>1. Typed'
  <2>1. segs' \in [Client -> Seq(Nat)] /\ conn' \in [Client -> {"none", "asking", "open", "closed"}]
    <3>1. segs \in [Client -> Seq(Nat)] /\ <<>> \in Seq(Nat)
          /\ conn \in [Client -> {"none", "asking", "open", "closed"}]
      BY DEF Laid, Typed
    <3> QED BY <3>1
  <2> QED BY <2>1 DEF Laid, Typed
<1>2. ASSUME NEW d \in Client
      PROVE  /\ segs'[d] # <<>> => conn'[d] = "open"
             /\ \A i \in DOMAIN segs'[d] : i \in DOMAIN segs[d] /\ segs'[d] = segs[d]
  BY DEF Laid, Typed, Arrived
<1>3. Arrived'
  BY <1>2, EndSame DEF Laid, Arrived
<1>4. AtWork'
  BY DEF Laid, AtWork
<1> QED BY <1>1, <1>3, <1>4 DEF Laid

LEMMA LaidArrive ==
  ASSUME Laid, NEW c \in Client, Arrive(c)
  PROVE  Laid'
<1> DEFINE s == segs[c]
           from == IF s = <<>> THEN taken[c] ELSE Last(s)
           all == End(c, Len(stream[c]))
<1>1. PICK b \in Cuts[c] \cup {all} :
        /\ from < b /\ b <= all
        /\ segs' = [segs EXCEPT ![c] = IF tls THEN Append(@, b) ELSE <<b>>]
  BY DEF Arrive
<1>2. /\ UNCHANGED <<tls, stream, up, conn, taken, gone, pc, cur, acted, tidy, clean>>
      /\ conn[c] = "open"
  BY DEF Arrive, peers, server
<1>3. stream[c] \in Seq(Packets) /\ taken[c] \in Nat /\ s \in Seq(Nat)
  BY DEF Laid, Typed
<1>4. all \in Nat /\ b \in Nat
  <2>1. all \in Nat
    <3>1. Len(stream[c]) \in 0..Len(stream[c])
      BY <1>3
    <3> QED BY <1>3, <3>1, EndIs
  <2> QED BY <2>1, <1>1, LoopAssumption
<1>5. /\ taken[c] < b
      /\ \A i \in DOMAIN s : s[i] < b
  <2>1. CASE s = <<>>
    BY <2>1, <1>1
  <2>2. CASE s # <<>>
    <3>1. Len(s) \in DOMAIN s /\ from = s[Len(s)] /\ from \in Nat
      BY <2>2, <1>3 DEF Last
    <3>2. \A i \in DOMAIN s : i \in Nat /\ s[i] \in Nat /\ (i < Len(s) \/ i = Len(s))
      BY <1>3
    <3>3. taken[c] < from /\ \A i \in DOMAIN s : i < Len(s) => s[i] < from
      BY <3>1 DEF Laid, Arrived
    <3> QED BY <1>1, <1>3, <1>4, <3>1, <3>2, <3>3
  <2> QED BY <2>1, <2>2
<1>6. segs'[c] = (IF tls THEN Append(s, b) ELSE <<b>>) /\ segs'[c] \in Seq(Nat)
      /\ segs' \in [Client -> Seq(Nat)] /\ \A d \in Client : d # c => segs'[d] = segs[d]
  BY <1>1, <1>3, <1>4 DEF Laid, Typed
<1>7. Typed'
  BY <1>2, <1>6 DEF Laid, Typed
<1>8. ASSUME NEW d \in Client, NEW i \in DOMAIN segs'[d]
      PROVE  /\ taken[d] < segs'[d][i] /\ segs'[d][i] <= End(d, Len(stream[d]))
             /\ \A k \in DOMAIN segs'[d] : i < k => segs'[d][i] < segs'[d][k]
  <2>1. CASE d # c
    BY <1>6, <2>1 DEF Laid, Arrived
  <2>2. CASE d = c /\ ~tls
    BY <1>1, <1>5, <1>6, <2>2
  <2>3. CASE d = c /\ tls
    <3>1. /\ DOMAIN segs'[c] = 1..(Len(s) + 1)
          /\ \A k \in 1..(Len(s) + 1) : segs'[c][k] = IF k = Len(s) + 1 THEN b ELSE s[k]
      BY <1>3, <1>4, <1>6, <2>3
    <3>2. \A k \in 1..(Len(s) + 1) : k # Len(s) + 1 => k \in DOMAIN s
      BY <1>3
    <3>3. \A k \in DOMAIN s : /\ taken[c] < s[k] /\ s[k] <= all
                              /\ \A l \in DOMAIN s : k < l => s[k] < s[l]
      BY DEF Laid, Arrived
    <3>4. Len(s) \in Nat
      BY <1>3
    <3>5. CASE i = Len(s) + 1
      BY <1>1, <1>5, <2>3, <3>1, <3>4, <3>5
    <3>6. CASE i # Len(s) + 1
      <4>1. i \in DOMAIN s /\ segs'[c][i] = s[i]
        BY <2>3, <3>1, <3>2, <3>6
      <4>2. ASSUME NEW k \in 1..(Len(s) + 1), i < k PROVE s[i] < segs'[c][k]
        BY <4>1, <4>2, <1>5, <3>1, <3>2, <3>3
      <4> QED BY <2>3, <3>1, <3>3, <4>1, <4>2
    <3> QED BY <3>5, <3>6
  <2> QED BY <2>1, <2>2, <2>3
<1>9. Arrived'
  BY <1>2, <1>6, <1>8, EndSame DEF Laid, Arrived
<1>10. AtWork'
  BY <1>2 DEF Laid, AtWork
<1> QED BY <1>7, <1>9, <1>10 DEF Laid

LEMMA LaidRead ==
  ASSUME Laid, NEW c \in Client, Read(c)
  PROVE  Laid'
<1> DEFINE s == segs[c]
<1>1. PICK k \in 1..Buff :
        /\ pc' = "packets" /\ conn[c] = "open" /\ s # <<>>
        /\ taken[c] + k <= Head(s)
        /\ segs' = [segs EXCEPT ![c] = IF taken[c] + k < Head(segs[c]) THEN @ ELSE Tail(@)]
        /\ taken' = [taken EXCEPT ![c] = taken[c] + k]
        /\ cur' = [conn |-> c, base |-> taken[c], off |-> 0, left |-> k]
        /\ clean' \in [Client -> BOOLEAN] /\ tidy' \in [Client -> BOOLEAN]
        /\ UNCHANGED <<tls, stream, up, conn, gone, acted>>
  <2>1. clean \in [Client -> BOOLEAN] /\ tidy \in [Client -> BOOLEAN]
    BY DEF Laid, Typed
  <2> DEFINE fair(k) == /\ Boundary(c, taken[c])
                        /\ Cardinality(Begun(c, taken[c], taken[c] + k)) \in 1..2
  <2>2. PICK k \in 1..Buff :
          /\ pc' = "packets" /\ conn[c] = "open" /\ s # <<>>
          /\ taken[c] + k <= Head(s)
          /\ segs' = [segs EXCEPT ![c] = IF taken[c] + k < Head(segs[c]) THEN @ ELSE Tail(@)]
          /\ taken' = [taken EXCEPT ![c] = taken[c] + k]
          /\ cur' = [conn |-> c, base |-> taken[c], off |-> 0, left |-> k]
          /\ clean' = [clean EXCEPT ![c] = @ /\ fair(k)]
          /\ tidy' = [tidy EXCEPT ![c] = @ /\ fair(k) /\ Boundary(c, taken[c] + k)]
          /\ UNCHANGED <<tls, stream, up, conn, gone, acted>>
    BY ReadIs
  <2>3. clean' \in [Client -> BOOLEAN] /\ tidy' \in [Client -> BOOLEAN]
    <3>1. (clean[c] /\ fair(k)) \in BOOLEAN
          /\ (tidy[c] /\ fair(k) /\ Boundary(c, taken[c] + k)) \in BOOLEAN
      OBVIOUS
    <3> HIDE DEF fair
    <3> QED BY <2>1, <2>2, <3>1
  <2> HIDE DEF fair
  <2> QED BY <2>2, <2>3
<1>2. taken[c] \in Nat /\ s \in Seq(Nat) /\ s # <<>> /\ k \in Nat /\ k > 0 /\ Buff \in Nat /\ k <= Buff
  BY <1>1, LoopAssumption DEF Laid, Typed
<1>3. Typed'
  BY <1>1, <1>2 DEF Laid, Typed
<1>4. 1 \in DOMAIN s /\ Head(s) = s[1] /\ Tail(s) \in Seq(Nat) /\ Len(Tail(s)) = Len(s) - 1
      /\ \A i \in DOMAIN Tail(s) : i + 1 \in DOMAIN s /\ i + 1 > 1 /\ Tail(s)[i] = s[i + 1]
  BY <1>2
<1>5. /\ taken'[c] = taken[c] + k
      /\ segs'[c] = IF taken[c] + k < Head(s) THEN s ELSE Tail(s)
      /\ \A d \in Client : d # c => segs'[d] = segs[d] /\ taken'[d] = taken[d]
  BY <1>1 DEF Laid, Typed
<1>6. \A i \in DOMAIN s : /\ s[i] \in Nat /\ i \in Nat
                          /\ taken[c] < s[i] /\ s[i] <= End(c, Len(stream[c]))
                          /\ s[1] <= s[i]
                          /\ i > 1 => s[1] < s[i]
                          /\ \A l \in DOMAIN s : i < l => s[i] < s[l]
  <2>1. \A i \in DOMAIN s : i \in Nat /\ i >= 1 /\ s[i] \in Nat
    BY <1>2
  <2>2. \A i \in DOMAIN s : /\ taken[c] < s[i] /\ s[i] <= End(c, Len(stream[c]))
                            /\ \A l \in DOMAIN s : i < l => s[i] < s[l]
    BY DEF Laid, Arrived
  <2> QED BY <1>4, <2>1, <2>2
<1>7. ASSUME NEW i \in DOMAIN segs'[c]
      PROVE  /\ taken'[c] < segs'[c][i] /\ segs'[c][i] <= End(c, Len(stream[c]))
             /\ \A l \in DOMAIN segs'[c] : i < l => segs'[c][i] < segs'[c][l]
  <2>1. CASE taken[c] + k < Head(s)
    BY <1>2, <1>4, <1>5, <1>6, <2>1
  <2>2. CASE ~(taken[c] + k < Head(s))
    <3>1. taken[c] + k = s[1] /\ segs'[c] = Tail(s)
      <4>1. s[1] \in Nat /\ Head(s) = s[1] /\ taken[c] + k <= s[1] /\ ~(taken[c] + k < s[1])
        BY <1>1, <1>4, <1>6, <2>2
      <4>2. taken[c] + k \in Nat
        BY <1>2
      <4>3. taken[c] + k = s[1]
        BY <4>1, <4>2
      <4> QED BY <4>3, <1>5, <2>2
    <3>2. i \in Nat /\ \A l \in DOMAIN Tail(s) : l \in Nat
      BY <1>4, <3>1
    <3>3. /\ i + 1 \in DOMAIN s /\ i + 1 > 1 /\ segs'[c][i] = s[i + 1]
          /\ s[1] < s[i + 1] /\ s[i + 1] <= End(c, Len(stream[c]))
      BY <1>4, <1>6, <3>1
    <3>4. ASSUME NEW l \in DOMAIN Tail(s), i < l PROVE s[i + 1] < segs'[c][l]
      <4>1. l + 1 \in DOMAIN s /\ segs'[c][l] = s[l + 1]
        BY <1>4, <3>1
      <4>2. i + 1 < l + 1
        BY <3>2, <3>4
      <4> QED BY <4>1, <4>2, <3>3, <1>6
    <3> QED BY <1>5, <3>1, <3>3, <3>4
  <2> QED BY <2>1, <2>2
<1>8. taken'[c] <= End(c, Len(stream[c]))
  <2>1. stream[c] \in Seq(Packets) /\ Len(stream[c]) \in 0..Len(stream[c])
    BY DEF Laid, Typed
  <2>2. End(c, Len(stream[c])) \in Nat
    BY <2>1, EndIs
  <2> QED BY <1>1, <1>2, <1>4, <1>5, <1>6, <2>2
<1>9. ASSUME NEW d \in Client
      PROVE  /\ segs'[d] # <<>> => conn[d] = "open"
             /\ taken'[d] <= End(d, Len(stream[d]))
             /\ \A i \in DOMAIN segs'[d] :
                  /\ taken'[d] < segs'[d][i] /\ segs'[d][i] <= End(d, Len(stream[d]))
                  /\ \A l \in DOMAIN segs'[d] : i < l => segs'[d][i] < segs'[d][l]
  <2>1. CASE d = c
    BY <1>1, <1>7, <1>8, <2>1
  <2>2. CASE d # c
    BY <1>5, <2>2 DEF Laid, Arrived
  <2> QED BY <2>1, <2>2
<1>10. Arrived'
  BY <1>1, <1>9, EndSame DEF Arrived
<1>11. AtWork'
  BY <1>1, <1>2, <1>5 DEF AtWork
<1> QED BY <1>3, <1>10, <1>11 DEF Laid
LEMMA LaidGoOn ==
  ASSUME Laid, NEW c \in Client, InRead(c), NEW len \in Nat, GoOn(c, PacketLen(len)),
         acted' \in [Client -> Seq([n : Nat, whole : BOOLEAN])],
         gone' \in [Client -> {"here", "fin", "reset", "broken"}],
         UNCHANGED <<tls, stream, up, conn, segs, taken, tidy, clean>>
  PROVE  Laid'
<1>1. Typed
  BY DEF Laid
<1>2. /\ cur'.conn = cur.conn /\ cur'.base = cur.base
      /\ cur' \in [conn : {cur'.conn}, base : Nat, off : Nat, left : Int]
      /\ pc' = IF cur'.left = 0 THEN "events" ELSE pc
  BY <1>1, GoOnIs
<1>3. Typed'
  BY <1>1, <1>2 DEF Typed
<1>4. Arrived'
  BY ArrivedSame DEF Laid
<1>5. AtWork'
  BY <1>2 DEF Laid, AtWork, InRead
<1> QED BY <1>3, <1>4, <1>5 DEF Laid

LEMMA ActedType ==
  ASSUME Typed, NEW c \in Client, NEW e \in [n : Nat, whole : BOOLEAN], Append1(c, e)
  PROVE  acted' \in [Client -> Seq([n : Nat, whole : BOOLEAN])]
<1>1. Append(acted[c], e) \in Seq([n : Nat, whole : BOOLEAN])
  BY DEF Typed
<1> QED BY <1>1 DEF Typed, Append1

LEMMA LaidPacket ==
  ASSUME Laid, NEW c \in Client, HandlePacket(c)
  PROVE  Laid'
<1>1. Typed
  BY DEF Laid
<1>2. /\ InRead(c)
      /\ stream' = stream /\ tls' = tls /\ taken' = taken /\ tidy' = tidy /\ clean' = clean
      /\ gone' \in [Client -> {"here", "fin", "reset", "broken"}]
      /\ Dies(c) \/ Closes(c) \/ Blunders(c) \/ Acts(c)
  BY <1>1, PacketStep
<1>3. CASE Dies(c)
  <2>1. pc' = pc /\ up' \in BOOLEAN /\ UNCHANGED <<conn, segs, cur, acted>>
    BY <1>3 DEF Dies, Die
  <2> QED BY <1>1, <1>2, <2>1, LaidSame DEF Typed
<1>4. CASE Closes(c)
  <2>1. acted' \in [Client -> Seq([n : Nat, whole : BOOLEAN])]
    <3>1. CASE acted' = acted
      BY <1>1, <3>1 DEF Typed
    <3>2. CASE acted' # acted
      <4>1. PICK n \in DOMAIN stream[c] : Append1(c, [n |-> n, whole |-> TRUE])
        BY <1>4, <3>2 DEF Closes
      <4>2. [n |-> n, whole |-> TRUE] \in [n : Nat, whole : BOOLEAN]
        BY <1>1 DEF Typed
      <4> QED BY <1>1, <4>1, <4>2, ActedType
    <3> QED BY <3>1, <3>2
  <2> QED BY <1>2, <1>4, <2>1, LaidConn DEF Closes, CloseConn
<1>5. CASE Blunders(c)
  <2>1. PICK len \in Nat : GoOn(c, PacketLen(len))
    BY <1>5 DEF Blunders
  <2>2. acted' \in [Client -> Seq([n : Nat, whole : BOOLEAN])]
    <3>1. [n |-> 0, whole |-> FALSE] \in [n : Nat, whole : BOOLEAN]
      OBVIOUS
    <3> QED BY <1>1, <1>5, <3>1, ActedType DEF Blunders
  <2> QED BY <1>2, <1>5, <2>1, <2>2, LaidGoOn DEF Blunders
<1>6. CASE Acts(c)
  <2>1. PICK n \in DOMAIN stream[c] :
          GoOn(c, PacketLen(stream[c][n].len)) /\ Append1(c, [n |-> n, whole |-> TRUE])
    BY <1>6 DEF Acts
  <2>2. stream[c][n].len \in Nat /\ [n |-> n, whole |-> TRUE] \in [n : Nat, whole : BOOLEAN]
    <3>1. stream[c] \in Seq(Packets)
      BY <1>1 DEF Typed
    <3>2. n \in Nat /\ stream[c][n] \in Packets
      BY <3>1
    <3> QED BY <3>2 DEF Packets
  <2>3. acted' \in [Client -> Seq([n : Nat, whole : BOOLEAN])]
    BY <1>1, <2>1, <2>2, ActedType
  <2> QED BY <1>2, <1>6, <2>1, <2>2, <2>3, LaidGoOn DEF Acts
<1> QED BY <1>2, <1>3, <1>4, <1>5, <1>6

(* The steps that change neither what was read nor what is being read.     *)
Quiet ==
  /\ UNCHANGED <<tls, stream, taken, acted, tidy, clean>>
  /\ \/ pc' = pc /\ cur' = cur
     \/ pc # "packets" /\ pc' # "packets"
  /\ cur' = cur \/ cur'.off = 0
  /\ \A c \in Client : conn[c] = "closed" => conn'[c] = "closed"
  /\ \/ up' = up
     \/ pc = "shaking" /\ pc' = "shaking"
     \/ \E c \in Client : gone[c] = "broken" \/ EndKills(c)
  /\ \A c \in Client : gone[c] = "broken" => gone'[c] = "broken"

LEMMA StepIs ==
  ASSUME Laid, Next
  PROVE  \/ Quiet /\ Laid'
         \/ \E c \in Client : Read(c)
         \/ \E c \in Client : HandlePacket(c)
<1>1. ASSUME NEW c \in Client, Ask(c) PROVE Quiet /\ Laid'
  <2>1. /\ conn[c] = "none" /\ conn' = [conn EXCEPT ![c] = "asking"]
        /\ UNCHANGED <<tls, stream, up, segs, taken, gone, pc, cur, acted, tidy, clean>>
    BY <1>1 DEF Ask, peers, server
  <2>2. segs[c] = <<>> /\ ~InRead(c)
    BY <2>1 DEF Laid, Arrived, AtWork, InRead
  <2>3. Typed' /\ Arrived' /\ AtWork'
    <3>1. Typed'
      BY <2>1 DEF Laid, Typed
    <3>2. Arrived'
      BY <2>1, <2>2, EndSame DEF Laid, Typed, Arrived
    <3>3. AtWork'
      BY <2>1, <2>2 DEF Laid, Typed, AtWork, InRead
    <3> QED BY <3>1, <3>2, <3>3
  <2> QED BY <2>1, <2>3 DEF Laid, Typed, Quiet
<1>2. ASSUME NEW c \in Client, Arrive(c) PROVE Quiet /\ Laid'
  BY <1>2, LaidArrive DEF Arrive, peers, server, Quiet
<1>3. ASSUME NEW c \in Client, Leave(c) PROVE Quiet /\ Laid'
  <2>1. /\ gone[c] = "here" /\ \E how \in {"fin", "reset"} : gone' = [gone EXCEPT ![c] = how]
        /\ UNCHANGED <<tls, stream, up, conn, segs, taken, pc, cur, acted, tidy, clean>>
    BY <1>3 DEF Leave, peers, server
  <2>2. gone' \in [Client -> {"here", "fin", "reset", "broken"}]
        /\ \A d \in Client : gone[d] = "broken" => gone'[d] = "broken"
    BY <2>1 DEF Laid, Typed
  <2> QED BY <2>1, <2>2, LaidSame DEF Laid, Typed, Quiet
<1>4. ASSUME NEW c \in Client, Drain(c) PROVE Quiet /\ Laid'
  BY <1>4, LaidSame DEF Drain, peers, server, Laid, Typed, Quiet
<1>5. ASSUME NEW c \in Client, Handshake(c) PROVE Quiet /\ Laid'
  <2>1. pc = "shaking" /\ cur.conn = c
    BY <1>5 DEF Handshake
  <2>2. CASE Die
    BY <2>1, <2>2, LaidSame DEF Die, peers, Laid, Typed, Quiet
  <2>3. CASE ~Die
    <3>1. /\ conn' = [conn EXCEPT ![c] = "open"] /\ pc' = "events"
          /\ UNCHANGED <<tls, stream, up, segs, taken, gone, cur, acted, tidy, clean>>
      BY <1>5, <2>3 DEF Handshake, peers
    <3>2. segs[c] = <<>> /\ conn[c] = "asking"
      BY <2>1 DEF Laid, Arrived, AtWork
    <3> QED BY <2>1, <3>1, <3>2, LaidConn DEF Laid, Typed, Quiet
  <2> QED BY <2>2, <2>3
<1>6. ASSUME NEW c \in Client, GoodBye(c) PROVE Quiet /\ Laid'
  BY <1>6, LaidSame DEF GoodBye, peers, Laid, Typed, Quiet
<1>7. ASSUME EpollWait \/ EventsDone PROVE Quiet /\ Laid'
  BY <1>7, LaidSame DEF EpollWait, EventsDone, peers, Laid, Typed, Quiet
<1>8. ASSUME NEW c \in Client, Accept(c) PROVE Quiet /\ Laid'
  <2>1. pc = "events" /\ conn[c] = "asking"
        /\ UNCHANGED <<tls, stream, up, segs, taken, gone, acted, tidy, clean>>
    BY <1>8 DEF Accept, peers
  <2>2. CASE tls
    <3>1. pc' = "shaking" /\ cur' = NoRead(c) /\ conn' = conn
      BY <1>8, <2>2 DEF Accept
    <3>2. cur'.conn = c /\ cur'.off = 0 /\ cur' \in [conn : {cur'.conn}, base : Nat, off : Nat, left : Int]
      BY <3>1 DEF NoRead
    <3>3. Typed'
      BY <2>1, <3>1, <3>2 DEF Laid, Typed
    <3>4. Arrived'
      BY <2>1, <3>1, ArrivedSame DEF Laid
    <3>5. AtWork'
      BY <2>1, <3>1, <3>2 DEF AtWork
    <3> QED BY <2>1, <3>1, <3>2, <3>3, <3>4, <3>5 DEF Laid, Quiet
  <2>3. CASE ~tls
    <3>1. conn' = [conn EXCEPT ![c] = "open"] /\ pc' = pc /\ cur' = cur
      BY <1>8, <2>3 DEF Accept
    <3>2. segs[c] = <<>>
      BY <2>1 DEF Laid, Arrived
    <3> QED BY <2>1, <3>1, <3>2, LaidConn DEF Laid, Typed, Quiet
  <2> QED BY <2>2, <2>3
<1>9. ASSUME NEW c \in Client, EndOfStream(c) PROVE Quiet /\ Laid'
  <2>1. pc = "events" /\ Typed
    BY <1>9 DEF EndOfStream, Laid
  <2>2. ASSUME Die, EndKills(c) \/ \E d \in Client : gone[d] = "broken" PROVE Quiet /\ Laid'
    BY <2>1, <2>2, LaidSame DEF Die, peers, Laid, Typed, Quiet
  <2>3. ASSUME NEW to \in LastWords(c),
               IF Broken(to) THEN Die
               ELSE /\ Write(to) /\ CloseConn(c)
                    /\ UNCHANGED <<peers, up, taken, pc, cur, acted, tidy, clean>>
        PROVE  Quiet /\ Laid'
    <3>1. to \in SUBSET Client
      BY DEF LastWords, Everyone
    <3>2. CASE Broken(to)
      BY <2>2, <2>3, <3>1, <3>2 DEF Broken
    <3>3. CASE ~Broken(to)
      <4>1. /\ gone' \in [Client -> {"here", "fin", "reset", "broken"}]
            /\ \A d \in Client : gone[d] = "broken" => gone'[d] = "broken"
        BY <2>1, <2>3, <3>1, <3>3, WriteGoes
      <4>2. /\ conn' = [conn EXCEPT ![c] = "closed"] /\ segs' = [segs EXCEPT ![c] = <<>>]
            /\ UNCHANGED <<tls, stream, up, taken, pc, cur, acted, tidy, clean>>
        BY <2>3, <3>3 DEF CloseConn, peers
      <4>3. Laid'
        BY <2>1, <4>1, <4>2, LaidConn DEF Typed
      <4>4. \A d \in Client : conn[d] = "closed" => conn'[d] = "closed"
        BY <2>1, <4>2 DEF Typed
      <4> QED BY <4>1, <4>2, <4>3, <4>4 DEF Quiet
    <3> QED BY <3>2, <3>3
  <2> QED BY <1>9, <2>2, <2>3 DEF EndOfStream
<1> QED BY <1>1, <1>2, <1>3, <1>4, <1>5, <1>6, <1>7, <1>8, <1>9 DEF Next, Serve, Peers
LEMMA LaidInit == Init => Laid
<1> SUFFICES ASSUME Init PROVE Laid
  OBVIOUS
<1>1. stream \in [Client -> Seq(Packets)]
  BY LoopAssumption DEF Init, Packets
<1>2. Typed
  BY <1>1 DEF Init, Typed, NoRead
<1>3. ASSUME NEW c \in Client PROVE 0 <= End(c, Len(stream[c]))
  <2>1. stream[c] \in Seq(Packets) /\ Len(stream[c]) \in 0..Len(stream[c])
    BY <1>1
  <2>2. End(c, Len(stream[c])) \in Nat
    BY <2>1, EndIs
  <2> QED BY <2>2
<1>4. Arrived
  BY <1>3 DEF Init, Arrived
<1>5. AtWork
  BY DEF Init, AtWork, NoRead
<1> QED BY <1>2, <1>4, <1>5 DEF Laid

LEMMA LaidNext ==
  ASSUME Laid, [Next]_vars
  PROVE  Laid'
<1>1. CASE Next
  BY <1>1, StepIs, LaidRead, LaidPacket
<1>2. CASE UNCHANGED vars
  BY <1>2, LaidSame DEF vars, peers, Laid, Typed
<1> QED BY <1>1, <1>2

----------------------------------------------------------------------------
(* One or two whole packets to a read. *)

LEMMA BegunIs ==
  ASSUME NEW c, stream[c] \in Seq(Packets),
         NEW i \in 0..Len(stream[c]), NEW j \in 0..Len(stream[c])
  PROVE  Begun(c, End(c, i), End(c, j)) = (i + 1)..j
<1> DEFINE L == Len(stream[c])
<1>1. L \in Nat /\ DOMAIN stream[c] = 1..L
  OBVIOUS
<1>2. \A n \in 1..L : /\ End(c, i) <= End(c, n - 1) <=> i <= n - 1
                      /\ End(c, n - 1) < End(c, j) <=> n - 1 < j
  <2> SUFFICES ASSUME NEW n \in 1..L
               PROVE  /\ End(c, i) <= End(c, n - 1) <=> i <= n - 1
                      /\ End(c, n - 1) < End(c, j) <=> n - 1 < j
    OBVIOUS
  <2>1. n - 1 \in 0..L
    BY <1>1
  <2>2. End(c, i) \in Nat /\ End(c, j) \in Nat /\ End(c, n - 1) \in Nat
    BY <2>1, EndIs
  <2>3. /\ i < n - 1 => End(c, i) + 2 <= End(c, n - 1)
        /\ n - 1 < i => End(c, n - 1) + 2 <= End(c, i)
        /\ j < n - 1 => End(c, j) + 2 <= End(c, n - 1)
        /\ n - 1 < j => End(c, n - 1) + 2 <= End(c, j)
    BY <2>1, EndsGrow
  <2>4. i = n - 1 => End(c, i) = End(c, n - 1)
    OBVIOUS
  <2>5. j = n - 1 => End(c, j) = End(c, n - 1)
    OBVIOUS
  <2> QED BY <2>1, <2>2, <2>3, <2>4, <2>5
<1>3. Begun(c, End(c, i), End(c, j)) = {n \in 1..L : i <= n - 1 /\ n - 1 < j}
  BY <1>1, <1>2 DEF Begun
<1> QED BY <1>1, <1>3

(* A packet that is whole in the buffer has one length byte, so packet_len *)
(* is its length.                                                          *)
LEMMA WholeIsShort ==
  ASSUME Short, Typed, NEW c \in Client, NEW n \in DOMAIN stream[c],
         Whole(c, n), cur.left <= Buff
  PROVE  /\ n - 1 \in 0..Len(stream[c]) /\ n \in 1..Len(stream[c])
         /\ stream[c][n].len \in Nat
         /\ End(c, n - 1) = Here
         /\ End(c, n) = Here + (stream[c][n].len + 2)
         /\ stream[c][n].len + 2 <= cur.left
<1> DEFINE p == stream[c][n]
<1>1. stream[c] \in Seq(Packets) /\ cur.left \in Int /\ Buff \in Nat /\ Base \in Nat
  BY LoopAssumption DEF Typed
<1>2. n \in 1..Len(stream[c]) /\ n - 1 \in 0..Len(stream[c]) /\ p \in Packets
  BY <1>1
<1>3. p.len \in Nat /\ HeaderSize(p) \in 2..3 /\ Size(p) = HeaderSize(p) + p.len
      /\ (p.len < Base <=> HeaderSize(p) = 2)
  BY <1>2, PacketSize DEF Packets
<1>4. Size(p) <= cur.left /\ End(c, n - 1) = Here
  BY DEF Whole, Framed
<1>5. Size(p) = p.len + 2
  BY <1>1, <1>3, <1>4 DEF Short
<1>6. End(c, n) = End(c, n - 1) + Size(p)
  BY <1>1, <1>2, EndIs
<1> QED BY <1>2, <1>3, <1>4, <1>5, <1>6

LEMMA FollowsAway ==
  ASSUME NEW c \in Client, Follows(c), ~InRead(c), ~InRead(c)',
         stream' = stream, acted'[c] = acted[c], taken'[c] = taken[c],
         conn'[c] # "closed" => conn[c] # "closed"
  PROVE  Follows(c)'
BY EndSame DEF Follows

LEMMA FollowsQuiet ==
  ASSUME NEW c \in Client, Follows(c), Quiet
  PROVE  Follows(c)'
<1>1. CASE pc' = pc /\ cur' = cur
  BY <1>1, EndSame DEF Follows, Quiet, InRead, Here
<1>2. CASE pc # "packets" /\ pc' # "packets"
  BY <1>2, FollowsAway DEF Quiet, InRead
<1> QED BY <1>1, <1>2 DEF Quiet

LEMMA FollowsRead ==
  ASSUME Laid, NEW c \in Client, Read(c), tidy[c] => Follows(c), tidy'[c]
  PROVE  Follows(c)'
<1> DEFINE n == Len(acted[c])
<1>1. PICK k \in 1..Buff :
        /\ pc = "events" /\ pc' = "packets" /\ conn[c] = "open"
        /\ taken' = [taken EXCEPT ![c] = taken[c] + k]
        /\ cur' = [conn |-> c, base |-> taken[c], off |-> 0, left |-> k]
        /\ tidy' = [tidy EXCEPT ![c] = @ /\ (Boundary(c, taken[c])
               /\ Cardinality(Begun(c, taken[c], taken[c] + k)) \in 1..2)
               /\ Boundary(c, taken[c] + k)]
        /\ UNCHANGED <<tls, stream, up, conn, gone, acted>>
  BY ReadIs
<1>2. /\ stream[c] \in Seq(Packets) /\ taken[c] \in Nat /\ taken'[c] = taken[c] + k
      /\ acted[c] \in Seq([n : Nat, whole : BOOLEAN])
  BY <1>1 DEF Laid, Typed
<1>3. tidy[c] /\ Cardinality(Begun(c, taken[c], taken[c] + k)) \in 1..2
      /\ Boundary(c, taken[c] + k)
  BY <1>1 DEF Laid, Typed
<1>4. Follows(c) /\ ~InRead(c)
  BY <1>1, <1>3 DEF InRead
<1>5. n \in 0..Len(stream[c]) /\ taken[c] = End(c, n)
  BY <1>1, <1>2, <1>4 DEF Follows
<1>6. PICK j \in 0..Len(stream[c]) : End(c, j) = taken[c] + k
  BY <1>3 DEF Boundary
<1>7. Begun(c, taken[c], taken[c] + k) = (n + 1)..j
  <2>1. n \in 0..Len(stream[c]) /\ Begun(c, taken[c], taken[c] + k) = Begun(c, End(c, n), End(c, j))
    BY <1>5, <1>6
  <2> HIDE DEF n
  <2> QED BY <1>2, <2>1, BegunIs
<1>8. Cardinality((n + 1)..j) = IF n + 1 > j THEN 0 ELSE j - (n + 1) + 1
  <2>1. n + 1 \in Int /\ j \in Int
    BY <1>5
  <2> HIDE DEF n
  <2> QED BY <2>1, FS_Interval
<1>9. j = n + 1 \/ j = n + 2
  BY <1>3, <1>5, <1>7, <1>8
<1>10. /\ Here' = taken[c] /\ cur'.left = taken'[c] - Here' /\ cur'.off = 0
       /\ InRead(c)'
  BY <1>1, <1>2 DEF Here, InRead
<1>11. \E i \in 1..2 : n + i <= Len(stream[c]) /\ taken'[c] = End(c, n + i)
  BY <1>2, <1>5, <1>6, <1>9
<1> HIDE DEF n
<1>12. /\ acted'[c] = acted[c] /\ stream' = stream /\ Len(acted'[c]) = n
       /\ acted[c] = [i \in 1..n |-> [n |-> i, whole |-> TRUE]] /\ n <= Len(stream[c])
  BY <1>1, <1>4 DEF Follows, n
<1>13. End(c, n) <= taken'[c]
  BY <1>2, <1>5
<1> QED BY <1>5, <1>10, <1>11, <1>12, <1>13, EndSame DEF Follows
LEMMA LeftInBuffer ==
  ASSUME Laid, NEW c \in Client, InRead(c)
  PROVE  taken[c] - Here <= Buff
BY LoopAssumption DEF Laid, Typed, AtWork, InRead, Here

LEMMA AppendIs ==
  ASSUME NEW s, NEW T, s \in Seq(T), NEW e \in T
  PROVE  /\ Append(s, e) \in Seq(T) /\ Len(Append(s, e)) = Len(s) + 1
         /\ Append(s, e) = [i \in 1..(Len(s) + 1) |-> IF i = Len(s) + 1 THEN e ELSE s[i]]
         /\ Last(Append(s, e)) = e
<1>1. /\ Append(s, e) \in Seq(T) /\ Len(Append(s, e)) = Len(s) + 1
      /\ Append(s, e)[Len(s) + 1] = e
  OBVIOUS
<1>2. Append(s, e) = [i \in 1..(Len(s) + 1) |-> IF i = Len(s) + 1 THEN e ELSE s[i]]
  <2> DEFINE r == [i \in 1..(Len(s) + 1) |-> IF i = Len(s) + 1 THEN e ELSE s[i]]
  <2>1. \A i \in 1..(Len(s) + 1) : i # Len(s) + 1 => i \in 1..Len(s) /\ s[i] \in T
    OBVIOUS
  <2>2. Append(s, e) \in [1..(Len(s) + 1) -> T]
    BY <1>1, LenProperties
  <2>3. \A i \in 1..(Len(s) + 1) : Append(s, e)[i] = r[i]
    BY <1>1, <2>1
  <2>4. DOMAIN r = 1..(Len(s) + 1)
    OBVIOUS
  <2> QED BY <2>2, <2>3, <2>4
<1> QED BY <1>1, <1>2 DEF Last

(* What kills at the end of a session was in a packet that was read. *)
LEMMA EndIsDire ==
  ASSUME Typed, NEW c \in Client, Follows(c), EndKills(c)
  PROVE  Dire(c)
<1> DEFINE n == Len(acted[c])
<1>1. /\ acted[c] = [i \in 1..n |-> [n |-> i, whole |-> TRUE]]
      /\ n <= Len(stream[c]) /\ End(c, n) <= taken[c]
  BY DEF Follows
<1>2. /\ stream[c] \in Seq(Packets) /\ acted[c] \in Seq([n : Nat, whole : BOOLEAN])
      /\ n \in 0..Len(stream[c]) /\ DOMAIN stream[c] = 1..Len(stream[c]) /\ taken[c] \in Nat
  BY <1>1 DEF Typed
<1>3. ASSUME NEW e \in ToSet(acted[c])
      PROVE  e.whole /\ e.n \in 1..n
  <2>1. PICK i \in DOMAIN acted[c] : e = acted[c][i]
    BY DEF ToSet
  <2>2. i \in 1..n
    BY <1>2, <2>1
  <2>3. e = [n |-> i, whole |-> TRUE]
    BY <1>1, <2>1, <2>2
  <2> QED BY <2>2, <2>3
<1>4. ~Garbled(c)
  BY <1>3 DEF Garbled
<1>5. PICK p \in Said(c) : p.deadly
  BY <1>4 DEF EndKills
<1>6. PICK e \in ToSet(acted[c]) : p = stream[c][e.n]
  BY <1>5 DEF Said
<1>7. PICK i : i = e.n
  OBVIOUS
<1>8. i \in 1..n /\ p = stream[c][i] /\ i \in DOMAIN stream[c] /\ i \in 0..Len(stream[c])
  BY <1>2, <1>3, <1>6, <1>7
<1>9. End(c, i) <= End(c, n)
  BY <1>2, <1>8, EndsDiffer
<1>10. End(c, i) <= taken[c]
  <2>1. End(c, i) \in Nat /\ End(c, n) \in Nat
    BY <1>2, <1>8, EndIs
  <2> HIDE DEF n
  <2> QED BY <1>1, <1>2, <1>9, <2>1
<1> QED BY <1>5, <1>8, <1>10 DEF Dire

LEMMA FollowsTurn ==
  ASSUME Short, Laid, NEW c \in Client, HandlePacket(c), Follows(c)
  PROVE  /\ Follows(c)'
         /\ up' = up \/ Dire(c)' \/ \E d \in Client : gone'[d] = "broken"
<1> DEFINE n == Len(acted[c])
           Entries == [n : Nat, whole : BOOLEAN]
<1>1. Typed /\ stream[c] \in Seq(Packets) /\ acted[c] \in Seq(Entries) /\ taken[c] \in Nat
      /\ acted \in [Client -> Seq(Entries)]
      /\ cur.base \in Nat /\ cur.off \in Nat /\ cur.left \in Int
  BY DEF Laid, Typed
<1>2. /\ InRead(c)
      /\ stream' = stream /\ tls' = tls /\ taken' = taken
      /\ \A d \in Client : gone[d] = "broken" => gone'[d] = "broken"
      /\ Dies(c) \/ Closes(c) \/ Blunders(c) \/ Acts(c)
  BY <1>1, PacketStep
<1>3. PICK j \in 1..2 :
        /\ n + j <= Len(stream[c])
        /\ taken[c] = End(c, n + j)
        /\ j = 2 => cur.off = 0
  BY <1>2 DEF Follows
<1>4. /\ Here = End(c, n) /\ cur.left = taken[c] - Here /\ cur.left <= Buff
      /\ acted[c] = [i \in 1..n |-> [n |-> i, whole |-> TRUE]]
  BY <1>2, LeftInBuffer DEF Follows
<1>5. /\ n \in 0..Len(stream[c]) /\ n + 1 \in 1..Len(stream[c])
      /\ n + 1 \in 0..Len(stream[c]) /\ n + j \in 0..Len(stream[c])
      /\ (n + 1) - 1 = n /\ n \in Nat
  BY <1>1, <1>3
<1>6. Whole(c, n + 1)
  <2>1. End(c, n + 1) = End(c, n) + Size(stream[c][n + 1])
    BY <1>1, <1>5, EndIs
  <2>2. End(c, n + 1) <= End(c, n + j)
    BY <1>1, <1>3, <1>5, EndsDiffer
  <2>3. End(c, n) \in Nat /\ End(c, n + j) \in Nat /\ stream[c][n + 1] \in Packets
        /\ n + 1 \in DOMAIN stream[c]
    BY <1>1, <1>5, EndIs
  <2>4. Size(stream[c][n + 1]) \in Nat
    BY <2>3, PacketSize
  <2>5. Framed(c, n + 1)
    BY <1>4, <1>5, <2>3 DEF Framed
  <2> HIDE DEF n
  <2> QED BY <1>3, <1>4, <2>1, <2>2, <2>3, <2>4, <2>5 DEF Whole
<1>7. ASSUME NEW m \in DOMAIN stream[c], Whole(c, m) PROVE m = n + 1
  <2>1. m - 1 \in 0..Len(stream[c]) /\ End(c, m - 1) = Here /\ m \in Nat
    BY <1>1, <1>7 DEF Whole, Framed
  <2>2. m - 1 = n
    BY <1>1, <1>4, <1>5, <2>1, EndsDiffer
  <2> QED BY <2>1, <2>2, <1>5
<1> DEFINE len == stream[c][n + 1].len
<1>8. /\ n + 1 \in DOMAIN stream[c] /\ len \in Nat
      /\ End(c, n + 1) = Here + (len + 2) /\ len + 2 <= cur.left
  <2>1. n + 1 \in DOMAIN stream[c]
    BY <1>1, <1>5
  <2> HIDE DEF n
  <2> QED BY <1>1, <1>4, <1>6, <2>1, WholeIsShort
<1>9. End(c, n + 1) <= taken[c]
  <2>1. Here \in Nat
    BY <1>1 DEF Here
  <2> HIDE DEF n
  <2> QED BY <1>1, <1>4, <1>8, <2>1
<1>10. CASE Dies(c)
  <2>1. cur.left >= 0
    BY <1>1, <1>8
  <2>2. Dire(c) \/ \E d \in Client : gone[d] = "broken"
    <3>1. \/ \E d \in Client : gone[d] = "broken"
          \/ \E m \in DOMAIN stream[c] : Whole(c, m) /\ stream[c][m].deadly
          \/ EndKills(c)
      BY <1>1, <1>6, <1>8, <1>10, <2>1 DEF Dies
    <3>2. ASSUME NEW m \in DOMAIN stream[c], Whole(c, m), stream[c][m].deadly
          PROVE  Dire(c)
      BY <1>7, <1>9, <3>2 DEF Dire
    <3> QED BY <1>1, <3>1, <3>2, EndIsDire
  <2>3. UNCHANGED <<conn, acted, pc, cur>>
    BY <1>10 DEF Dies, Die
  <2>4. Follows(c)'
    BY <1>2, <2>3, EndSame DEF Follows, InRead, Here
  <2>5. Dire(c) => Dire(c)'
    BY <1>2, EndSame DEF Dire
  <2> QED BY <1>2, <2>2, <2>4, <2>5
<1>11. ASSUME NEW m \in DOMAIN stream[c], Whole(c, m), Append1(c, [n |-> m, whole |-> TRUE])
       PROVE  /\ Len(acted'[c]) = n + 1
              /\ acted'[c] = [i \in 1..(n + 1) |-> [n |-> i, whole |-> TRUE]]
  <2>1. m = n + 1 /\ [n |-> m, whole |-> TRUE] \in Entries
    BY <1>5, <1>7, <1>11
  <2>2. acted'[c] = Append(acted[c], [n |-> n + 1, whole |-> TRUE])
    BY <1>1, <1>11, <2>1 DEF Append1
  <2>3. /\ Len(acted'[c]) = n + 1
        /\ acted'[c] = [i \in 1..(n + 1) |->
                          IF i = n + 1 THEN [n |-> n + 1, whole |-> TRUE] ELSE acted[c][i]]
    <3> HIDE DEF Entries
    <3> QED BY <1>1, <2>1, <2>2, AppendIs
  <2>4. \A i \in 1..(n + 1) : i # n + 1 => i \in 1..n
    BY <1>5
  <2>5. \A i \in 1..n : acted[c][i] = [n |-> i, whole |-> TRUE]
    BY <1>4
  <2> HIDE DEF n
  <2> QED BY <2>3, <2>4, <2>5
<1>12. CASE Closes(c)
  <2>1. conn'[c] = "closed" /\ pc' # "packets" /\ up' = up
    BY <1>1, <1>12 DEF Closes, CloseConn, Typed
  <2>2. CASE acted' = acted
    BY <1>2, <2>1, <2>2, EndSame DEF Follows, InRead
  <2>3. CASE acted' # acted
    <3>1. /\ Len(acted'[c]) = n + 1
          /\ acted'[c] = [i \in 1..(n + 1) |-> [n |-> i, whole |-> TRUE]]
      BY <1>11, <1>12, <2>3 DEF Closes
    <3> HIDE DEF n
    <3> QED BY <1>2, <1>5, <1>9, <2>1, <3>1, EndSame DEF Follows, InRead
  <2> QED BY <2>1, <2>2, <2>3
<1>13. CASE Blunders(c)
  BY <1>6, <1>8, <1>13 DEF Blunders
<1>14. CASE Acts(c)
  <2>1. /\ GoOn(c, PacketLen(len))
        /\ Append1(c, [n |-> n + 1, whole |-> TRUE])
        /\ up' = up /\ conn' = conn
    BY <1>7, <1>14 DEF Acts
  <2>2. /\ Len(acted'[c]) = n + 1
        /\ acted'[c] = [i \in 1..(n + 1) |-> [n |-> i, whole |-> TRUE]]
    BY <1>6, <1>8, <1>11, <2>1
  <2>3. /\ cur'.conn = cur.conn /\ cur'.base = cur.base
        /\ cur'.off = len + 2 /\ cur'.left = cur.left - (len + 2)
        /\ pc' = IF cur'.left = 0 THEN "events" ELSE pc
    BY <1>1, <1>8, <2>1, GoOnIs
  <2>4. CASE j = 1
    <3>1. cur'.left = 0 /\ taken'[c] = End(c, n + 1)
      <4>1. taken[c] = End(c, n + 1)
        BY <1>3, <2>4
      <4>2. cur.left = taken[c] - Here /\ taken[c] = Here + (len + 2) /\ Here \in Nat
        BY <1>1, <1>4, <1>8, <4>1 DEF Here
      <4> HIDE DEF n, len
      <4> QED BY <1>2, <1>8, <2>3, <4>1, <4>2
    <3>2. ~InRead(c)'
      BY <2>3, <3>1 DEF InRead
    <3> HIDE DEF n
    <3> QED BY <1>2, <1>5, <1>9, <2>1, <2>2, <3>1, <3>2, EndSame DEF Follows
  <2>5. CASE j = 2
    <3>1. Here' = End(c, n + 1)
      BY <1>1, <1>3, <1>8, <2>3, <2>5 DEF Here
    <3>2. cur'.left = taken'[c] - Here'
      <4>1. cur'.left = (taken[c] - Here) - (len + 2)
        BY <1>4, <2>3
      <4>2. Here \in Nat
        BY <1>1 DEF Here
      <4> QED BY <1>1, <1>2, <1>8, <3>1, <4>1, <4>2
    <3>3. taken'[c] = End(c, (n + 1) + 1) /\ (n + 1) + 1 <= Len(stream[c])
      BY <1>2, <1>3, <1>5, <2>5
    <3>4. InRead(c)' => \E i \in 1..2 : /\ (n + 1) + i <= Len(stream[c])
                                        /\ taken'[c] = End(c, (n + 1) + i)
                                        /\ i = 2 => cur'.off = 0
      BY <3>3
    <3>5. InRead(c)'
      <4>1. End(c, n + 1) < End(c, n + 2)
        <5>1. n + 2 \in 0..Len(stream[c]) /\ n + 1 < n + 2
          BY <1>3, <1>5, <2>5
        <5>2. End(c, n + 1) + 2 <= End(c, n + 2) /\ End(c, n + 1) \in Nat /\ End(c, n + 2) \in Nat
          BY <1>1, <1>5, <5>1, EndsGrow, EndIs
        <5> QED BY <5>2
      <4>2. taken'[c] = End(c, n + 2)
        BY <1>2, <1>3, <2>5
      <4>3. taken'[c] \in Nat /\ Here' < taken'[c] /\ Here' \in Nat
        <5>1. Here \in Nat
          BY <1>1 DEF Here
        <5> HIDE DEF n, len
        <5> QED BY <1>1, <1>2, <1>8, <3>1, <4>1, <4>2, <5>1
      <4>4. cur'.left # 0
        BY <3>2, <4>3
      <4> QED BY <1>2, <2>3, <4>4 DEF InRead
    <3> HIDE DEF n
    <3> QED BY <1>2, <1>5, <1>9, <2>1, <2>2, <3>1, <3>2, <3>4, <3>5, EndSame DEF Follows
  <2> QED BY <2>1, <2>4, <2>5
<1> QED BY <1>2, <1>10, <1>12, <1>13, <1>14
(* What happens to another client while one is served. *)
LEMMA TurnAside ==
  ASSUME Laid, NEW c \in Client, HandlePacket(c) \/ Read(c), NEW d \in Client, d # c
  PROVE  /\ ~InRead(d) /\ ~InRead(d)'
         /\ stream' = stream /\ acted'[d] = acted[d] /\ taken'[d] = taken[d]
         /\ conn'[d] = conn[d] /\ tidy'[d] = tidy[d] /\ clean'[d] = clean[d]
<1>1. CASE Read(c)
  <2>1. /\ pc = "events" /\ cur'.conn = c
        /\ \E k : taken' = [taken EXCEPT ![c] = k]
        /\ \E b : tidy' = [tidy EXCEPT ![c] = b]
        /\ \E b : clean' = [clean EXCEPT ![c] = b]
        /\ UNCHANGED <<stream, conn, acted>>
    BY <1>1 DEF Read, peers
  <2> QED BY <2>1 DEF InRead, Laid, Typed
<1>2. CASE HandlePacket(c)
  <2>1. Typed
    BY DEF Laid
  <2>2. /\ InRead(c)
        /\ stream' = stream /\ taken' = taken /\ tidy' = tidy /\ clean' = clean
        /\ Dies(c) \/ Closes(c) \/ Blunders(c) \/ Acts(c)
    BY <1>2, <2>1, PacketStep
  <2>3. CASE Dies(c)
    BY <2>2, <2>3 DEF Dies, Die, InRead
  <2>4. CASE Closes(c)
    BY <2>1, <2>2, <2>4 DEF Closes, CloseConn, Append1, InRead, Typed
  <2>5. CASE Blunders(c)
    <3>1. PICK len \in Nat : GoOn(c, PacketLen(len))
      BY <2>5 DEF Blunders
    <3>2. cur'.conn = cur.conn
      BY <2>1, <3>1, GoOnIs
    <3> QED BY <2>1, <2>2, <2>5, <3>2 DEF Blunders, Append1, InRead, Typed
  <2>6. CASE Acts(c)
    <3>1. PICK n \in DOMAIN stream[c] : /\ GoOn(c, PacketLen(stream[c][n].len))
                                        /\ Append1(c, [n |-> n, whole |-> TRUE])
      BY <2>6 DEF Acts
    <3>2. stream[c][n].len \in Nat
      <4>1. stream[c] \in Seq(Packets)
        BY <2>1 DEF Typed
      <4>2. stream[c][n] \in Packets
        BY <4>1
      <4> QED BY <4>2 DEF Packets
    <3>3. cur'.conn = cur.conn
      BY <2>1, <3>1, <3>2, GoOnIs
    <3> QED BY <2>1, <2>2, <2>6, <3>1, <3>3 DEF Acts, Append1, InRead, Typed
  <2> QED BY <2>2, <2>3, <2>4, <2>5, <2>6
<1> QED BY <1>1, <1>2

LEMMA OrderlyInit == Init => Orderly /\ Living
<1> SUFFICES ASSUME Init PROVE Orderly /\ Living
  OBVIOUS
<1>1. ASSUME NEW c \in Client PROVE Follows(c)
  <2>1. acted[c] = <<>> /\ Len(acted[c]) = 0 /\ ~InRead(c) /\ taken[c] = 0
        /\ stream[c] \in Seq(Packets)
    BY LaidInit DEF Init, InRead, Laid, Typed
  <2>2. End(c, 0) = 0 /\ Len(stream[c]) \in Nat
    BY <2>1, EndIs
  <2>3. acted[c] = [n \in 1..0 |-> [n |-> n, whole |-> TRUE]]
    BY <2>1
  <2> QED BY <2>1, <2>2, <2>3 DEF Follows
<1> QED BY <1>1 DEF Init, Orderly, Living

LEMMA OrderlyNext ==
  ASSUME Short, Laid, Orderly, Living, [Next]_vars
  PROVE  Orderly' /\ Living'
<1>1. CASE Quiet /\ (up \/ UNCHANGED vars)
  <2>1. Orderly'
    BY <1>1, FollowsQuiet DEF Orderly, Quiet
  <2>2. \A c \in Client : (~tidy[c] => ~tidy'[c]) /\ (Dire(c) => Dire(c)')
    BY <1>1, EndSame DEF Quiet, Dire
  <2>3. \A c \in Client : tidy[c] /\ EndKills(c) => Dire(c)
    BY EndIsDire DEF Orderly, Laid
  <2>4. Living'
    <3>1. CASE UNCHANGED vars
      BY <2>2, <3>1 DEF Living, vars, peers
    <3>2. CASE up
      BY <1>1, <2>2, <2>3, <3>2 DEF Living, Quiet
    <3> QED BY <1>1, <3>1, <3>2
  <2> QED BY <2>1, <2>4
<1>2. ASSUME NEW c \in Client, Read(c), up PROVE Orderly' /\ Living'
  <2>1. ASSUME NEW d \in Client, tidy'[d] PROVE Follows(d)'
    <3>1. CASE d = c
      BY <1>2, <2>1, <3>1, FollowsRead DEF Orderly
    <3>2. CASE d # c
      BY <1>2, <2>1, <3>2, TurnAside, FollowsAway DEF Orderly
    <3> QED BY <3>1, <3>2
  <2>2. /\ up' = up /\ gone' = gone /\ pc = "events"
        /\ \E b \in BOOLEAN : tidy' = [tidy EXCEPT ![c] = tidy[c] /\ b]
    <3>1. \E k : tidy' = [tidy EXCEPT ![c] = tidy[c] /\ (Boundary(c, taken[c])
                            /\ Cardinality(Begun(c, taken[c], taken[c] + k)) \in 1..2)
                            /\ Boundary(c, taken[c] + k)]
      BY <1>2 DEF Read
    <3> QED BY <1>2, <3>1 DEF Read
  <2>3. \A d \in Client : ~tidy[d] => ~tidy'[d]
    BY <2>2 DEF Laid, Typed
  <2> QED BY <1>2, <2>1, <2>2, <2>3 DEF Orderly, Living
<1>3. ASSUME NEW c \in Client, HandlePacket(c), up PROVE Orderly' /\ Living'
  <2>1. ASSUME NEW d \in Client, tidy[d] PROVE Follows(d)'
    <3>1. CASE d = c
      BY <1>3, <2>1, <3>1, FollowsTurn DEF Orderly
    <3>2. CASE d # c
      BY <1>3, <2>1, <3>2, TurnAside, FollowsAway DEF Orderly
    <3> QED BY <3>1, <3>2
  <2>2. /\ tidy' = tidy /\ pc = "packets"
        /\ \A d \in Client : gone[d] = "broken" => gone'[d] = "broken"
    BY <1>3, PacketStep DEF Laid, InRead
  <2>3. tidy[c] => up' = up \/ Dire(c)' \/ \E d \in Client : gone'[d] = "broken"
    BY <1>3, FollowsTurn DEF Orderly
  <2> QED BY <1>3, <2>1, <2>2, <2>3 DEF Orderly, Living
<1>4. CASE UNCHANGED vars
  BY <1>4, <1>1 DEF vars, peers, Quiet
<1>5. Next => up
  BY DEF Next, Serve, Peers
<1> QED BY <1>1, <1>2, <1>3, <1>4, <1>5, StepIs

LEMMA AlwaysOrderly ==
  ASSUME Short
  PROVE  Spec => [](Laid /\ Orderly /\ Living)
<1>1. Laid /\ Orderly /\ Living /\ [Next]_vars => (Laid /\ Orderly /\ Living)'
  BY LaidNext, OrderlyNext
<1> QED BY <1>1, LaidInit, OrderlyInit, PTL DEF Spec

(* As long as the reads from a client hold one or two whole packets each,  *)
(* its packets are acted on once and in order, for any clients, streams    *)
(* and other traffic (service_socket.c 117).                               *)
THEOREM PacketsInOrder ==
  ASSUME Short
  PROVE  Spec => []InOrder
<1>1. Laid /\ Orderly => InOrder
  <2> SUFFICES ASSUME Laid, Orderly, NEW c \in Client, tidy[c]
               PROVE  acted[c] = [n \in DOMAIN acted[c] |-> [n |-> n, whole |-> TRUE]]
    BY DEF InOrder
  <2>1. DOMAIN acted[c] = 1..Len(acted[c])
    BY DEF Laid, Typed
  <2> QED BY <2>1 DEF Orderly, Follows
<1> QED BY <1>1, AlwaysOrderly, PTL

(* And then, as long as none of what was read is deadly of itself, the     *)
(* process does not die, but of a failed handshake or of a second write to *)
(* a peer that has gone (event.c 27): the end of a session kills only if a *)
(* packet of it was deadly, and no packet is torn by these reads.          *)
THEOREM DecencyKeepsAlive ==
  ASSUME Short
  PROVE  Spec => []AliveIfDecent
<1>1. Laid /\ Orderly /\ Living => AliveIfDecent
  <2> SUFFICES ASSUME Laid, Living, \A c \in Client : Decent(c), pc # "shaking"
               PROVE  up
    BY DEF AliveIfDecent
  <2>1. ASSUME NEW c \in Client PROVE ~Dire(c)
    <3>1. stream[c] \in Seq(Packets) /\ taken[c] \in Nat
      BY DEF Laid, Typed
    <3>2. \A n \in DOMAIN stream[c] : n \in 0..Len(stream[c])
      BY <3>1
    <3>3. \A n \in DOMAIN stream[c] : End(c, n) \in Nat
      BY <3>1, <3>2, EndIs
    <3> QED BY <3>1, <3>3 DEF Dire, Decent
  <2> QED BY <2>1 DEF Living, Decent
<1> QED BY <1>1, AlwaysOrderly, PTL
----------------------------------------------------------------------------
(* Reads that begin one or two packets, the last of them cut.              *)

LEMMA StandsAway ==
  ASSUME NEW c \in Client, Stands(c), ~InRead(c), ~InRead(c)',
         stream' = stream, taken'[c] = taken[c]
  PROVE  Stands(c)'
BY EndSame DEF Stands, Boundary, HeaderSize

LEMMA StandsQuiet ==
  ASSUME NEW c \in Client, Stands(c), Quiet
  PROVE  Stands(c)'
<1>1. CASE pc' = pc /\ cur' = cur
  BY <1>1, EndSame DEF Stands, Boundary, HeaderSize, Quiet, InRead, Here
<1>2. CASE pc # "packets" /\ pc' # "packets"
  BY <1>2, StandsAway DEF Quiet, InRead
<1> QED BY <1>1, <1>2 DEF Quiet

LEMMA StandsRead ==
  ASSUME Laid, NEW c \in Client, Read(c), clean'[c]
  PROVE  Stands(c)'
<1> DEFINE L == Len(stream[c])
<1>1. PICK k \in 1..Buff :
        /\ pc' = "packets" /\ stream' = stream
        /\ taken' = [taken EXCEPT ![c] = taken[c] + k]
        /\ cur' = [conn |-> c, base |-> taken[c], off |-> 0, left |-> k]
        /\ clean' = [clean EXCEPT ![c] = @ /\ (Boundary(c, taken[c])
               /\ Cardinality(Begun(c, taken[c], taken[c] + k)) \in 1..2)]
  BY ReadIs
<1>2. /\ stream[c] \in Seq(Packets) /\ taken[c] \in Nat /\ taken'[c] = taken[c] + k
      /\ L \in Nat /\ DOMAIN stream[c] = 1..L
  BY <1>1 DEF Laid, Typed
<1>3. Boundary(c, taken[c]) /\ Cardinality(Begun(c, taken[c], taken[c] + k)) \in 1..2
  BY <1>1 DEF Laid, Typed
<1>4. PICK i \in 0..L : End(c, i) = taken[c]
  BY <1>3 DEF Boundary
<1>5. taken'[c] <= End(c, L) /\ End(c, L) \in Nat
  <2>1. Laid'
    BY LaidRead
  <2>2. End(c, Len(stream[c]))' = End(c, L)
    BY <1>1, EndSame
  <2>3. taken'[c] <= End(c, Len(stream[c]))'
    BY <2>1 DEF Laid, Arrived
  <2> QED BY <2>2, <2>3, <1>2, EndIs
<1>6. i < L
  BY <1>2, <1>4, <1>5
<1> DEFINE n == i + 1
<1>7. n \in 1..L /\ n - 1 = i
  BY <1>4, <1>6, <1>2
<1>8. ASSUME n < L, ~(taken'[c] <= End(c, n + 1)) PROVE FALSE
  <2>1. n + 1 \in 0..L /\ n + 1 # L
    BY <1>7, <1>8, <1>5, <1>2
  <2>2. n + 2 \in 1..L /\ (n + 2) - 1 = n + 1 /\ n + 1 \in 1..L /\ (n + 1) - 1 = n
    BY <1>7, <2>1, <1>2
  <2>3. /\ End(c, i) \in Nat /\ End(c, n) \in Nat /\ End(c, n + 1) \in Nat
        /\ End(c, i) + 2 <= End(c, n) /\ End(c, n) + 2 <= End(c, n + 1)
    <3>1. n \in 0..L /\ i < n /\ n < n + 1
      BY <1>7, <1>4, <1>2
    <3> HIDE DEF n
    <3> QED BY <3>1, <2>1, <1>2, <1>4, EndIs, EndsGrow
  <2>4. n..(n + 2) \subseteq Begun(c, taken[c], taken[c] + k)
    <3>1. \A m \in n..(n + 2) : m = n \/ m = n + 1 \/ m = n + 2
      BY <1>7
    <3>2. End(c, n + 1) < taken[c] + k
      BY <1>8, <1>2, <2>3
    <3>3. taken[c] <= End(c, i) /\ End(c, n) < taken[c] + k /\ End(c, i) < taken[c] + k
          /\ taken[c] <= End(c, n) /\ taken[c] <= End(c, n + 1)
      <4> HIDE DEF n
      <4> QED BY <3>2, <2>3, <1>2, <1>4
    <3>4. n \in DOMAIN stream[c] /\ n + 1 \in DOMAIN stream[c] /\ n + 2 \in DOMAIN stream[c]
      BY <1>2, <1>7, <2>2
    <3>5. ASSUME NEW m \in n..(n + 2)
          PROVE  m \in DOMAIN stream[c] /\ taken[c] <= End(c, m - 1) /\ End(c, m - 1) < taken[c] + k
      <4>1. CASE m = n
        BY <4>1, <3>3, <3>4, <1>7
      <4>2. CASE m = n + 1
        BY <4>2, <3>2, <3>3, <3>4, <2>2
      <4>3. CASE m = n + 2
        BY <4>3, <3>2, <3>3, <3>4, <2>2
      <4> QED BY <3>1, <4>1, <4>2, <4>3
    <3> QED BY <3>5 DEF Begun
  <2>5. Cardinality(n..(n + 2)) = 3
    <3>1. n \in Int /\ n + 2 \in Int /\ ~(n > n + 2) /\ (n + 2) - n + 1 = 3
      BY <1>7
    <3> HIDE DEF n
    <3> QED BY <3>1, FS_Interval
  <2>6. IsFiniteSet(Begun(c, taken[c], taken[c] + k))
    <3>1. Begun(c, taken[c], taken[c] + k) \subseteq 1..L
      BY <1>2 DEF Begun
    <3>2. IsFiniteSet(1..L)
      BY <1>2, FS_Interval
    <3> QED BY <3>1, <3>2, FS_Subset
  <2>7. Cardinality(n..(n + 2)) <= Cardinality(Begun(c, taken[c], taken[c] + k))
    BY <2>4, <2>6, FS_Subset
  <2> QED BY <2>5, <2>7, <1>3
<1>9. /\ Here' = taken[c] /\ cur'.left = k /\ cur'.off = 0
      /\ InRead(c)'
  BY <1>1, <1>2 DEF Here, InRead
<1>10. cur'.left = taken'[c] - Here'
  BY <1>2, <1>9
<1> HIDE DEF n
<1>11. n \in DOMAIN stream[c] /\ Here' = End(c, n - 1)
  BY <1>2, <1>4, <1>7, <1>9
<1>12. n < Len(stream'[c]) => taken'[c] <= End(c, n + 1)'
  BY <1>1, <1>8, EndSame
<1> QED BY <1>1, <1>9, <1>10, <1>11, <1>12, EndSame DEF Stands

LEMMA StandsTurn ==
  ASSUME Short, Laid, NEW c \in Client, HandlePacket(c), Stands(c), conn'[c] # "closed"
  PROVE  Stands(c)'
<1> DEFINE L == Len(stream[c])
<1>1. Typed /\ stream[c] \in Seq(Packets) /\ taken[c] \in Nat
      /\ cur.base \in Nat /\ cur.off \in Nat /\ cur.left \in Int
      /\ Buff \in Nat /\ Base \in Nat /\ L \in Nat /\ DOMAIN stream[c] = 1..L
  BY LoopAssumption DEF Laid, Typed
<1>2. /\ InRead(c) /\ stream' = stream /\ taken' = taken
      /\ Dies(c) \/ Closes(c) \/ Blunders(c) \/ Acts(c)
  BY <1>1, PacketStep
<1>3. CASE Dies(c)
  BY <1>2, <1>3, EndSame DEF Dies, Die, Stands, InRead, Here, Boundary, HeaderSize
<1>4. CASE Closes(c)
  BY <1>1, <1>4 DEF Closes, CloseConn, Typed
<1>5. CASE Blunders(c) \/ Acts(c)
  <2>1. cur.left >= 0
    <3>1. ASSUME NEW n \in DOMAIN stream[c], Whole(c, n) PROVE cur.left >= 0
      <4>1. Size(stream[c][n]) \in Nat
        BY <1>1, PacketSize
      <4> QED BY <1>1, <3>1, <4>1 DEF Whole
    <3> QED BY <1>5, <3>1 DEF Blunders, Acts
  <2>2. cur.left = taken[c] - Here /\ cur.left <= Buff
    BY <1>1, <1>2, <2>1, LeftInBuffer DEF Stands
  <2>3. PICK n \in DOMAIN stream[c] :
          /\ Here = End(c, n - 1)
          /\ \/ cur.off = 0 /\ (n < L => taken[c] <= End(c, n + 1))
             \/ taken[c] <= End(c, n)
    BY <1>1, <1>2, <2>1 DEF Stands
  <2> DEFINE p == stream[c][n]
  <2>4. /\ n \in 1..L /\ n - 1 \in 0..L /\ n \in 0..L /\ p \in Packets
        /\ End(c, n) = Here + Size(p) /\ Here \in Nat
        /\ taken[c] <= End(c, L) /\ End(c, L) \in Nat
    <3>1. n \in 1..L /\ n - 1 \in 0..L /\ n \in 0..L /\ p \in Packets /\ L \in 0..L
      BY <1>1
    <3>2. End(c, n) = End(c, n - 1) + Size(p) /\ End(c, L) \in Nat
      BY <1>1, <3>1, EndIs
    <3> QED BY <3>1, <3>2, <2>3, <1>1 DEF Laid, Arrived, Here
  <2>5. /\ p.len \in Nat /\ HeaderSize(p) \in 2..3 /\ Size(p) = HeaderSize(p) + p.len
        /\ Size(p) \in Nat /\ (p.len < Base <=> HeaderSize(p) = 2)
    BY <2>4, PacketSize DEF Packets
  <2>6. ASSUME NEW len \in Nat, GoOn(c, PacketLen(len))
        PROVE  /\ cur'.conn = cur.conn /\ cur'.base = cur.base
               /\ cur'.off = len + 2 /\ cur'.left = cur.left - (len + 2)
               /\ pc' = IF cur'.left = 0 THEN "events" ELSE pc
    BY <1>1, <2>6, GoOnIs
  <2>7. CASE Acts(c)
    <3>1. PICK m \in DOMAIN stream[c] : Whole(c, m) /\ GoOn(c, PacketLen(stream[c][m].len))
      BY <2>7 DEF Acts
    <3>2. m = n
      <4>1. End(c, m - 1) = Here /\ m \in Nat /\ m - 1 \in 0..L
        BY <1>1, <3>1 DEF Whole, Framed
      <4>2. m - 1 = n - 1
        BY <1>1, <2>3, <2>4, <4>1, EndsDiffer
      <4> QED BY <2>4, <4>1, <4>2
    <3>3. Whole(c, n) /\ GoOn(c, PacketLen(p.len))
      BY <3>1, <3>2
    <3>4. End(c, n) = Here + (p.len + 2) /\ p.len + 2 <= cur.left
      BY <1>1, <2>2, <3>3, WholeIsShort
    <3>5. /\ cur'.conn = cur.conn /\ cur'.base = cur.base
          /\ cur'.off = p.len + 2 /\ cur'.left = cur.left - (p.len + 2)
          /\ pc' = IF cur'.left = 0 THEN "events" ELSE pc
      BY <2>5, <2>6, <3>3
    <3>6. cur'.left = taken[c] - End(c, n) /\ cur'.left >= 0
      <4>1. p.len \in Nat /\ Here \in Nat /\ taken[c] \in Nat /\ cur.left = taken[c] - Here
        BY <1>1, <2>2, <2>4, <2>5
      <4> HIDE DEF p
      <4> QED BY <3>4, <3>5, <4>1
    <3>7. CASE cur'.left = 0
      <4>1. taken[c] = End(c, n)
        <5>1. End(c, n) \in Nat
          BY <1>1, <2>4, EndIs
        <5> QED BY <1>1, <3>6, <3>7, <5>1
      <4>2. Boundary(c, taken[c])
        BY <2>4, <4>1 DEF Boundary
      <4>3. Boundary(c, taken[c])'
        BY <1>2, <4>2, EndSame DEF Boundary
      <4> QED BY <3>5, <3>7, <4>3 DEF Stands, InRead
    <3>8. CASE cur'.left # 0
      <4>1. End(c, n) < taken[c] /\ End(c, n) \in Nat
        <5>1. End(c, n) \in Nat
          BY <1>1, <2>4, EndIs
        <5> QED BY <1>1, <3>6, <3>8, <5>1
      <4>2. n < L
        BY <1>1, <2>4, <4>1
      <4>3. cur.off = 0 /\ taken[c] <= End(c, n + 1)
        BY <1>1, <2>3, <4>1, <4>2
      <4>4. Here' = End(c, n)
        <5> HIDE DEF p
        <5> QED BY <1>1, <2>4, <3>4, <3>5, <4>3 DEF Here
      <4>5. n + 1 \in DOMAIN stream[c] /\ (n + 1) - 1 = n
        BY <1>1, <2>4, <4>2
      <4>6. /\ cur'.left = taken'[c] - Here' /\ Here' = End(c, (n + 1) - 1)'
            /\ taken'[c] <= End(c, n + 1)' /\ n + 1 \in DOMAIN stream'[c]
        BY <1>2, <3>6, <4>3, <4>4, <4>5, EndSame
      <4>7. InRead(c)'
        BY <1>2, <3>5, <3>8 DEF InRead
      <4> QED BY <4>6, <4>7 DEF Stands
    <3> QED BY <3>7, <3>8
  <2>8. CASE Blunders(c)
    <3>1. PICK len \in Nat :
            /\ \A m \in DOMAIN stream[c] : LengthSeen(c, m) => len = stream[c][m].len
            /\ GoOn(c, PacketLen(len))
      BY <2>8 DEF Blunders
    <3>2. /\ cur'.conn = cur.conn /\ cur'.left = cur.left - (len + 2)
          /\ pc' = IF cur'.left = 0 THEN "events" ELSE pc
      BY <2>6, <3>1
    <3>3. Framed(c, n) /\ cur.left < Size(p)
      <4>1. Framed(c, n) /\ ~Whole(c, n)
        BY <2>3, <2>8 DEF Blunders, Framed
      <4> QED BY <1>1, <2>5, <4>1 DEF Whole
    <3>4. CASE HeaderSize(p) <= cur.left
      <4>1. len = p.len
        BY <3>1, <3>3, <3>4 DEF LengthSeen
      <4>2. cur'.left < 0
        <5>1. /\ p.len \in Nat /\ Size(p) = HeaderSize(p) + p.len /\ cur.left \in Int
              /\ Base \in Nat /\ cur.left <= Base + 1 /\ cur.left < Size(p)
              /\ HeaderSize(p) = 2 \/ (HeaderSize(p) = 3 /\ ~(p.len < Base))
          BY <1>1, <2>2, <2>5, <3>3 DEF Short
        <5>2. cur'.left = cur.left - (p.len + 2)
          BY <3>2, <4>1
        <5> HIDE DEF p
        <5> QED BY <5>1, <5>2
      <4>3. pc' = pc
        BY <3>2, <4>2
      <4> QED BY <1>2, <3>2, <4>2, <4>3 DEF Stands, InRead
    <3>5. CASE cur.left < HeaderSize(p)
      <4>1. CASE cur'.left < 0
        <5>1. pc' = pc
          BY <3>2, <4>1
        <5> QED BY <1>2, <3>2, <4>1, <5>1 DEF Stands, InRead
      <4>2. CASE ~(cur'.left < 0)
        <5>1. cur'.left = 0 /\ cur.left = 2 /\ HeaderSize(p) = 3
          <6> HIDE DEF p
          <6> QED BY <1>1, <2>5, <3>2, <3>5, <4>2
        <5>2. taken[c] = End(c, n - 1) + 2
          BY <1>1, <2>2, <2>3, <2>4, <5>1
        <5>3. /\ n \in DOMAIN stream'[c] /\ HeaderSize(stream'[c][n]) = 3
              /\ taken'[c] = End(c, n - 1)' + 2
          BY <1>2, <5>1, <5>2, EndSame
        <5>4. ~InRead(c)'
          BY <3>2, <5>1 DEF InRead
        <5>5. HeaderSize(stream[c][n])' = 3
          BY <5>3 DEF HeaderSize
        <5> QED BY <5>3, <5>4, <5>5 DEF Stands
      <4> QED BY <4>1, <4>2
    <3> QED BY <1>1, <2>5, <3>4, <3>5
  <2> QED BY <1>5, <2>7, <2>8
<1> QED BY <1>2, <1>3, <1>4, <1>5
LEMMA BoundedInit == Init => Bounded
<1> SUFFICES ASSUME Init, NEW c \in Client PROVE Stands(c)
  BY DEF Bounded
<1>1. taken[c] = 0 /\ ~InRead(c) /\ stream[c] \in Seq(Packets)
  BY LaidInit DEF Init, InRead, Laid, Typed
<1>2. End(c, 0) = 0 /\ 0 \in 0..Len(stream[c])
  BY <1>1, EndIs
<1> QED BY <1>1, <1>2 DEF Stands, Boundary

LEMMA BoundedNext ==
  ASSUME Short, Laid, Bounded, [Next]_vars
  PROVE  Bounded'
<1>1. CASE Quiet
  BY <1>1, StandsQuiet DEF Bounded, Quiet
<1>2. ASSUME NEW c \in Client, Read(c) PROVE Bounded'
  <2>1. ASSUME NEW d \in Client, clean'[d], conn'[d] # "closed" PROVE Stands(d)'
    <3>1. CASE d = c
      BY <1>2, <2>1, <3>1, StandsRead
    <3>2. CASE d # c
      BY <1>2, <2>1, <3>2, TurnAside, StandsAway DEF Bounded
    <3> QED BY <3>1, <3>2
  <2> QED BY <2>1 DEF Bounded
<1>3. ASSUME NEW c \in Client, HandlePacket(c) PROVE Bounded'
  <2>1. clean' = clean /\ conn[c] = "open"
    BY <1>3, PacketStep DEF Laid, InRead, AtWork
  <2>2. ASSUME NEW d \in Client, clean'[d], conn'[d] # "closed" PROVE Stands(d)'
    <3>1. CASE d = c
      BY <1>3, <2>1, <2>2, <3>1, StandsTurn DEF Bounded
    <3>2. CASE d # c
      BY <1>3, <2>2, <3>2, TurnAside, StandsAway DEF Bounded
    <3> QED BY <3>1, <3>2
  <2> QED BY <2>2 DEF Bounded
<1>4. CASE UNCHANGED vars
  BY <1>4, <1>1 DEF vars, peers, Quiet
<1> QED BY <1>1, <1>2, <1>3, <1>4, StepIs

(* Wherever reads cut the packets of a client: as long as each read starts *)
(* with a packet and begins two at most, a cut packet costs the connection *)
(* or the process, unless the cut went through its length                  *)
(* (service_socket.c 140).                                                 *)
THEOREM CutsCost ==
  ASSUME Short
  PROVE  Spec => []BoundaryOrDead
<1>1. Bounded => BoundaryOrDead
  BY DEF Bounded, Stands, InRead, BoundaryOrDead
<1>2. Laid /\ Bounded /\ [Next]_vars => (Laid /\ Bounded)'
  BY LaidNext, BoundedNext
<1> QED BY <1>1, <1>2, LaidInit, BoundedInit, PTL DEF Spec

----------------------------------------------------------------------------
(* Packets of one size. *)

LEMMA Multiples ==
  ASSUME NEW m \in Nat, NEW s \in Nat
  PROVE  /\ m * s \in Nat
         /\ m * s # 0 => m >= 1 /\ s >= 1 /\ m * s >= s
         /\ m >= 1 => m * s - s = (m - 1) * s
BY SMT

LEMMA Quotient ==
  ASSUME NEW m \in Nat, NEW s \in Nat \ {0}
  PROVE  (m * s) \div s = m
BY SMT

LEMMA EqualSizes ==
  ASSUME NEW c, stream[c] \in Seq(Packets), NEW s \in Nat,
         NEW i \in 0..Len(stream[c]), NEW j \in 0..Len(stream[c]), i <= j,
         OfSize(c, i, j, s)
  PROVE  End(c, j) = End(c, i) + (j - i) * s
<1> DEFINE S == {n \in 0..(j - i) : End(c, i + n) = End(c, i) + n * s}
<1>1. j - i \in Nat /\ End(c, i) \in Nat
  BY EndIs
<1>2. 0 \in S
  BY <1>1, Multiples
<1>3. ASSUME NEW n \in 0..(j - i), n > 0, n - 1 \in S PROVE n \in S
  <2>1. /\ i + n \in 1..Len(stream[c]) /\ i + n \in (i + 1)..j
        /\ (i + n) - 1 = i + (n - 1)
    BY <1>3
  <2>2. End(c, i + n) = End(c, i + (n - 1)) + s
    BY <2>1, EndIs DEF OfSize
  <2>3. End(c, i + (n - 1)) = End(c, i) + (n - 1) * s
    BY <1>3
  <2>4. n * s - s = (n - 1) * s /\ n * s \in Nat
    BY <1>3, Multiples
  <2>5. End(c, i + n) = End(c, i) + n * s
    BY <1>1, <2>2, <2>3, <2>4
  <2> QED BY <1>3, <2>5
<1> HIDE DEF S
<1>4. \A n \in 0..(j - i) : n \in S
  BY <1>1, <1>2, <1>3, UpTo
<1>5. j - i \in S
  BY <1>1, <1>4
<1>6. i + (j - i) = j
  OBVIOUS
<1> QED BY <1>5, <1>6 DEF S
LEMMA FewerMultiples ==
  ASSUME NEW m \in Nat, NEW k \in Nat, m <= k, NEW s \in Nat
  PROVE  m * s <= k * s /\ k * s - m * s = (k - m) * s
BY SMT

LEMMA RepeatedSame ==
  ASSUME NEW c \in Client, Repeated(c), cur' = cur, stream' = stream,
         taken'[c] = taken[c], acted'[c] = acted[c]
  PROVE  Repeated(c)'
<1>1. ASSUME NEW i, NEW j PROVE Spans(c, i, j)' = Spans(c, i, j)
  BY EndSame DEF Spans
<1>2. ASSUME NEW i, NEW j, NEW s PROVE OfSize(c, i, j, s)' = OfSize(c, i, j, s)
  BY DEF OfSize, Size, HeaderSize
<1>3. ASSUME NEW i, NEW j, NEW s, NEW m PROVE Remain(c, i, j, s, m)' = Remain(c, i, j, s, m)
  BY DEF Remain
<1> QED BY <1>1, <1>2, <1>3 DEF Repeated

LEMMA RepeatsQuiet ==
  ASSUME Laid, Repeats, Quiet
  PROVE  Repeats'
<1>0. PICK c : c = cur.conn
  OBVIOUS
<1>1. SUFFICES ASSUME cur'.off > 0 \/ pc' = "packets", conn'[cur'.conn] = "open"
               PROVE  Repeated(cur.conn)' /\ cur' = cur
  BY DEF Repeats
<1>2. cur' = cur /\ (cur.off > 0 \/ pc = "packets")
  BY <1>1 DEF Quiet
<1>3. c \in Client /\ conn[c] \in {"open", "closed"}
  BY <1>0, <1>2 DEF Laid, AtWork
<1>4. conn[c] = "open" /\ stream' = stream /\ taken' = taken /\ acted' = acted
  BY <1>0, <1>1, <1>2, <1>3 DEF Quiet
<1>5. Repeated(c)
  BY <1>0, <1>2, <1>4 DEF Repeats
<1>6. Repeated(c)'
  BY <1>2, <1>3, <1>4, <1>5, RepeatedSame
<1> QED BY <1>0, <1>2, <1>6

LEMMA RepeatsRead ==
  ASSUME Laid, NEW c \in Client, Read(c)
  PROVE  Repeats'
<1>1. PICK k \in 1..Buff :
        /\ stream' = stream
        /\ taken' = [taken EXCEPT ![c] = taken[c] + k]
        /\ cur' = [conn |-> c, base |-> taken[c], off |-> 0, left |-> k]
  BY ReadIs
<1>2. stream[c] \in Seq(Packets) /\ taken[c] \in Nat /\ taken'[c] = taken[c] + k
  BY <1>1 DEF Laid, Typed
<1>3. cur'.conn = c /\ cur'.base = taken[c] /\ cur'.off = 0 /\ cur'.left = k
  BY <1>1
<1>4. ASSUME NEW i \in 0..Len(stream[c]), NEW j \in 0..Len(stream[c]), NEW s \in Nat,
             Spans(c, i, j)', OfSize(c, i, j, s)'
      PROVE  j - i \in 0..(j - i) /\ Remain(c, i, j, s, j - i)'
  <2>1. OfSize(c, i, j, s)
    BY <1>1, <1>4 DEF OfSize, Size, HeaderSize
  <2>2. taken[c] = End(c, i) /\ taken'[c] = End(c, j)
    BY <1>1, <1>3, <1>4, EndSame DEF Spans
  <2>3. i < j
    BY <1>2, <2>2, EndsDiffer
  <2>4. End(c, j) = End(c, i) + (j - i) * s
    BY <1>2, <2>1, <2>3, EqualSizes
  <2>5. (j - i) * s \in Nat
    BY <2>3, Multiples
  <2>6. k = (j - i) * s
    BY <1>2, <2>2, <2>4, <2>5
  <2> QED BY <1>3, <2>3, <2>6 DEF Remain
<1>5. Repeated(c)'
  BY <1>1, <1>4 DEF Repeated
<1> QED BY <1>3, <1>5 DEF Repeats

LEMMA RepeatsTurn ==
  ASSUME Short, Laid, Repeats, NEW c \in Client, HandlePacket(c)
  PROVE  Repeats'
<1> DEFINE L == Len(stream[c])
           Entries == [n : Nat, whole : BOOLEAN]
<1>1. Typed /\ stream[c] \in Seq(Packets) /\ taken[c] \in Nat
      /\ cur.base \in Nat /\ cur.off \in Nat /\ cur.left \in Int
      /\ Buff \in Nat /\ L \in Nat /\ DOMAIN stream[c] = 1..L
      /\ acted \in [Client -> Seq(Entries)]
  BY LoopAssumption DEF Laid, Typed
<1>2. /\ InRead(c) /\ stream' = stream /\ taken' = taken
      /\ Dies(c) \/ Closes(c) \/ Blunders(c) \/ Acts(c)
  BY <1>1, PacketStep
<1>3. CASE Dies(c)
  <2>1. UNCHANGED <<conn, acted, pc, cur>>
    BY <1>3 DEF Dies, Die
  <2>2. cur.conn = c /\ conn[c] = "open"
    BY <1>2 DEF InRead, Laid, AtWork
  <2>3. Repeated(c)
    BY <1>2, <2>2 DEF Repeats, InRead
  <2>4. Repeated(c)'
    BY <1>2, <2>1, <2>3, RepeatedSame
  <2> QED BY <2>1, <2>2, <2>4 DEF Repeats
<1>4. CASE Closes(c)
  <2>1. conn'[c] = "closed" /\ cur'.conn = c
    BY <1>1, <1>2, <1>4 DEF Closes, CloseConn, InRead, Typed
  <2> QED BY <2>1 DEF Repeats
<1>5. CASE Blunders(c) \/ Acts(c)
  <2>1. /\ cur.conn = c /\ conn[c] = "open" /\ cur.left # 0 /\ cur.base < taken[c]
        /\ taken[c] <= cur.base + Buff
    BY <1>2 DEF InRead, Laid, AtWork
  <2>2. cur'.conn = c /\ cur'.base = cur.base
    <3>1. \E len \in Nat : GoOn(c, PacketLen(len))
      <4>1. ASSUME NEW n \in DOMAIN stream[c] PROVE stream[c][n].len \in Nat
        <5>1. stream[c][n] \in Packets
          BY <1>1
        <5> QED BY <5>1 DEF Packets
      <4> QED BY <1>5, <4>1 DEF Blunders, Acts
    <3> QED BY <1>1, <2>1, <3>1, GoOnIs
  <2>3. ASSUME NEW i \in 0..L, NEW j \in 0..L, NEW s \in Nat,
               Spans(c, i, j), OfSize(c, i, j, s)
        PROVE  \E q \in 0..(j - i) : Remain(c, i, j, s, q)'
    <3> USE <2>3 DEF Spans
    <3>1. PICK m \in 0..(j - i) : /\ cur.left = m * s
                                  /\ cur.off = IF m = j - i THEN 0 ELSE s
      <4>1. Repeated(c)
        BY <1>2, <2>1 DEF Repeats, InRead
      <4>2. \E q \in 0..(j - i) : Remain(c, i, j, s, q)
        BY <2>3, <4>1 DEF Repeated
      <4> QED BY <4>2 DEF Remain
    <3>2. i < j /\ j - i \in Nat /\ m \in Nat /\ m <= j - i
      BY <1>1, <2>1, <2>3, EndsDiffer
    <3>3. m >= 1 /\ s >= 1 /\ s <= m * s /\ m * s \in Nat /\ m * s - s = (m - 1) * s
      BY <2>1, <3>1, <3>2, Multiples
    <3> DEFINE n == IF m = j - i THEN i + 1 ELSE i + 2
    <3>4. n \in Nat /\ n \in (i + 1)..j /\ n \in 1..L /\ n - 1 \in 0..L
      <4>1. i \in Nat /\ j \in Nat /\ j <= L /\ i + 1 <= j
        BY <1>1, <3>2
      <4>2. m # j - i => i + 2 <= j
        BY <3>2, <3>3
      <4> QED BY <1>1, <4>1, <4>2
    <3>5. End(c, n - 1) = Here
      <4>1. CASE m = j - i
        BY <1>1, <2>3, <3>1, <4>1 DEF Here
      <4>2. CASE m # j - i
        <5>1. i + 1 \in 1..L /\ i + 1 \in (i + 1)..j /\ (i + 1) - 1 = i
          BY <1>1, <3>2
        <5>2. End(c, i + 1) = End(c, i) + s
          BY <1>1, <2>3, <5>1, EndIs DEF OfSize
        <5> QED BY <1>1, <2>3, <3>1, <4>2, <5>2 DEF Here
      <4> QED BY <4>1, <4>2
    <3>6. Size(stream[c][n]) = s
      BY <2>3, <3>4 DEF OfSize
    <3> HIDE DEF n
    <3>7. n \in DOMAIN stream[c] /\ Whole(c, n)
      BY <1>1, <3>1, <3>3, <3>4, <3>5, <3>6 DEF Whole, Framed
    <3>8. cur.left <= Buff
      <4>1. End(c, j) = End(c, i) + (j - i) * s
        <5>1. stream[c] \in Seq(Packets) /\ i <= j
          BY <1>1, <3>2
        <5>2. OfSize(c, i, j, s)
          BY <2>3
        <5> QED BY <5>1, <5>2, EqualSizes
      <4>2. m * s <= (j - i) * s /\ (j - i) * s \in Nat
        BY <3>2, FewerMultiples, Multiples
      <4>3. (j - i) * s <= Buff
        <5>1. taken[c] = cur.base + (j - i) * s
          BY <2>3, <4>1
        <5> QED BY <1>1, <2>1, <4>2, <5>1
      <4>4. m * s <= Buff
        <5>1. m * s \in Nat /\ (j - i) * s \in Nat /\ Buff \in Nat
          BY <1>1, <3>3, <4>2
        <5> QED BY <4>2, <4>3, <5>1
      <4> QED BY <3>1, <4>4
    <3> DEFINE len == stream[c][n].len
    <3>9. len \in Nat /\ len + 2 = s
      <4>1. /\ len \in Nat /\ End(c, n) = Here + (len + 2)
        BY <1>1, <3>7, <3>8, WholeIsShort
      <4>2. End(c, n) = End(c, n - 1) + s
        BY <1>1, <3>4, <3>6, EndIs
      <4>3. Here \in Nat
        BY <1>1 DEF Here
      <4> HIDE DEF len
      <4> QED BY <3>5, <4>1, <4>2, <4>3
    <3>10. GoOn(c, PacketLen(len)) /\ Append1(c, [n |-> n, whole |-> TRUE])
      <4>1. PICK q \in DOMAIN stream[c] : /\ Whole(c, q) /\ GoOn(c, PacketLen(stream[c][q].len))
                                          /\ Append1(c, [n |-> q, whole |-> TRUE])
        BY <1>5, <3>7 DEF Blunders, Acts
      <4>2. End(c, q - 1) = End(c, n - 1) /\ q - 1 \in 0..L /\ q \in Nat
        BY <1>1, <3>5, <4>1 DEF Whole, Framed
      <4>3. q - 1 = n - 1
        BY <1>1, <3>4, <4>2, EndsDiffer
      <4>4. q = n
        BY <3>4, <4>2, <4>3
      <4> QED BY <4>1, <4>4
    <3>11. cur'.off = s /\ cur'.left = (m - 1) * s
      <4>1. cur'.off = len + 2 /\ cur'.left = cur.left - (len + 2)
        BY <1>1, <3>9, <3>10, GoOnIs
      <4> QED BY <3>1, <3>3, <3>9, <4>1
    <3>12. Last(acted'[c]) = [n |-> n, whole |-> TRUE]
      <4>1. [n |-> n, whole |-> TRUE] \in Entries /\ acted[c] \in Seq(Entries)
        BY <1>1, <3>4
      <4>2. acted'[c] = Append(acted[c], [n |-> n, whole |-> TRUE])
        BY <1>1, <3>10 DEF Append1
      <4> HIDE DEF Entries
      <4> QED BY <4>1, <4>2, AppendIs
    <3>13. m - 1 \in 0..(j - i) /\ m - 1 < j - i /\ (m - 1) + 1 = m
      BY <3>2, <3>3
    <3>14. n = IF (m - 1) + 1 = j - i THEN i + 1 ELSE i + 2
      BY <3>13 DEF n
    <3>15. Remain(c, i, j, s, m - 1)'
      BY <3>11, <3>12, <3>13, <3>14 DEF Remain
    <3> QED BY <3>13, <3>15
  <2>4. ASSUME NEW i \in 0..L, NEW j \in 0..L, NEW s \in Nat,
               Spans(c, i, j)', OfSize(c, i, j, s)'
        PROVE  \E q \in 0..(j - i) : Remain(c, i, j, s, q)'
    <3>1. OfSize(c, i, j, s)
      BY <1>2, <2>4 DEF OfSize, Size, HeaderSize
    <3>2. Spans(c, i, j)
      BY <1>2, <2>2, <2>4, EndSame DEF Spans
    <3> QED BY <2>3, <3>1, <3>2
  <2>5. Repeated(c)'
    BY <1>2, <2>4 DEF Repeated
  <2> QED BY <2>2, <2>5 DEF Repeats
<1> QED BY <1>2, <1>3, <1>4, <1>5

LEMMA RepeatsNext ==
  ASSUME Short, Laid, Repeats, [Next]_vars
  PROVE  Repeats'
<1>1. CASE UNCHANGED vars
  BY <1>1, RepeatsQuiet DEF vars, peers, Quiet
<1> QED BY <1>1, StepIs, RepeatsQuiet, RepeatsRead, RepeatsTurn

(* Whatever else goes on: of a read of whole packets of one size the first *)
(* two are acted on, and from then on the second again and again           *)
(* (service_socket.c 119).                                                 *)
THEOREM SecondForTheRest ==
  ASSUME Short
  PROVE  Spec => []SecondAgain
<1>1. Laid /\ Repeats => SecondAgain
  <2> SUFFICES ASSUME Laid, Repeats PROVE SecondAgain
    OBVIOUS
  <2> DEFINE c == cur.conn
             begun == Begun(c, cur.base, taken[c])
             first == Min(begun)
             size == Size(stream[c][first])
             done == (taken[c] - cur.base - cur.left) \div size
  <2>1. SUFFICES ASSUME conn[c] = "open", cur.off > 0, Boundary(c, cur.base), Boundary(c, taken[c]),
                        \A n \in begun : Size(stream[c][n]) = size
                 PROVE  Last(acted[c]) = [n |-> first + Min({done, 2}) - 1, whole |-> TRUE]
    BY DEF SecondAgain
  <2>2. /\ c \in Client /\ stream[c] \in Seq(Packets) /\ taken[c] \in Nat /\ cur.base \in Nat
        /\ cur.base < taken[c]
    BY <2>1 DEF Laid, Typed, AtWork
  <2>3. PICK i \in 0..Len(stream[c]), j \in 0..Len(stream[c]) :
          cur.base = End(c, i) /\ taken[c] = End(c, j)
    BY <2>1 DEF Boundary
  <2>4. i < j /\ j - i \in Nat
    BY <2>2, <2>3, EndsDiffer
  <2>5. begun = (i + 1)..j
    BY <2>2, <2>3, BegunIs
  <2>6. first = i + 1
    <3>1. i + 1 \in (i + 1)..j /\ \A n \in (i + 1)..j : i + 1 <= n
      BY <2>4
    <3>2. \A x \in (i + 1)..j : (\A n \in (i + 1)..j : x <= n) => x = i + 1
      BY <3>1
    <3>3. Min((i + 1)..j) = i + 1
      BY <3>1, <3>2 DEF Min
    <3> QED BY <2>5, <3>3
  <2>7. size \in Nat \ {0}
    <3>1. i + 1 \in DOMAIN stream[c]
      BY <2>2, <2>4
    <3>2. stream[c][i + 1] \in Packets
      BY <2>2, <3>1
    <3> QED BY <2>6, <3>2, PacketSize
  <2> HIDE DEF size
  <2>13. Spans(c, i, j) /\ OfSize(c, i, j, size)
    BY <2>1, <2>3, <2>5 DEF Spans, OfSize
  <2>8. PICK m \in 0..(j - i) : Remain(c, i, j, size, m)
    <3>1. Repeated(c)
      BY <2>1 DEF Repeats
    <3> QED BY <2>7, <2>13, <3>1 DEF Repeated
  <2>9. m < j - i
    BY <2>1, <2>4, <2>8 DEF Remain
  <2>10. done = (j - i) - m
    <3>1. End(c, j) = End(c, i) + (j - i) * size
      BY <2>2, <2>4, <2>7, <2>13, EqualSizes
    <3>2. (j - i) * size - m * size = ((j - i) - m) * size /\ (j - i) * size \in Nat
          /\ m * size \in Nat
      BY <2>4, <2>7, <2>9, FewerMultiples, Multiples
    <3>3. taken[c] - cur.base - cur.left = ((j - i) - m) * size
      <4>1. cur.left = m * size
        BY <2>8 DEF Remain
      <4> QED BY <2>2, <2>3, <3>1, <3>2, <4>1
    <3>4. (j - i) - m \in Nat
      BY <2>4, <2>9
    <3>5. (((j - i) - m) * size) \div size = (j - i) - m
      BY <2>7, <3>4, Quotient
    <3> QED BY <3>3, <3>5
  <2>11. Min({done, 2}) = IF done <= 2 THEN done ELSE 2
    <3>1. done \in Int
      BY <2>4, <2>10
    <3> HIDE DEF done
    <3> QED BY <3>1, LeastOfTwo
  <2>12. first + Min({done, 2}) - 1 = IF m + 1 = j - i THEN i + 1 ELSE i + 2
    <3> HIDE DEF done, first
    <3> QED BY <2>4, <2>6, <2>9, <2>10, <2>11
  <2> HIDE DEF done, first
  <2> QED BY <2>8, <2>9, <2>12 DEF Remain
<1>2. Init => Repeats
  BY DEF Init, Repeats, NoRead
<1>3. Laid /\ Repeats /\ [Next]_vars => (Laid /\ Repeats)'
  BY LaidNext, RepeatsNext
<1> QED BY <1>1, <1>2, <1>3, LaidInit, PTL DEF Spec
=============================================================================

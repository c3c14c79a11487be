--------------------------- MODULE Subscriptions ---------------------------
(***************************************************************************)
(* What the subscription store promises the rest of the broker, with no    *)
(* trie in sight: a grant per client and filter, and answers to "who is    *)
(* to get a message on this topic, and at which QoS?".                     *)
(*                                                                         *)
(* Four liberties are the store's own.  Whether "a/#" covers the topic "a" *)
(* is left open (filtering.c answers it by an accident of allocation); a   *)
(* level of a topic, the first excepted, may be read as a longer one; a    *)
(* grant may outlive its being given up where another client has the same  *)
(* filter; and the store may go down, but only on the two occasions        *)
(* Publish and Unsubscribe name.                                           *)
(***************************************************************************)
EXTENDS Integers, FiniteSets, SequencesExt

CONSTANTS Client,   \* client identifiers
          Filter,   \* topic filters, as sequences of levels
          Topic,    \* topic names, as sequences of levels
          QoS,      \* the QoS values clients ask for
          Misread,  \* pairs <<level, longer>>: what levels may be read as
          DollarLevels   \* first levels that start with '$'

VARIABLES up,       \* FALSE once the broker process has died
          granted,  \* [Client \X Filter -> QoS or NotHeld]
          found     \* the last answer: max_qos by client, for some clients

vars == <<up, granted, found>>

NotHeld == -1
Nobody  == <<>>

TypeOK ==
  /\ up \in BOOLEAN
  /\ granted \in [Client \X Filter -> QoS \cup {NotHeld}]
  /\ DOMAIN found \subseteq Client
  /\ \A c \in DOMAIN found : found[c] \in QoS

----------------------------------------------------------------------------
(* Filters against topics, level by level. *)

WithoutPound(f) == IF Last(f) = "#" THEN Front(f) ELSE f

SameLevels(f, t, n) == \A i \in 1..n : f[i] \in {t[i], "+"}

(* The topics a topic may be taken for. *)
ReadAs(level) == {level} \cup {m[2] : m \in {n \in Misread : n[1] = level}}

Heard(t) ==
  {h \in [DOMAIN t -> UNION {ReadAs(t[i]) : i \in DOMAIN t}] :
     h[1] = t[1] /\ \A i \in DOMAIN t : h[i] \in ReadAs(t[i])}

(* "a/#" and the topic "a": the filter ends one level below the topic. *)
IsParent(f, t) == Last(f) = "#" /\ Len(f) > 1 /\ Len(t) = Len(f) - 1

(* A leading "+" covers '$' topics here, a "#" alone does not.             *)
Covers(f, t) ==
  LET n == Len(WithoutPound(f))
  IN  /\ IF Last(f) = "#" THEN Len(t) >= n ELSE Len(t) = n
      /\ SameLevels(f, t, n)
      /\ f = <<"#">> => t[1] \notin DollarLevels

Held(c) == {f \in Filter : granted[<<c, f>>] # NotHeld}

Possible(c, t) == {f \in Held(c) : Covers(f, t)}
Certain(c, t)  == {f \in Possible(c, t) : ~IsParent(f, t)}

(* Overlapping filters of the same client, beyond the first of each. *)
Excess(t) ==
  LET hits == {h \in Client \X Filter : h[2] \in Possible(h[1], t)}
  IN  Cardinality(hits) - Cardinality({h[1] : h \in hits})

----------------------------------------------------------------------------
Init ==
  /\ up = TRUE
  /\ granted = [h \in Client \X Filter |-> NotHeld]
  /\ found = Nobody

(* The first grant stands until the filter is given up. *)
Subscribe(c, f, q) ==
  /\ up
  /\ found' = Nobody
  /\ UNCHANGED up
  /\ granted' = IF f \in Held(c) THEN granted
                ELSE [granted EXCEPT ![<<c, f>>] = q]

(* Giving up a filter that is held is always safe, and it is given up      *)
(* unless somebody else holds it too.                                      *)
Shared(c, f) == \E d \in Client \ {c} : f \in Held(d)

Unsubscribe(c, f) ==
  /\ up
  /\ found' = Nobody
  /\ \/ /\ granted' = [granted EXCEPT ![<<c, f>>] = NotHeld]
        /\ UNCHANGED up
     \/ Shared(c, f) /\ UNCHANGED <<up, granted>>
     \/ /\ f \notin Held(c)
        /\ up' = FALSE
        /\ UNCHANGED granted

(* Everyone certain is found, nobody impossible is, each at the QoS of one *)
(* of its own filters that covers the topic heard.                         *)
Search(t) ==
  /\ up
  /\ UNCHANGED granted
  /\ \/ /\ UNCHANGED up
        /\ \E who \in SUBSET {c \in Client : Possible(c, t) # {}} :
             /\ found' \in [who -> QoS]
             /\ {c \in Client : Certain(c, t) # {}} \subseteq who
             /\ \A c \in who : \E f \in Possible(c, t) : found'[c] = granted[<<c, f>>]
     \/ /\ Excess(t) >= 2
        /\ up' = FALSE
        /\ found' = Nobody

Publish(t) == \E h \in Heard(t) : Search(h)

Next ==
  \/ \E t \in Topic : Publish(t)
  \/ \E c \in Client, f \in Filter, q \in QoS : Subscribe(c, f, q)
  \/ \E c \in Client, f \in Filter : Unsubscribe(c, f)

Spec == Init /\ [][Next]_vars
=============================================================================

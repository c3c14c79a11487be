------------------------------ MODULE Delivery ------------------------------
(***************************************************************************)
(* What acknowledged delivery promises: a message the broker undertook to  *)
(* deliver to a client stays owed until that client, having it in hand,    *)
(* acknowledges it.  Nobody else's acknowledgement settles the debt, and   *)
(* losing a connection only takes copies out of hand.                      *)
(***************************************************************************)
EXTENDS Integers, FiniteSets

CONSTANTS Client,   \* subscribers
          Msg       \* messages

VARIABLES up,       \* FALSE once the broker process has died
          owed,     \* the debts: [client, msg]
          inHand    \* debts of which a copy is on its way to, or with, the client

vars == <<up, owed, inHand>>

Debt == [client : Client, msg : Msg]

TypeOK == up \in BOOLEAN /\ owed \subseteq Debt /\ inHand \subseteq Debt

Init == up = TRUE /\ owed = {} /\ inHand = {}

(* A message nobody was owed before is owed to some clients, and a copy    *)
(* sent to those of them that are there.  Closing a connection may do this *)
(* too (the will), and loses the copies on that connection.                *)
Post ==
  /\ \E m \in Msg, to \in SUBSET Client :
       /\ \A d \in owed \cup inHand : d.msg # m
       /\ owed' = owed \cup {[client |-> c, msg |-> m] : c \in to}
  /\ inHand' \subseteq inHand \cup (owed' \ owed)

(* Everything owed to a client is sent again when it comes back. *)
Resend(c) ==
  /\ inHand' = inHand \cup {d \in owed : d.client = c}
  /\ UNCHANGED owed

(* A client settles one debt, which it has in hand. *)
Settle(d) ==
  /\ d \in owed \cap inHand
  /\ owed' = owed \ {d}
  /\ inHand' = inHand \ {d}

Lose ==
  /\ inHand' \subseteq inHand
  /\ UNCHANGED owed

Die == up' = FALSE /\ UNCHANGED <<owed, inHand>>

Next ==
  /\ up
  /\ \/ /\ UNCHANGED up
        /\ \/ Post
           \/ \E c \in Client : Resend(c)
           \/ \E d \in owed : Settle(d)
           \/ Lose
     \/ Die

Spec == Init /\ [][Next]_vars
=============================================================================

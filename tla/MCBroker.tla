------------------------------ MODULE MCBroker ------------------------------
(* Instances of Broker for TLC. *)
EXTENDS Broker

(* One filter and one topic, where the trie does not matter.              *)
OneFilter == <<<<"a">>>>
TopicA    == {<<"a">>}
TheTopicA == <<"a">>

(* Two filters on one branch, of which one keeps the other's node, and a   *)
(* topic whose last level may be read on into what is behind it.           *)
Nested    == <<<<"a">>, <<"a", "b">>>>
TopicAB   == {<<"a", "b">>}
Overreads == {<<"b", "bcd">>}
=============================================================================

---------------------------- MODULE MCTopicTrie ----------------------------
(* Instances of TopicTrie for TLC. *)
EXTENDS TopicTrie

(* A filter, its "#", a "+" beside a child, and a level below: every pair  *)
(* of arrays on one node, and prefixes that others' nodes hang from.       *)
SharedFilters == {<<"a">>, <<"a", "#">>, <<"a", "bc">>, <<"a", "+">>}
SharedTopics  == {<<"a">>, <<"a", "b">>, <<"a", "bc">>}

(* A level heard as another filter's, and one heard as nobody's.           *)
Overreads == {<<"b", "bc">>, <<"bc", "bcd">>}

(* Filters that meet only in the first level, "#", "+" and '$', two of     *)
(* them with an empty level ("+/"), which is the node "/".                 *)
FirstLevelFilters == {<<"#">>, <<"+", "">>, <<"$SYS", "">>}
FirstLevelTopics  == {<<"a", "">>, <<"$SYS", "">>}

(* A filter and one on the way to it, for more clients to share.           *)
NestedFilters == {<<"a">>, <<"a", "bc">>}

AllFilters == SharedFilters \cup FirstLevelFilters
AllTopics  == SharedTopics \cup FirstLevelTopics

(* Two grants to choose from where there are fewer filters.                *)
AllUsages ==
  {[clients |-> {1, 2}, filters |-> SharedFilters, topics |-> SharedTopics,
    qos |-> {1}],
   [clients |-> {1, 2}, filters |-> FirstLevelFilters, topics |-> FirstLevelTopics,
    qos |-> {0, 1}],
   [clients |-> Client, filters |-> NestedFilters, topics |-> SharedTopics,
    qos |-> {1}]}
=============================================================================

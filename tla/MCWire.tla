------------------------------- MODULE MCWire -------------------------------
(* Packets at the boundaries of both lengths: 8 is the first length with a *)
(* high bit, 16 the first that needs the other byte.                       *)
EXTENDS Wire

LOCAL StringLens == {0, 1, 7, 8, 16}
FieldsUsed ==
  {<<c>> : c \in {0, 1, 3, 4, 8, 16}}
  \cup {<<c, w, x>> : c \in {0, 1, 3}, w \in {1, 8, 16}, x \in StringLens}
  \cup {<<c, u, x>> : c \in {1, 16}, u \in StringLens, x \in StringLens}
  \cup {<<1, w, x, u, y>> : w \in {1, 7}, x \in {0, 1}, u \in {1, 8}, y \in {0, 7, 17}}
TopicsUsed == {1, 2, 7, 8, 9, 16, 17, 24}
PayloadsUsed == {Fill(n) : n \in 0..4 \cup {12}} \cup {<<1, 0, 1>>, <<0>>}
=============================================================================

------------------------------ MODULE IdsInUse ------------------------------
(***************************************************************************)
(* The identifiers session_publish_add hands out as the rows fill up while *)
(* nobody acknowledges, and what becomes of them on the way to the         *)
(* subscriber and back.                                                    *)
(***************************************************************************)
EXTENDS PacketId

CONSTANT MaxId   \* 65535 in the code: the last row of session_packet_identifier

ASSUME MaxIdAssumption == MaxId \in Nat \ {0} /\ MaxId < Base * Base * Base

VARIABLE id   \* the last row taken: rows 1..id are in use

Init == id = 1

(* The lowest free row is the one after it. *)
SessionPublishAdd ==
  /\ id < MaxId
  /\ id' = id + 1

Spec == Init /\ [][SessionPublishAdd]_id

(* Which acknowledgements free the row they are about: those of the rows   *)
(* below Base, and no others (ML_encode and string_len against one         *)
(* another; event.c:166 and 209).                                          *)
OwnRowBelowBase == AckedId(id) = id <=> id < Base

(* What a subscriber has in hand it can tell apart, as long as fewer than  *)
(* Base * Base rows are in use: no two identifiers look the same on the    *)
(* wire.                                                                   *)
DistinctOnWire ==
  id < Base * Base => \A x \in 1..(id - 1) : MLEncode(x) # MLEncode(id)
=============================================================================

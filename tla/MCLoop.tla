------------------------------- MODULE MCLoop -------------------------------
(* Instances of Loop for TLC. *)
EXTENDS Loop, TLC

CONSTANTS c1, c2

Packet(kind, len) == [kind |-> kind, len |-> len, will |-> FALSE, deadly |-> FALSE]
Deadly(p) == [p EXCEPT !.deadly = TRUE]
Will(p) == [p EXCEPT !.will = TRUE]

(* Three packets of one length behind the CONNECT; a PUBLISH, which may    *)
(* kill, and the end; a packet longer than the buffer, whose length takes  *)
(* two bytes; wills; no CONNECT at all.  The other client connects and     *)
(* waits for messages.                                                     *)
Sessions ==
  (c1 :> {<<Packet("connect", 1), Packet("ping", 0), Packet("ping", 0), Packet("ping", 0)>>,
          <<Packet("connect", 1), Deadly(Packet("publish", 1)), Packet("disconnect", 0)>>,
          <<Packet("connect", 1), Packet("publish", 6)>>,
          <<Will(Packet("connect", 1)), Packet("disconnect", 0)>>,
          <<Deadly(Will(Packet("connect", 1))), Packet("ping", 0)>>,
          <<Packet("ping", 0)>>}) @@
  (c2 :> {<<Packet("connect", 1)>>})

Pauses == (c1 :> {2, 3, 5, 6}) @@ (c2 :> {})
=============================================================================

--------------------------- MODULE MCRequestQueue ---------------------------
(* Four packets to two destinations, a queue of at most three, and one uid *)
(* that is used with both destinations; the timeout changes.              *)
EXTENDS RequestQueueSpec

MCPacket == { [uid |-> 1, dst |-> "A"], [uid |-> 2, dst |-> "A"],
              [uid |-> 1, dst |-> "B"], [uid |-> 3, dst |-> "B"] }
FixedLen == {3}
TunedTimeouts == {1, 2}
=============================================================================

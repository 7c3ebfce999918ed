----------------------------- MODULE MCWorkers -----------------------------
(* Two workers: the second is posted to, the first sends more than one      *)
(* message.                                                                 *)
EXTENDS WorkersProps

Posts == [w \in Workers |-> w - 1]
Sends == [w \in Workers |-> 4 - 2 * w]
=============================================================================

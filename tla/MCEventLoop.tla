---------------------------- MODULE MCEventLoop ----------------------------
(* EventLoop for TLC: operations are interchangeable in the runs without liveness. *)
EXTENDS EventLoopProps, TLC

Symmetry == Permutations(Ops)

(* Bounds the mixtures of kinds: either managers that keep an operation until *)
(* it is delivered, with a Close and every mode, or operations that hand      *)
(* their result over in several steps, with timers and RunEventLoop.          *)
OneFamily ==
    \/ \A o \in started : kind[o] \in Keepers
    \/ /\ \A o \in started : kind[o] \in {"timer", "fs", "fetch"}
       /\ ~closed /\ \A d \in Drivers : mode[d] \in {"run", None}
=============================================================================

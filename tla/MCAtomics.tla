----------------------------- MODULE MCAtomics -----------------------------
(* Atomics for TLC: two waits with an agent that stores and notifies, two    *)
(* agents that update, and all of these with one wait.                       *)
EXTENDS AtomicsProps

CONSTANTS w1, w2, a1, a2

MCWaits  == {w1, w2}
MCAgents == {a1, a2}
MCCasts ==
    { [waits |-> {w1, w2}, agents |-> {a1}, kinds |-> {"store", "notify"}],
      [waits |-> {}, agents |-> {a1, a2}, kinds |-> Kinds \ {"notify"}],
      [waits |-> {w1}, agents |-> {a1, a2}, kinds |-> {"notify", "xor", "add"}] }
=============================================================================

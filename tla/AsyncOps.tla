------------------------------ MODULE AsyncOps ------------------------------
(***************************************************************************)
(* What an event loop promises, whatever its managers do: JavaScript       *)
(* starts operations and is told how they ended, and nobody who drives the *)
(* loop finds it idle while the outcome of an operation is still owed.  Of *)
(* a runtime that has been closed nothing more is promised.                *)
(***************************************************************************)
CONSTANTS Ops, Drivers

VARIABLES
    open,       \* the runtime has not been closed
    started,    \* operations JavaScript has started
    told,       \* operations whose outcome it has been told
    idle        \* drivers that have found nothing pending

vars == <<open, started, told, idle>>

Init == open = TRUE /\ started = {} /\ told = {} /\ idle = {}

(* A piece of JavaScript runs: it is told of some outcomes, and starts some   *)
(* operations.                                                                *)
RunJavaScript ==
    /\ \E D \in SUBSET (started \ told) : told' = told \cup D
    /\ \E O \in SUBSET Ops : started' = started \cup O
    /\ UNCHANGED <<open, idle>>

FindIdle(d) ==
    /\ open => told = started
    /\ idle' = idle \cup {d}
    /\ UNCHANGED <<open, started, told>>

Close ==
    /\ open /\ open' = FALSE
    /\ UNCHANGED <<started, told, idle>>

Next == RunJavaScript \/ Close \/ \E d \in Drivers : FindIdle(d)

Spec == Init /\ [][Next]_vars
=============================================================================

----------------------------- MODULE HttpServer -----------------------------
(***************************************************************************)
(* What an HTTP server that is started and stopped promises to those who   *)
(* send it requests.  Each request is worked on at most once, and answered *)
(* at most once, with its own response.  Stopping the server cuts the      *)
(* connections of the requests in flight: only such a request may go       *)
(* unanswered, and it does, also if the work on it is done.  When starting *)
(* and stopping are through, no request is being worked on, every request  *)
(* that is not through has been cut, and no answer comes any more until    *)
(* the server is started again.                                            *)
(* Of a server whose methods were called while one of them was at work it  *)
(* is only promised that no request is answered twice, or after it was     *)
(* cut, and that none is dropped before somebody began to stop it.         *)
(***************************************************************************)
CONSTANT Requests

VARIABLES
    calm,       \* no method was called while another one was at work
    resting,    \* nobody is at work with the server, and it does not serve
    stopBegun,  \* somebody has begun to stop it
    cut,        \* requests whose connection a stop has closed
    fate        \* what has become of each request

vars == <<calm, resting, stopBegun, cut, fate>>

AtRest   == calm /\ resting
Accepted == {r \in Requests : fate[r] = "accepted"}
InFlight == {r \in Requests : fate[r] \in {"arrived", "accepted", "ready", "spoiled"}}

Init ==
    /\ calm = TRUE /\ resting = TRUE /\ stopBegun = FALSE
    /\ cut = {} /\ fate = [r \in Requests |-> "none"]

Becomes(r, from, to) ==
    /\ fate[r] = from /\ fate' = [fate EXCEPT ![r] = to]
    /\ UNCHANGED <<calm, resting, stopBegun, cut>>

Accept(r) == ~AtRest /\ Becomes(r, "arrived", "accepted")

Arrive(r) == ~AtRest /\ r \notin cut /\ Becomes(r, "none", "arrived")

(* The work on the requests in R is done; those in W have the response of    *)
(* another one.                                                              *)
Compute(R, W) ==
    /\ ~AtRest /\ R \subseteq Accepted /\ W \subseteq R
    /\ calm => W = {}
    /\ fate' = [r \in Requests |-> IF r \in W THEN "spoiled" ELSE IF r \in R THEN "ready" ELSE fate[r]]
    /\ UNCHANGED <<calm, resting, stopBegun, cut>>

Respond(r) ==
    /\ r \notin cut
    /\ Becomes(r, "ready", "answered") \/ Becomes(r, "spoiled", "wrong")

Drop(r) ==
    /\ r \in cut \/ (~calm /\ stopBegun)
    /\ \E from \in {"arrived", "ready", "spoiled"} : Becomes(r, from, "dropped")

(* The server is started or stopped, or one of these comes to its end.       *)
Manage ==
    /\ calm' \in {calm, FALSE} /\ resting' \in BOOLEAN /\ stopBegun' \in {stopBegun, TRUE}
    /\ cut \subseteq cut'
    /\ cut' # cut => stopBegun'
    /\ \A r \in cut' \ cut : fate[r] # "none"
    /\ (calm' /\ resting') => Accepted = {} /\ InFlight \subseteq cut'
    /\ UNCHANGED fate

Next ==
    \/ \E r \in Requests : Arrive(r) \/ Accept(r) \/ Respond(r) \/ Drop(r)
    \/ \E R, W \in SUBSET Requests : Compute(R, W)
    \/ Manage

Spec == Init /\ [][Next]_vars
=============================================================================

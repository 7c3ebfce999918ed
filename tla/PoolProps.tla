----------------------------- MODULE PoolProps -----------------------------
(* What the users of a RuntimePool rely on: properties of Pool. *)
EXTENDS Pool

(***************************************************************************)
(* As long as ListenAndServe, StopHTTP and Close are not called while one  *)
(* of them is at work, each request gets its own response: no batch is     *)
(* answered with what an earlier one left in resps (workerLoop), because   *)
(* StopHTTP has ended the loops before Close closes their Runtimes.        *)
(***************************************************************************)
OwnAnswer == ~raced => \A r \in Requests : at[r] \in {"ready", "answered"} => answer[r] = r

(***************************************************************************)
(* Under the same condition, when StopHTTP or Close has returned and       *)
(* ListenAndServe too, no server takes requests, and no worker loop is     *)
(* left that could use a Runtime (the wait for workerDone in StopHTTP).    *)
(***************************************************************************)
StopIsComplete ==
    (~raced /\ listen = "idle" /\ UnderWay = {}) =>
        open = {} /\ \A c \in Chans : loop[c] \in {"none", "ended"}

(***************************************************************************)
(* ListenAndServe panics only if a call raced with it (the fields it reads *)
(* twice).  A handler panics (workerChs[idx%size], the send to a closed    *)
(* channel) only once the very server its request came in through has been *)
(* stopped, unless calls raced: a stop of an earlier server does no harm.  *)
(***************************************************************************)
OnlyStopPanics ==
    /\ crashed => raced
    /\ \A r \in Requests : at[r] = "panicked" => raced \/ via[r] \in stopped

(***************************************************************************)
(* A request whose handler waits for its response is in a channel or in a  *)
(* batch, in one place only, and the loop that will answer it has not      *)
(* ended, whatever StopHTTP does meanwhile.  So far, and for the requests  *)
(* whose handler got as far as the send, "StopHTTP [...] drains in-flight  *)
(* requests" (pool.go:208) is true of their work; what becomes of their    *)
(* responses ImplementsHttpServer says.                                    *)
(***************************************************************************)
Places(c, r) ==
    {<<"queue", i>> : i \in {j \in DOMAIN queue[c] : queue[c][j] = r}}
        \cup {<<"batch", i>> : i \in {j \in DOMAIN batch[c] : batch[c][j] = r}}
AcceptedInHand ==
    \A r \in Requests, c \in Chans :
        IF at[r] = "waiting" /\ c = chan[r]
          THEN loop[c] # "ended" /\ \E p \in Places(c, r) : Places(c, r) = {p}
          ELSE Places(c, r) = {}

(***************************************************************************)
(* Pool implements HttpServer, whose clients see a stop as the end of their*)
(* connections: StopHTTP calls srv.Close before it lets the loops finish,  *)
(* so a request in flight is worked on to the end, if it was in a channel, *)
(* and still goes unanswered.  This is what is left of "drains in-flight   *)
(* requests" (pool.go:208).  A request whose server nobody stops is        *)
(* answered with its own response or still in flight.                      *)
(***************************************************************************)
Fate(r, place, response) ==
    CASE place \in {"in", "picked", "stuck"} -> "arrived"
      [] place = "waiting"  -> "accepted"
      [] place = "ready"    -> IF response = r THEN "ready" ELSE "spoiled"
      [] place = "answered" -> IF response = r THEN "answered" ELSE "wrong"
      [] place \in {"panicked", "lost"} -> "dropped"
      [] OTHER -> "none"

S == INSTANCE HttpServer WITH
        calm      <- ~raced,
        resting   <- listen = "idle" /\ UnderWay = {},
        stopBegun <- \E k \in Stoppers : stop[k] # "idle",
        cut       <- {r \in Requests : via[r] \in stopped},
        fate      <- [r \in Requests |-> Fate(r, at[r], answer[r])]

ImplementsHttpServer == S!Spec
=============================================================================

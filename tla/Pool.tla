-------------------------------- MODULE Pool --------------------------------
(***************************************************************************)
(* The HTTP server of a RuntimePool (pool.go, pool_jsc.go, pool_goja.go,   *)
(* pool_qjswasm.go).  ListenAndServe makes a channel and a workerLoop for  *)
(* every Runtime; the handler of a request puts it into one of them, round *)
(* robin, and waits for the response; a workerLoop takes requests in       *)
(* batches and dispatches each batch to its Runtime.  StopHTTP and Close   *)
(* run on other goroutines; they close the connections of the server they  *)
(* stop, those with a request in flight too, and do not wait for handlers. *)
(* The fields httpServer, workerChs and workerDone are written by          *)
(* ListenAndServe and read by the handlers without the mutex that StopHTTP *)
(* holds.                                                                  *)
(* A server, its channels and its loops are named by the number of the     *)
(* call of ListenAndServe that made them.                                  *)
(***************************************************************************)
EXTENDS Naturals, Sequences, FiniteSets

CONSTANTS
    Requests,
    Clients,    \* bound: requests in flight at once
    Size,       \* Runtimes in the pool, numbered from 0
    Capacity,   \* of a channel (256)
    BatchSize,  \* most requests in a batch (256)
    Listens,    \* bound: calls of ListenAndServe, one after the other
    Stoppers,   \* calls of StopHTTP and of Close
    None

ASSUME PoolAssumption ==
    /\ Size \in Nat \ {0} /\ Capacity \in Nat \ {0} /\ BatchSize \in Nat \ {0}
    /\ Listens \in Nat /\ None \notin Requests

Runtimes == 0..(Size - 1)
Servers  == 1..Listens
Chans    == Servers \X Runtimes

VARIABLES
    closed,     \* p.closed
    shut,       \* Runtimes that Close has closed
    crashed,    \* ListenAndServe has panicked
    \* ListenAndServe
    calls,      \* how many calls there have been; the last one is at ...
    listen,     \* ... "idle", "listening", "making", "made", "assigned", "serving"
    httpServer, \* the server the field holds, or 0
    workerChs,  \* whose channels the field holds, or 0
    open,       \* servers that take requests
    stopped,    \* servers that have been closed
    \* StopHTTP and Close
    stop,       \* where each call is
    isClose,    \* which of them are Close
    mine,       \* whose channels a call that waits has taken from the field, or 0
    raced,      \* history: a call was made while another one was under way
    \* requests
    via,        \* the server that a request has come in through, or 0
    at,         \* where the handler of a request is
    chan,       \* the channel it has read
    httpNext,   \* the round-robin counter
    answer,     \* the request whose response it was handed; None if it is empty
    \* worker loops
    queue, chClosed, loop, batch, resps

serveVars == <<calls, listen, httpServer, open, stopped>>
stopVars  == <<stop, isClose, mine, raced>>
reqVars   == <<via, at, chan, httpNext, answer>>
loopVars  == <<queue, chClosed, loop, batch, resps>>
vars == <<closed, shut, crashed, serveVars, workerChs, stopVars, reqVars, loopVars>>

TypeOK ==
    /\ closed \in BOOLEAN /\ crashed \in BOOLEAN /\ raced \in BOOLEAN
    /\ shut \subseteq Runtimes
    /\ calls \in 0..Listens
    /\ listen \in {"idle", "listening", "making", "made", "assigned", "serving"}
    /\ httpServer \in 0..Listens /\ workerChs \in 0..Listens
    /\ open \subseteq Servers /\ stopped \subseteq Servers
    /\ stop \in [Stoppers -> {"idle", "begun", "chans", "waiting", "shutting", "done"}]
    /\ isClose \subseteq Stoppers /\ mine \in [Stoppers -> 0..Listens]
    /\ via \in [Requests -> 0..Listens]
    /\ at \in [Requests -> {"none", "in", "picked", "waiting", "ready", "answered", "lost",
                           "panicked", "stuck"}]
    /\ chan \in [Requests -> Chans \cup {None}] /\ httpNext \in Nat
    /\ answer \in [Requests -> Requests \cup {None}]
    /\ queue \in [Chans -> Seq(Requests)] /\ \A c \in Chans : Len(queue[c]) <= Capacity
    /\ chClosed \subseteq Chans
    /\ loop \in [Chans -> {"none", "receiving", "batch", "answering", "ended"}]
    /\ batch \in [Chans -> Seq(Requests)] /\ \A c \in Chans : Len(batch[c]) <= BatchSize
    /\ resps \in [Chans -> [1..BatchSize -> Requests \cup {None}]]

NoResps == [i \in 1..BatchSize |-> None]

Init ==
    /\ closed = FALSE /\ crashed = FALSE /\ raced = FALSE
    /\ shut = {}
    /\ calls = 0 /\ listen = "idle" /\ httpServer = 0 /\ workerChs = 0
    /\ open = {} /\ stopped = {}
    /\ stop = [k \in Stoppers |-> "idle"] /\ isClose = {} /\ mine = [k \in Stoppers |-> 0]
    /\ via = [r \in Requests |-> 0] /\ at = [r \in Requests |-> "none"]
    /\ chan = [r \in Requests |-> None] /\ httpNext = 0
    /\ answer = [r \in Requests |-> None]
    /\ queue = [c \in Chans |-> <<>>] /\ chClosed = {}
    /\ loop = [c \in Chans |-> "none"] /\ batch = [c \in Chans |-> <<>>]
    /\ resps = [c \in Chans |-> NoResps]

UnderWay == {k \in Stoppers : stop[k] \notin {"idle", "done"}}

-----------------------------------------------------------------------------
(* ListenAndServe *)

ListenTo(l) == listen' = l
serverQuiet == <<closed, shut, stopVars, reqVars>>

(* Broadcast of the handler and net.Listen may fail, also since the pool has *)
(* been closed meanwhile: then nothing has changed.  From here on Addr has   *)
(* an answer.                                                                *)
Listen ==
    /\ listen = "idle" /\ ~closed /\ calls < Listens
    /\ calls' = calls + 1
    /\ ListenTo("listening")
    /\ raced' = (raced \/ UnderWay # {})
    /\ UNCHANGED <<closed, shut, crashed, httpServer, workerChs, open, stopped, stop, isClose,
                   mine, reqVars, loopVars>>

MakeChannels ==
    /\ listen = "listening"
    /\ workerChs' = calls
    /\ ListenTo("making")
    /\ UNCHANGED <<serverQuiet, crashed, calls, httpServer, open, stopped, loopVars>>

(* One channel and its loop, in the slice the field holds by now: if that is *)
(* empty again, a panic.                                                     *)
StartLoop ==
    /\ listen = "making"
    /\ IF workerChs = 0
         THEN crashed' = TRUE /\ ListenTo("idle") /\ UNCHANGED loop
         ELSE \E i \in Runtimes :
                /\ \A j \in Runtimes : (loop[<<calls, j>>] = "none") <=> (j >= i)
                /\ loop' = [loop EXCEPT ![<<calls, i>>] = "receiving"]
                /\ ListenTo(IF i = Size - 1 THEN "made" ELSE "making")
                /\ UNCHANGED crashed
    /\ UNCHANGED <<serverQuiet, calls, httpServer, workerChs, open, stopped, queue, chClosed, batch, resps>>

(* Variant: the server is kept in a local variable. *)
AssignServerLocal ==
    /\ listen = "made"
    /\ ListenTo("assigned")
    /\ UNCHANGED <<serverQuiet, crashed, calls, httpServer, workerChs, open, stopped, loopVars>>

AssignServer ==
    /\ listen = "made"
    /\ httpServer' = calls
    /\ ListenTo("assigned")
    /\ UNCHANGED <<serverQuiet, crashed, calls, workerChs, open, stopped, loopVars>>

(* The field is read again: StopHTTP may have emptied it, which is a panic,  *)
(* unless the compiler has kept the value.  A server that has been closed    *)
(* does not serve.                                                           *)
Serve ==
    /\ listen = "assigned"
    /\ \/ /\ httpServer = 0
          /\ crashed' = TRUE /\ ListenTo("idle") /\ UNCHANGED open
       \/ /\ calls \in stopped
          /\ ListenTo("idle") /\ UNCHANGED <<crashed, open>>
       \/ /\ calls \notin stopped
          /\ open' = open \cup {calls} /\ ListenTo("serving") /\ UNCHANGED crashed
    /\ UNCHANGED <<serverQuiet, calls, httpServer, workerChs, stopped, loopVars>>

ServeReturns ==
    /\ listen = "serving" /\ calls \notin open
    /\ ListenTo("idle")
    /\ UNCHANGED <<serverQuiet, crashed, calls, httpServer, workerChs, open, stopped, loopVars>>

-----------------------------------------------------------------------------
(* StopHTTP, and Close, which is StopHTTP and then Close of every Runtime. *)

StopTo(k, l) == stop' = [stop EXCEPT ![k] = l]
stopperQuiet == <<crashed, calls, listen, isClose, reqVars>>

(* Only the first Close does anything. *)
Begin(k) ==
    /\ stop[k] = "idle"
    /\ \/ StopTo(k, "begun") /\ UNCHANGED <<closed, isClose>>
       \/ /\ closed' = TRUE /\ isClose' = isClose \cup {k}
          /\ StopTo(k, IF closed THEN "done" ELSE "begun")
    /\ raced' = (raced \/ UnderWay # {} \/ listen \notin {"idle", "serving"})
    /\ UNCHANGED <<crashed, shut, serveVars, workerChs, mine, reqVars, loopVars>>

(* The field is emptied, and http.Server.Close called: no more requests, and *)
(* the connections are closed, whatever the handlers of their requests do.   *)
CloseServer(k) ==
    /\ stop[k] = "begun"
    /\ httpServer' = 0
    /\ open' = open \ {httpServer}
    /\ stopped' = stopped \cup ({httpServer} \ {0})
    /\ StopTo(k, "chans")
    /\ UNCHANGED <<stopperQuiet, closed, shut, raced, mine, workerChs, loopVars>>

Made(g) == {c \in Chans : c[1] = g /\ loop[c] # "none"}

(* Variant: the loops are not remembered. *)
CloseChannelsForgets(k) ==
    /\ stop[k] = "chans"
    /\ workerChs' = 0
    /\ chClosed' = chClosed \cup Made(workerChs)
    /\ StopTo(k, "waiting")
    /\ UNCHANGED <<stopperQuiet, closed, shut, raced, mine, httpServer, open, stopped, queue, loop, batch, resps>>

(* The channels are taken from the field, and those that are there closed.   *)
CloseChannels(k) ==
    /\ stop[k] = "chans"
    /\ mine' = [mine EXCEPT ![k] = workerChs]
    /\ workerChs' = 0
    /\ chClosed' = chClosed \cup Made(workerChs)
    /\ StopTo(k, "waiting")
    /\ UNCHANGED <<stopperQuiet, closed, shut, raced, httpServer, open, stopped, queue, loop, batch, resps>>

(* Variant: StopHTTP does not wait for the loops. *)
JoinLoopsNot(k) ==
    /\ stop[k] = "waiting"
    /\ StopTo(k, IF k \in isClose THEN "shutting" ELSE "done")
    /\ UNCHANGED <<stopperQuiet, closed, shut, raced, mine, httpServer, open, stopped, workerChs, loopVars>>

JoinLoops(k) ==
    /\ stop[k] = "waiting"
    /\ \A c \in Made(mine[k]) : loop[c] = "ended"
    /\ mine' = [mine EXCEPT ![k] = 0]
    /\ StopTo(k, IF k \in isClose THEN "shutting" ELSE "done")
    /\ UNCHANGED <<stopperQuiet, closed, shut, raced, httpServer, open, stopped, workerChs, loopVars>>

Shut(k) ==
    /\ stop[k] = "shutting"
    /\ \E i \in Runtimes :
         /\ \A j \in Runtimes : j \in shut <=> j < i
         /\ shut' = shut \cup {i}
         /\ StopTo(k, IF i = Size - 1 THEN "done" ELSE "shutting")
    /\ UNCHANGED <<stopperQuiet, closed, raced, mine, httpServer, open, stopped, workerChs, loopVars>>

-----------------------------------------------------------------------------
(* httpHandler *)

HandlerTo(r, l) == at' = [at EXCEPT ![r] = l]

(* The handler is through, and its local variables are gone. *)
Returns(r, l) == HandlerTo(r, l) /\ chan' = [chan EXCEPT ![r] = None]

runQuiet     == <<closed, shut, crashed, serveVars, workerChs, stopVars, chClosed, loop, batch, resps>>
handlerQuiet == <<runQuiet, via>>

InFlight == {r \in Requests : at[r] \notin {"none", "answered", "lost", "panicked"}}

Arrive(r) ==
    /\ at[r] = "none" /\ Cardinality(InFlight) < Clients
    /\ \E s \in open : via' = [via EXCEPT ![r] = s]
    /\ HandlerTo(r, "in")
    /\ UNCHANGED <<runQuiet, chan, httpNext, answer, queue>>

(* A panic of a handler, here because the slice is empty, ends its request   *)
(* only.  A send to a channel that is not made yet never ends.               *)
Pick(r) ==
    LET c == <<workerChs, httpNext % Size>>
    IN  /\ at[r] = "in"
        /\ httpNext' = httpNext + 1
        /\ \/ /\ workerChs = 0
              /\ Returns(r, "panicked")
           \/ /\ workerChs # 0 /\ loop[c] = "none"
              /\ HandlerTo(r, "stuck") /\ UNCHANGED chan
           \/ /\ workerChs # 0 /\ loop[c] # "none"
              /\ HandlerTo(r, "picked") /\ chan' = [chan EXCEPT ![r] = c]
        /\ UNCHANGED <<handlerQuiet, answer, queue>>

(* Variant: the channel has room for one request more. *)
SendOver(r) ==
    /\ at[r] = "picked"
    /\ \/ /\ chan[r] \in chClosed
          /\ Returns(r, "panicked") /\ UNCHANGED queue
       \/ /\ chan[r] \notin chClosed /\ Len(queue[chan[r]]) <= Capacity
          /\ queue' = [queue EXCEPT ![chan[r]] = Append(@, r)]
          /\ HandlerTo(r, "waiting") /\ UNCHANGED chan
    /\ UNCHANGED <<handlerQuiet, httpNext, answer>>

(* The send waits for room, and panics if the channel is closed. *)
Send(r) ==
    /\ at[r] = "picked"
    /\ \/ /\ chan[r] \in chClosed
          /\ Returns(r, "panicked") /\ UNCHANGED queue
       \/ /\ chan[r] \notin chClosed /\ Len(queue[chan[r]]) < Capacity
          /\ queue' = [queue EXCEPT ![chan[r]] = Append(@, r)]
          /\ HandlerTo(r, "waiting") /\ UNCHANGED chan
    /\ UNCHANGED <<handlerQuiet, httpNext, answer>>

(* What is written to a connection that has been closed is lost. *)
Respond(r) ==
    /\ at[r] = "ready"
    /\ Returns(r, IF via[r] \in stopped THEN "lost" ELSE "answered")
    /\ UNCHANGED <<handlerQuiet, httpNext, answer, queue>>

-----------------------------------------------------------------------------
(* workerLoop *)

LoopTo(c, l) == loop' = [loop EXCEPT ![c] = l]
loopQuiet == <<closed, shut, crashed, serveVars, workerChs, stopVars, via, chan, httpNext, chClosed>>
Least(m, n) == IF m < n THEN m ELSE n

(* One request, and those behind it, as many as a batch may have. *)
Receive(c) ==
    LET n == Least(BatchSize, Len(queue[c]))
    IN  /\ loop[c] = "receiving" /\ n > 0
        /\ batch' = [batch EXCEPT ![c] = SubSeq(queue[c], 1, n)]
        /\ queue' = [queue EXCEPT ![c] = SubSeq(@, n + 1, Len(@))]
        /\ LoopTo(c, "batch")
        /\ UNCHANGED <<loopQuiet, at, answer, resps>>

(* Variant: a closed channel ends the loop at once. *)
LoopEndsEarly(c) ==
    /\ loop[c] = "receiving" /\ c \in chClosed
    /\ LoopTo(c, "ended")
    /\ resps' = [resps EXCEPT ![c] = NoResps]
    /\ UNCHANGED <<loopQuiet, at, answer, queue, batch>>

(* A closed channel ends the loop, and its resps, once it is empty. *)
LoopEnds(c) ==
    /\ loop[c] = "receiving" /\ c \in chClosed /\ queue[c] = <<>>
    /\ LoopTo(c, "ended")
    /\ resps' = [resps EXCEPT ![c] = NoResps]
    /\ UNCHANGED <<loopQuiet, at, answer, queue, batch>>

(* On a closed Runtime dispatch does nothing; resps keeps what it has. *)
Dispatch(c) ==
    /\ loop[c] = "batch"
    /\ resps' = IF c[2] \in shut THEN resps
                ELSE [resps EXCEPT ![c] =
                        [i \in 1..BatchSize |-> IF i <= Len(batch[c]) THEN batch[c][i] ELSE @[i]]]
    /\ LoopTo(c, "answering")
    /\ UNCHANGED <<loopQuiet, at, answer, queue, batch>>

Answered(c, r) == \E i \in DOMAIN batch[c] : batch[c][i] = r

(* Each response is left with the handler that waits for it. *)
Reply(c) ==
    /\ loop[c] = "answering"
    /\ at' = [r \in Requests |-> IF Answered(c, r) THEN "ready" ELSE at[r]]
    /\ answer' = [r \in Requests |->
                    IF Answered(c, r)
                      THEN resps[c][CHOOSE i \in DOMAIN batch[c] : batch[c][i] = r] ELSE answer[r]]
    /\ batch' = [batch EXCEPT ![c] = <<>>]
    /\ LoopTo(c, "receiving")
    /\ UNCHANGED <<loopQuiet, queue, resps>>

-----------------------------------------------------------------------------
ListenStep ==
    \/ MakeChannels \/ StartLoop \/ AssignServer \/ Serve \/ ServeReturns

StopStep(k) ==
    \/ CloseServer(k) \/ CloseChannels(k) \/ JoinLoops(k) \/ Shut(k)

Handler(r) == Pick(r) \/ Send(r) \/ Respond(r)

WorkerLoop(c) == Receive(c) \/ LoopEnds(c) \/ Dispatch(c) \/ Reply(c)

Next ==
    /\ ~crashed
    /\ \/ Listen \/ ListenStep
       \/ \E k \in Stoppers : Begin(k) \/ StopStep(k)
       \/ \E r \in Requests : Arrive(r) \/ Handler(r)
       \/ \E c \in Chans : WorkerLoop(c)

Spec == Init /\ [][Next]_vars
=============================================================================

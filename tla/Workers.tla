------------------------------ MODULE Workers ------------------------------
(***************************************************************************)
(* Worker threads (worker.go).  A Worker has a Runtime of its own, which a *)
(* goroutine creates, runs the script on, and keeps in its event loop.     *)
(* Parent and worker exchange messages through two channels, msgToWorker   *)
(* and msgToParent; a message for which a channel has no room is dropped.  *)
(* The parent's JavaScript, the delivery of messages to it and terminate() *)
(* run on the engine goroutine of the parent (module Engine).              *)
(* Messages are numbered as they are put into a channel: one that is       *)
(* dropped has no number and changes nothing.                              *)
(***************************************************************************)
EXTENDS Naturals, Sequences

CONSTANTS
    Workers,    \* ids of the workers, given in ascending order
    Capacity,   \* of msgToWorker and msgToParent (100)
    MaxPosts,   \* bound: messages posted to each worker ...
    MaxSends,   \* ... and by each worker
    None

ASSUME WorkersAssumption ==
    /\ Workers \subseteq Nat /\ None \notin Workers /\ Capacity \in Nat \ {0}
    /\ MaxPosts \in [Workers -> Nat] /\ MaxSends \in [Workers -> Nat]

VARIABLES
    life,       \* of the parent: "open", "down" (closed), "panicked"
    waiting,    \* the worker whose Runtime terminate() is closing, or None
    workers,    \* workerManager.workers
    active,     \* __activeWorkers, the registry in JavaScript
    batch,      \* what processEvents has taken and not delivered yet
    current,    \* the worker whose messages are being delivered, or None
    phase,      \* where the goroutine of each worker is
    hasRt,      \* workers whose rt field is set
    closed,     \* workers whose Runtime is being closed ...
    released,   \* ... and has no engine goroutine any more
    msgToWorker, msgToParent,
    posted,     \* history: messages put into msgToWorker
    sent,       \* history: messages put into msgToParent ...
    errors,     \* ... those among them that have an __error ...
    garbled,    \* ... and those that JSON.parse rejects
    gotByWorker, gotByParent,  \* history: messages given to "message" handlers
    reported,   \* history: the last message of each an "error" event was emitted for
    cut,        \* history: the last message of each lost when a delivery ended early
    threw       \* history: who had an exception in a delivery (None is the parent)

parentVars == <<workers, active, batch, current, gotByParent, reported, cut>>
workerVars == <<phase, hasRt, closed, released, gotByWorker>>
toWorkerVars == <<msgToWorker, posted>>
toParentVars == <<msgToParent, sent, errors, garbled>>
vars == <<life, waiting, parentVars, workerVars, toWorkerVars, toParentVars, threw>>

TypeOK ==
    /\ life \in {"open", "down", "panicked"} /\ waiting \in Workers \cup {None}
    /\ workers \subseteq Workers /\ active \subseteq Workers
    /\ batch \in [Workers -> Seq(Nat)] /\ current \in Workers \cup {None}
    /\ phase \in [Workers -> {"none", "starting", "script", "loop", "failing", "stranded", "ended"}]
    /\ hasRt \subseteq Workers /\ closed \subseteq hasRt /\ released \subseteq closed
    /\ reported \in [Workers -> Nat] /\ cut \in [Workers -> Nat]
    /\ msgToWorker \in [Workers -> Seq(Nat)] /\ msgToParent \in [Workers -> Seq(Nat)]
    /\ \A w \in Workers : Len(msgToWorker[w]) <= Capacity /\ Len(msgToParent[w]) <= Capacity
    /\ posted \in [Workers -> Nat] /\ sent \in [Workers -> Nat]
    /\ errors \in [Workers -> SUBSET Nat] /\ garbled \in [Workers -> SUBSET Nat]
    /\ gotByWorker \in [Workers -> Seq(Nat)] /\ gotByParent \in [Workers -> Seq(Nat)]
    /\ threw \subseteq Workers \cup {None}

Empty == [w \in Workers |-> <<>>]

Init ==
    /\ life = "open" /\ waiting = None
    /\ workers = {} /\ active = {} /\ threw = {}
    /\ reported = [w \in Workers |-> 0] /\ cut = [w \in Workers |-> 0]
    /\ batch = Empty /\ current = None
    /\ phase = [w \in Workers |-> "none"]
    /\ hasRt = {} /\ closed = {} /\ released = {}
    /\ msgToWorker = Empty /\ msgToParent = Empty
    /\ posted = [w \in Workers |-> 0] /\ sent = [w \in Workers |-> 0]
    /\ errors = [w \in Workers |-> {}] /\ garbled = [w \in Workers |-> {}]
    /\ gotByWorker = Empty /\ gotByParent = Empty

-----------------------------------------------------------------------------
(* The parent's JavaScript: a piece of script, which may be a handler in the *)
(* middle of a delivery. *)

Js == life = "open" /\ waiting = None

(* new Worker: the entry exists before the goroutine has a Runtime. *)
Create(w) ==
    /\ Js /\ phase[w] = "none"
    /\ \A v \in Workers : v < w => phase[v] # "none"
    /\ phase' = [phase EXCEPT ![w] = "starting"]
    /\ workers' = workers \cup {w}
    /\ active' = active \cup {w}
    /\ UNCHANGED <<life, waiting, batch, current, gotByParent, reported, cut, hasRt, closed,
                   released, gotByWorker, toWorkerVars, toParentVars, threw>>

(* worker.postMessage; without an entry or room, nothing. *)
Post(w) ==
    /\ Js /\ w \in workers /\ posted[w] < MaxPosts[w]
    /\ Len(msgToWorker[w]) < Capacity
    /\ posted' = [posted EXCEPT ![w] = @ + 1]
    /\ msgToWorker' = [msgToWorker EXCEPT ![w] = Append(@, posted'[w])]
    /\ UNCHANGED <<life, waiting, parentVars, workerVars, toParentVars, threw>>

(* w.rt is read without the lock it is not written under either: until a     *)
(* message of the worker has been received it may look unset.                *)
LooksUnset(w) == w \notin hasRt \/ Len(msgToParent[w]) = sent[w]

(* worker.terminate: the registry and the map first, then Close of its       *)
(* Runtime, which waits for the engine goroutine of the worker.  Without a   *)
(* Runtime that is a panic: the end of the process with JSC, an exception in *)
(* the script with the other backends.                                       *)
Terminate(w) ==
    /\ Js /\ w \in workers \cup active
    /\ active' = active \ {w}
    /\ workers' = workers \ {w}
    /\ \/ w \notin workers /\ UNCHANGED <<life, waiting, closed>>
       \/ /\ w \in workers /\ LooksUnset(w)
          /\ life' \in {"panicked", "open"}
          /\ UNCHANGED <<waiting, closed>>
       \/ /\ w \in workers \cap hasRt
          /\ waiting' = IF w \in released THEN None ELSE w
          /\ closed' = closed \cup {w}
          /\ UNCHANGED life
    /\ UNCHANGED <<batch, current, gotByParent, reported, cut, phase, hasRt, released, gotByWorker, toWorkerVars, toParentVars, threw>>

(* Close of the worker's Runtime has its engine goroutine to itself, if the  *)
(* script ever lets go of it.                                                *)
Terminated ==
    /\ waiting # None
    /\ released' = released \cup {waiting}
    /\ waiting' = None
    /\ UNCHANGED <<life, parentVars, phase, hasRt, closed, gotByWorker,
                   toWorkerVars, toParentVars, threw>>

(* Close of the parent does not look at its workers. *)
Close ==
    /\ Js
    /\ life' = "down"
    /\ UNCHANGED <<waiting, parentVars, workerVars, toWorkerVars, toParentVars, threw>>

-----------------------------------------------------------------------------
(* Delivery to the parent: processEvents and __workerDeliverEvents. *)

InBatch == {w \in Workers : batch[w] # <<>>}
First(w) == w \in InBatch /\ \A v \in InBatch : w <= v
BatchTo(b, v) == batch' = b /\ current' = IF b = Empty THEN None ELSE v

(* The delivery ends, and what is left of the batch is lost. *)
BatchEnds(left) ==
    /\ BatchTo(Empty, None)
    /\ cut' = [v \in Workers |-> IF left[v] = <<>> THEN cut[v] ELSE left[v][Len(left[v])]]

(* Variant: a handler may enter processEvents again. *)
TakeMessagesReentrant ==
    LET W == {w \in workers : msgToParent[w] # <<>>}
    IN  /\ Js /\ W # {}
        /\ batch' = [w \in Workers |-> IF w \in W THEN msgToParent[w] ELSE <<>>]
        /\ msgToParent' = [w \in Workers |-> IF w \in W THEN <<>> ELSE msgToParent[w]]
        /\ UNCHANGED <<life, waiting, workers, active, current, gotByParent, reported, cut, workerVars,
                       toWorkerVars, sent, errors, garbled, threw>>

(* processEvents: everything there is, of all workers that are listed. *)
TakeMessages ==
    LET W == {w \in workers : msgToParent[w] # <<>>}
    IN  /\ Js /\ InBatch = {} /\ W # {}
        /\ batch' = [w \in Workers |-> IF w \in W THEN msgToParent[w] ELSE <<>>]
        /\ msgToParent' = [w \in Workers |-> IF w \in W THEN <<>> ELSE msgToParent[w]]
        /\ UNCHANGED <<life, waiting, workers, active, current, gotByParent, reported, cut, workerVars,
                       toWorkerVars, sent, errors, garbled, threw>>

deliveryQuiet == <<life, waiting, workers, workerVars, toWorkerVars, toParentVars>>

(* The object is looked up once for all messages of a worker: those of one   *)
(* that has been terminated since are skipped, unless its turn has begun.    *)
Skip(w) ==
    /\ Js /\ First(w) /\ w \notin active /\ current # w
    /\ BatchTo([batch EXCEPT ![w] = <<>>], None)
    /\ UNCHANGED <<deliveryQuiet, active, gotByParent, reported, cut, threw>>

Turn(w)   == Js /\ First(w) /\ (w \in active \/ current = w)
Behind(w) == [batch EXCEPT ![w] = Tail(@)]

(* A message event.  If its handler throws, the batch ends there. *)
Deliver(w) ==
    /\ Turn(w) /\ Head(batch[w]) \notin errors[w] \cup garbled[w]
    /\ gotByParent' = [gotByParent EXCEPT ![w] = Append(@, Head(batch[w]))]
    /\ \/ BatchTo(Behind(w), w) /\ UNCHANGED <<cut, threw>>
       \/ BatchEnds(Behind(w)) /\ threw' = threw \cup {None}
    /\ UNCHANGED <<deliveryQuiet, active, reported>>

(* A message that JSON.parse rejects: an exception, and no event. *)
DeliverGarbled(w) ==
    /\ Turn(w) /\ Head(batch[w]) \in garbled[w]
    /\ BatchEnds(batch)
    /\ threw' = threw \cup {None}
    /\ UNCHANGED <<deliveryQuiet, active, gotByParent, reported>>

(* A message with an __error: error and exit events, and the delivery of the *)
(* whole batch ends.  A handler that throws, or none for error, leaves the   *)
(* worker in the registry.                                                   *)
DeliverError(w) ==
    /\ Turn(w) /\ Head(batch[w]) \in errors[w]
    /\ BatchEnds(Behind(w))
    /\ reported' = [reported EXCEPT ![w] = Head(batch[w])]
    /\ \/ active' = active \ {w} /\ UNCHANGED threw
       \/ threw' = threw \cup {None} /\ UNCHANGED active
    /\ UNCHANGED <<deliveryQuiet, gotByParent>>

-----------------------------------------------------------------------------
(* The goroutine of a worker, and the JavaScript on its Runtime. *)

PhaseTo(w, p) == phase' = [phase EXCEPT ![w] = p]
outside == <<life, waiting, parentVars>>

StartFails(w) ==
    /\ phase[w] = "starting"
    /\ PhaseTo(w, "failing")
    /\ UNCHANGED <<outside, hasRt, closed, released, gotByWorker, toWorkerVars, toParentVars, threw>>

(* Variant: the rt field is not set before the script runs. *)
StartsUnset(w) ==
    /\ phase[w] = "starting"
    /\ PhaseTo(w, "script")
    /\ UNCHANGED <<outside, hasRt, closed, released, gotByWorker, toWorkerVars, toParentVars, threw>>

Starts(w) ==
    /\ phase[w] = "starting"
    /\ PhaseTo(w, "script")
    /\ hasRt' = hasRt \cup {w}
    /\ UNCHANGED <<outside, closed, released, gotByWorker, toWorkerVars, toParentVars, threw>>

(* Exec of the script returns; it fails also when the Runtime is closed. *)
ScriptEnds(w) ==
    /\ phase[w] = "script"
    /\ \/ PhaseTo(w, "loop") \/ PhaseTo(w, "failing")
    /\ UNCHANGED <<outside, hasRt, closed, released, gotByWorker, toWorkerVars, toParentVars, threw>>

(* A dispatch that races with Close of the Runtime may wait for ever (module *)
(* Engine, Stranded): so does the goroutine of a worker that is terminated.  *)
Strands(w) ==
    /\ phase[w] \in {"script", "loop"} /\ w \in closed
    /\ PhaseTo(w, "stranded")
    /\ UNCHANGED <<outside, hasRt, closed, released, gotByWorker, toWorkerVars, toParentVars, threw>>

Running(w) == phase[w] \in {"script", "loop"} /\ w \notin released

Kinds == {"message", "error", "garbled"}

(* Variant: the channel to the parent has room for one message more. *)
PutToParentOver(w, k) ==
    /\ Len(msgToParent[w]) <= Capacity
    /\ sent' = [sent EXCEPT ![w] = @ + 1]
    /\ msgToParent' = [msgToParent EXCEPT ![w] = Append(@, sent'[w])]
    /\ errors' = IF k = "error" THEN [errors EXCEPT ![w] = @ \cup {sent'[w]}] ELSE errors
    /\ garbled' = IF k = "garbled" THEN [garbled EXCEPT ![w] = @ \cup {sent'[w]}] ELSE garbled

PutToParent(w, k) ==
    /\ Len(msgToParent[w]) < Capacity
    /\ sent' = [sent EXCEPT ![w] = @ + 1]
    /\ msgToParent' = [msgToParent EXCEPT ![w] = Append(@, sent'[w])]
    /\ errors' = IF k = "error" THEN [errors EXCEPT ![w] = @ \cup {sent'[w]}] ELSE errors
    /\ garbled' = IF k = "garbled" THEN [garbled EXCEPT ![w] = @ \cup {sent'[w]}] ELSE garbled

(* parentPort.postMessage, also of an object that has an __error, or of      *)
(* undefined, which becomes an empty string; without room, nothing.          *)
PostToParent(w) ==
    /\ Running(w) /\ sent[w] < MaxSends[w]
    /\ \E k \in Kinds : PutToParent(w, k)
    /\ UNCHANGED <<outside, workerVars, toWorkerVars, threw>>

(* The interval of parentPort.on, if the script has called it, takes all      *)
(* messages; a handler that throws loses the ones behind, and one that       *)
(* JSON.parse rejects is lost with them.                                     *)
Receive(w) ==
    /\ phase[w] = "loop" /\ w \notin released /\ msgToWorker[w] # <<>>
    /\ msgToWorker' = [msgToWorker EXCEPT ![w] = <<>>]
    /\ \E n \in 0..Len(msgToWorker[w]) :
         /\ gotByWorker' = [gotByWorker EXCEPT ![w] = @ \o SubSeq(msgToWorker[w], 1, n)]
         /\ threw' = IF n < Len(msgToWorker[w]) THEN threw \cup {w} ELSE threw
    /\ UNCHANGED <<outside, phase, hasRt, closed, released, posted, toParentVars>>

(* The goroutine returns, and closes its Runtime if there is one. *)
End(w) ==
    /\ PhaseTo(w, "ended")
    /\ closed' = closed \cup (hasRt \cap {w})
    /\ released' = IF w \in closed THEN released ELSE released \cup (hasRt \cap {w})

(* Variant: the loop of a Runtime that is closed takes it to have work left. *)
LoopEndsDeaf(w) ==
    /\ phase[w] = "loop" /\ w \notin released
    /\ End(w)
    /\ UNCHANGED <<outside, hasRt, gotByWorker, toWorkerVars, toParentVars, threw>>

(* RunEventLoop returns: nothing is pending, thirty seconds have passed, or  *)
(* the Runtime is closed.                                                    *)
LoopEnds(w) ==
    /\ phase[w] = "loop"
    /\ End(w)
    /\ UNCHANGED <<outside, hasRt, gotByWorker, toWorkerVars, toParentVars, threw>>

(* Variant: the failure is dropped, as messages are, when there is no room. *)
SendErrorDrops(w) ==
    /\ phase[w] = "failing"
    /\ \/ PutToParent(w, "error")
       \/ Len(msgToParent[w]) = Capacity /\ UNCHANGED toParentVars
    /\ End(w)
    /\ UNCHANGED <<outside, hasRt, gotByWorker, toWorkerVars, threw>>

(* The failure is sent to the parent; this send waits for room, and does not *)
(* wake the parent.  Its text is quoted as Go does it, so that JSON.parse    *)
(* rejects one with characters that JSON escapes otherwise.                  *)
SendError(w) ==
    /\ phase[w] = "failing"
    /\ \E k \in {"error", "garbled"} : PutToParent(w, k)
    /\ End(w)
    /\ UNCHANGED <<outside, hasRt, gotByWorker, toWorkerVars, threw>>

-----------------------------------------------------------------------------
Goroutine(w) == StartFails(w) \/ Starts(w) \/ ScriptEnds(w) \/ LoopEnds(w) \/ Strands(w) \/ SendError(w)

Delivery ==
    \/ TakeMessages
    \/ \E w \in Workers : Skip(w) \/ Deliver(w) \/ DeliverGarbled(w) \/ DeliverError(w)

Next ==
    /\ life # "panicked"
    /\ \/ \E w \in Workers :
            \/ Create(w) \/ Post(w) \/ Terminate(w)
            \/ Goroutine(w) \/ PostToParent(w) \/ Receive(w)
       \/ Terminated \/ Close \/ Delivery

Spec == Init /\ [][Next]_vars

(* The parent's loop runs, and a worker's failure is sent when there is room.*)
(* The script and the loop of a worker whose engine goroutine has gone do    *)
(* not wait for it: a dispatch is refused.  Nothing else ends by itself: a   *)
(* script may run for ever, and Close, for which terminate() waits on the    *)
(* parent's engine goroutine, with it.                                       *)
Alive(A) == life # "panicked" /\ A
Fairness ==
    /\ WF_vars(Alive(Delivery))
    /\ \A w \in Workers :
         /\ WF_vars(Alive(SendError(w)))
         /\ WF_vars(Alive(w \in released /\ (ScriptEnds(w) \/ LoopEnds(w))))

FairSpec == Spec /\ Fairness
=============================================================================

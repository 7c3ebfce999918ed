---------------------------- MODULE WorkersProps ----------------------------
(* What a script and its workers rely on: properties of Workers. *)
EXTENDS Workers

(* No error event has been emitted yet. *)
NoFailure == \A w \in Workers : reported[w] = 0

FirstOnes(n) == [i \in 1..n |-> i]
Ascending(q) == \A i, j \in DOMAIN q : i < j => q[i] < q[j]

(***************************************************************************)
(* Messages: every message that was put into a channel is delivered once   *)
(* and in order, or still to be delivered.  To the worker that holds as    *)
(* long as none of its handlers, nor JSON.parse, throws; to the parent, as *)
(* long as the worker has not been terminated, no handler, nor JSON.parse, *)
(* has thrown, and no failure has ended a delivery (__workerDeliverEvents  *)
(* returns at the first one, whatever worker it is of).  In order it       *)
(* always is.                                                              *)
(***************************************************************************)
ToWorker(w) == gotByWorker[w] \o msgToWorker[w]
ToParent(w) == gotByParent[w] \o batch[w] \o msgToParent[w]
MessagesAccounted ==
    \A w \in Workers :
        /\ Ascending(ToWorker(w)) /\ Ascending(ToParent(w))
        /\ w \notin threw => ToWorker(w) = FirstOnes(posted[w])
        /\ (w \in active /\ None \notin threw /\ NoFailure) => ToParent(w) = FirstOnes(sent[w])

(***************************************************************************)
(* Workers implements Mailboxes, in both directions: whatever takes and    *)
(* drops messages - full channels, batches, handlers that throw, failures, *)
(* terminate() and Close - no message is delivered twice or out of order,  *)
(* none is skipped while the mailbox is sound, and when something is lost  *)
(* it is what has waited longest.  The mailbox to a worker is sound until  *)
(* something throws in a delivery of it, the one to the parent as said     *)
(* above; what processEvents has taken but not delivered is still in it.   *)
(***************************************************************************)
Undisturbed(w) ==
    (w \in active \/ phase[w] = "none") /\ None \notin threw /\ NoFailure

Undelivered(w) == batch[w] \o msgToParent[w]

Parents == IF life = "open" THEN Workers ELSE {}

ToWorkers == INSTANCE Mailboxes WITH
    Boxes   <- Workers,
    writers <- Parents,
    readers <- Workers \ released,
    sound   <- Workers \ threw,
    wrote   <- posted,
    box     <- msgToWorker,
    read    <- gotByWorker

ToParents == INSTANCE Mailboxes WITH
    Boxes   <- Workers,
    writers <- {w \in Workers : phase[w] \notin {"stranded", "ended"}},
    readers <- Parents,
    sound   <- {w \in Workers : Undisturbed(w)},
    wrote   <- sent,
    box     <- [w \in Workers |-> Undelivered(w)],
    read    <- gotByParent

ImplementsMailboxes == ToWorkers!Spec /\ ToParents!Spec

(***************************************************************************)
(* terminate() may find no Runtime and panic (goWorkerTerminate), also of  *)
(* a worker that has just been reported as failed; but not once a message  *)
(* event of the worker has been emitted.                                   *)
(***************************************************************************)
OnlyEarlyTerminatePanics ==
    life = "panicked" => \E w \in Workers \ workers : phase[w] # "none" /\ gotByParent[w] = <<>>

(* terminate() waits for good, for a worker whose script never lets go. *)
Hung == <>[](waiting # None)

(***************************************************************************)
(* A worker that could not start, or whose script has failed, is reported  *)
(* to the script, also when its channel was full (the send of __error in   *)
(* goWorkerCreate).  Excepted are a worker that was terminated or has been *)
(* reported before, a terminate() that never returns, and just those       *)
(* failures that processEvents has taken and __workerDeliverEvents has not *)
(* come to, since a handler threw, another failure ended the delivery, or  *)
(* JSON.parse rejected a message before it or the failure itself.          *)
(***************************************************************************)
FailureReported ==
    \/ Hung
    \/ \A w \in Workers :
        (phase[w] = "failing")
            ~> \/ phase[w] = "ended" /\ sent[w] \in {reported[w], cut[w]}
               \/ w \notin active \/ life # "open"

(***************************************************************************)
(* The goroutine of a worker that terminate() has closed comes to its end: *)
(* its loop returns although nobody tells it (RunEventLoop finds nothing   *)
(* pending as its dispatch is refused).  It is kept for ever in two places *)
(* only: in a dispatch that raced with Close, and in the send of a failure *)
(* to a channel that nobody empties, its worker not being listed any more. *)
(***************************************************************************)
TerminatedEnds ==
    \A w \in Workers :
        (w \in released)
            ~> \/ phase[w] \in {"ended", "stranded"} \/ life = "panicked"
               \/ phase[w] = "failing" /\ Len(msgToParent[w]) = Capacity
=============================================================================

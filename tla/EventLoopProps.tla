--------------------------- MODULE EventLoopProps ---------------------------
(* What JavaScript and the callers of the loop rely on: properties of EventLoop. *)
EXTENDS EventLoop

Owed       == started \ settled
DrivenBy   == {d \in Drivers : pc[d] \notin {"start", "returned"}}
Alone(d)   == \A e \in Drivers \ {d} : ~Awaits(e)

(* The managers that keep an operation until its outcome is delivered; the   *)
(* others (fs, fetch) take it off their books a step too early.              *)
Keepers == {"timer", "proc", "promise", "waitAsync"}
Kept(S) == {o \in S : kind[o] \in Keepers}

(***************************************************************************)
(* Refinement: of the operations whose manager keeps them until their      *)
(* outcome has been delivered, the loop implements AsyncOps.  In           *)
(* particular no driver of an open runtime finds hasPendingLocked false    *)
(* while such an outcome is owed, although goroutines post results between *)
(* drains and checks.                                                      *)
(***************************************************************************)
Idle  == {d \in Drivers : verdict[d] = "idle"}
Async == INSTANCE AsyncOps WITH open <- ~closed, started <- Kept(started), told <- Kept(settled), idle <- Idle
ImplementsAsyncOps == Async!Spec

(***************************************************************************)
(* "RunEventLoop processes the event loop until all pending operations     *)
(* complete" (eventloop.go:103): the closure that finds nothing pending    *)
(* leaves no outcome and no body undelivered.                              *)
(***************************************************************************)
FindsIdle(d) == engine = d /\ verdict'[d] = "idle" /\ engine' = None
UntilAllComplete ==
    [][\A d \in Drivers : FindsIdle(d) => Owed = {} /\ streams = {}]_vars

(***************************************************************************)
(* Nobody is told twice: an outcome on its way to JavaScript - in an event *)
(* queue, in a timer that is due, in a goroutine about to settle a promise *)
(* - has not been delivered yet, whichever closure delivers it.            *)
(***************************************************************************)
ToldOnce ==
    \A o \in Ops :
        o \in due \cup events \/ gor[o] \in {"post", "headers", "resolve"} => o \notin settled

(***************************************************************************)
(* No wake-up is lost: when every driver sleeps for timers far ahead, an   *)
(* event in a queue has its token in wakeCh, or its goroutine is about to  *)
(* call Wake.  This is so for one driver; of two, one may take the token   *)
(* and return (RunEventLoopWithContext at the top of its loop).            *)
(***************************************************************************)
FarAsleep(d) == pc[d] = "sleep" /\ ~Elapsed(d)
NoLostWake ==
    (DrivenBy # {} /\ \A d \in DrivenBy : FarAsleep(d)) =>
        /\ events # {} => wakeCh \/ \E o \in Ops : gor[o] = "wake"
        /\ chunks # {} => wakeCh \/ \E o \in Ops : reader[o] = "wake"

(***************************************************************************)
(* hasPendingLocked asks the managers one after the other while goroutines *)
(* move operations between them.  No driver of an open runtime finds it    *)
(* idle while a timer has not fired, while a request is with its goroutine *)
(* up to the queueing of its headers event, or while JavaScript reads a    *)
(* body whose response it has been given.  Not promised by the code, and   *)
(* not stated: a file operation between counter and queue (asyncfs.go:49), *)
(* a request that failed (fetch.go:209), and a request that was handed to  *)
(* streamManager after that was asked and forgotten by fetchManager before *)
(* that is asked; the run loop_unfinished is about these.                  *)
(***************************************************************************)
Unfinished(o) ==
    \/ kind[o] = "timer" /\ o \notin settled
    \/ gor[o] \in {"io", "headers"}
    \/ o \in streams \cap settled
PendingKeepsAlive ==
    [][\A d \in Drivers : FindsIdle(d) /\ ~closed => \A o \in Ops : ~Unfinished(o)]_vars

(***************************************************************************)
(* An EvalAsync that no other one overlaps or follows returns the value of *)
(* its own promise; on an open runtime it gives up ("Promise did not       *)
(* resolve and no pending timers") only if no kept operation can settle it. *)
(***************************************************************************)
OwnResultAlone ==
    \A d \in Drivers : Alone(d) =>
        /\ ret[d] = "value" => got[d] = d
        /\ ret[d] = "stuck" /\ ~closed => \A o \in Kept(Ops) : awaits[o] # d

(***************************************************************************)
(* "The Runtime is safe for concurrent use from multiple goroutines"       *)
(* (engine_jsc.go:93): EvalAsync returns the value of its own promise.     *)
(***************************************************************************)
OwnResult == \A d \in Drivers : ret[d] = "value" => got[d] = d

(***************************************************************************)
(* Once the goroutine of an operation has its answer, JavaScript is told   *)
(* while somebody drives the loop, even if the loop sleeps for timers that *)
(* lie ahead for ever.                                                     *)
(***************************************************************************)
HasAnswer(o) == gor[o] \notin {"none", "io"} /\ kind[o] # "timer"
EventuallyTold ==
    \A o \in Ops : (HasAnswer(o) /\ DrivenBy # {}) ~> (o \in settled \/ DrivenBy = {})

(***************************************************************************)
(* EvalAsync returns once its promise is settled by a process or by a Go   *)
(* promise bridged to JavaScript, even if its driver sleeps for a timer    *)
(* that lies ahead for ever: the goroutine of a bridged promise settles it *)
(* between two closures and calls Wake afterwards.  A promise that hangs   *)
(* on Atomics.waitAsync is excluded: its goroutine calls Wake before.      *)
(***************************************************************************)
AsyncAnswers ==
    \A d \in Drivers, o \in Ops :
        (awaits[o] = d /\ o \in settled /\ kind[o] # "waitAsync") ~> pc[d] = "returned"
=============================================================================

----------------------------- MODULE EventLoop -----------------------------
(***************************************************************************)
(* The event loop of a Runtime.  A driver is one call of RunEventLoop[For],*)
(* RunEventLoopWithContext, EvalAsync or EvalAsyncWithContext.  It sends   *)
(* closures to the engine goroutine until nothing is pending: a closure    *)
(* drains the managers in a fixed order, runs the JavaScript timers, and   *)
(* then asks each manager, in another fixed order, whether it is active.   *)
(* Between two closures the driver sleeps until a timer, a deadline, a     *)
(* context or a token in wakeCh ends the sleep.                            *)
(*                                                                         *)
(* An operation is one asynchronous thing JavaScript has started.  Its     *)
(* kind says which manager keeps it and what its goroutine does:           *)
(*   "timer"     a setTimeout of the JavaScript loop                       *)
(*   "proc"      a child process; processManager                           *)
(*   "promise"   a Go promise bridged to JavaScript; nativePromiseCount    *)
(*   "waitAsync" Atomics.waitAsync; waitAsyncCount                         *)
(*   "fs"        an asynchronous file operation; fsManager                 *)
(*   "fetch"     an HTTP request; fetchManager, and streamManager for the  *)
(*               body of its response                                      *)
(* The engine goroutine runs one closure at a time (module Engine), but    *)
(* the goroutines of the operations run all the while.                     *)
(***************************************************************************)
EXTENDS Integers, Sequences, FiniteSets

CONSTANTS
    Ops,        \* operations JavaScript may start
    Drivers,    \* calls that drive the loop
    Kinds,      \* kinds of operations considered
    Modes,      \* kinds of drivers considered
    MayClose,   \* whether Close may be called meanwhile
    None

AllKinds == {"timer", "proc", "promise", "waitAsync", "fs", "fetch"}
AllModes == {"run", "runCtx", "await", "awaitCtx"}

ASSUME LoopAssumption ==
    /\ Kinds \subseteq AllKinds
    /\ Modes \subseteq AllModes
    /\ MayClose \in BOOLEAN
    /\ None \notin Ops \cup Drivers \cup AllKinds \cup AllModes

VARIABLES
    \* the runtime
    life,        \* how far Close has come: "open", "closed", "released" (managers), "down"
    wakeCh,      \* wakeCh holds its token
    engine,      \* the driver whose closure is executing, or None
    stage,       \* the part of the closure that comes next
    onReady,     \* the OnReady callback: "unset", "set" (before the loop is driven), "fired"
    \* the operations
    kind,        \* kind of each started operation, or None
    gor,         \* where the goroutine of each operation is
    tracked,     \* what the manager counts: a map entry, a counter, a timer
    due,         \* timers whose time has come
    events,      \* operations whose result waits in a manager's event queue
    streams,     \* responses whose body stream is in streamManager
    chunks,      \* body streams whose final chunk waits for delivery
    reader,      \* where the goroutine that reads each body is
    settled,     \* operations whose outcome JavaScript has been given
    bodyDone,    \* responses whose body JavaScript has been given
    \* the drivers: where each is, how it was called, whether its context or
    \* deadline is over, what its last closure found, the timers it sleeps for
    \* ({}: the 10ms poll), what it returned, and whose value
    pc, mode, ctxDone, expired, verdict, sleepFor, ret, got,
    \* globalThis.__asyncDone, and whose promise __asyncResult is the value of
    asyncDone, asyncResult,
    awaits       \* the driver whose promise the operation settles

runtimeVars == <<life, onReady>>
opVars      == <<kind, gor, tracked, due, events, streams, chunks, reader, settled, bodyDone, awaits>>
asyncVars   == <<asyncDone, asyncResult>>
driverVars  == <<pc, mode, ctxDone, expired, verdict, sleepFor, ret, got>>
closureVars == <<engine, stage>>
vars == <<runtimeVars, wakeCh, closureVars, opVars, asyncVars, driverVars>>

(* tickManagers and hasPendingLocked each have their own order of managers.  *)
(* fsManager.hasActive reads the counter first and the queue after that.     *)
DrainOrder == <<"fs", "proc", "fetch", "stream">>
CheckOrder == <<"timer", "proc", "waitAsync", "promise", "fs", "fsEvents", "stream", "fetch">>

(* The stages of a closure: the drains, __asyncDone, the JavaScript timers,  *)
(* __asyncDone once more, then the checks.                                   *)
Drains     == DOMAIN DrainOrder
DoneStage  == Len(DrainOrder) + 1
TickStage  == Len(DrainOrder) + 2
AgainStage == Len(DrainOrder) + 3
CheckAt(i) == Len(DrainOrder) + 3 + i
LastStage  == CheckAt(Len(CheckOrder))

closed == life # "open"        \* r.closed
down   == life = "down"        \* the engine goroutine no longer takes functions

started    == {o \in Ops : kind[o] # None}
Of(k)      == {o \in Ops : kind[o] = k}

TypeOK ==
    /\ life \in {"open", "closed", "released", "down"} /\ wakeCh \in BOOLEAN
    /\ engine \in Drivers \cup {None}
    /\ stage \in 1..LastStage
    /\ onReady \in {"unset", "set", "fired"}
    /\ kind \in [Ops -> Kinds \cup {None}]
    /\ gor \in [Ops -> {"none", "io", "post", "headers", "wakeFirst", "resolve", "wake", "uncount", "done"}]
    /\ reader \in [Ops -> {"none", "io", "wake", "done"}]
    /\ tracked \subseteq Ops /\ due \subseteq Ops /\ events \subseteq Ops
    /\ streams \subseteq Ops /\ chunks \subseteq Ops
    /\ settled \subseteq Ops /\ bodyDone \subseteq Ops
    /\ awaits \in [Ops -> Drivers \cup {None}]
    /\ asyncDone \in BOOLEAN /\ asyncResult \in Drivers \cup {None}
    /\ pc \in [Drivers -> {"start", "setup", "top", "closure", "decide", "sleep", "returned"}]
    /\ mode \in [Drivers -> AllModes \cup {None}]
    /\ ctxDone \subseteq Drivers /\ expired \subseteq Drivers
    /\ verdict \in [Drivers -> {"none", "pending", "idle", "noop", "done", "recheck"}]
    /\ sleepFor \in [Drivers -> SUBSET Ops]
    /\ ret \in [Drivers -> {"none", "nil", "closed", "ctxErr", "timeout", "value", "stuck"}]
    /\ got \in [Drivers -> Drivers \cup {None}]

Init ==
    /\ life = "open" /\ wakeCh = FALSE
    /\ engine = None /\ stage = 1
    /\ onReady \in {"unset", "set"}
    /\ kind = [o \in Ops |-> None]
    /\ gor = [o \in Ops |-> "none"]
    /\ reader = [o \in Ops |-> "none"]
    /\ tracked = {} /\ due = {} /\ events = {} /\ streams = {} /\ chunks = {}
    /\ settled = {} /\ bodyDone = {}
    /\ awaits = [o \in Ops |-> None]
    /\ asyncDone = FALSE /\ asyncResult = None
    /\ pc = [d \in Drivers |-> "start"]
    /\ mode = [d \in Drivers |-> None]
    /\ ctxDone = {} /\ expired = {}
    /\ verdict = [d \in Drivers |-> "none"]
    /\ sleepFor = [d \in Drivers |-> {}]
    /\ ret = [d \in Drivers |-> "none"]
    /\ got = [d \in Drivers |-> None]

-----------------------------------------------------------------------------
(* JavaScript: starting operations, and being told of their outcome. *)

(* JavaScript starts o.  It is tracked before the call that starts it returns. *)
Start(o, k, d) ==
    /\ kind[o] = None
    /\ kind' = [kind EXCEPT ![o] = k]
    /\ gor' = [gor EXCEPT ![o] = IF k = "timer" THEN "done" ELSE "io"]
    /\ awaits' = [awaits EXCEPT ![o] = d]

StartNothing == UNCHANGED <<kind, gor, awaits>>

(* The outcomes of the operations in D reach JavaScript, in any order.  The  *)
(* reactions of the promise of an EvalAsync set the globals that it polls.   *)
Settle(D) ==
    LET whose == {awaits[o] : o \in D} \ {None}
    IN  /\ settled' = settled \cup D
        /\ IF whose = {} THEN UNCHANGED asyncVars
           ELSE asyncDone' = TRUE /\ asyncResult' \in whose

(* Callbacks run for the operations in D; those in gone are tracked no       *)
(* longer; a callback may start another operation.                           *)
Callbacks(D, gone) ==
    \/ StartNothing /\ tracked' = tracked \ gone
    \/ /\ D # {}
       /\ \E o \in Ops, k \in Kinds :
            Start(o, k, None) /\ tracked' = (tracked \ gone) \cup {o}

(* Another goroutine runs a script that starts an operation. *)
ExecStart(o, k) ==
    /\ engine = None /\ ~down
    /\ Start(o, k, None)
    /\ tracked' = tracked \cup {o}
    /\ UNCHANGED <<runtimeVars, wakeCh, closureVars, due, events, streams, chunks, reader,
                   settled, bodyDone, asyncVars, driverVars>>

-----------------------------------------------------------------------------
(* The goroutines of the operations.  Each action is one step between two    *)
(* things another goroutine can see.                                         *)

At(o, k, l) == kind[o] = k /\ gor[o] = l
GoTo(o, l)  == gor' = [gor EXCEPT ![o] = l] /\ UNCHANGED <<kind, awaits>>

quiet == <<runtimeVars, closureVars, asyncVars, driverVars, due>>

TimerDue(o) ==
    /\ kind[o] = "timer" /\ o \in tracked \ due
    /\ due' = due \cup {o}
    /\ UNCHANGED <<runtimeVars, wakeCh, closureVars, kind, gor, tracked, events, streams, chunks,
                   reader, settled, bodyDone, awaits, asyncVars, driverVars>>

(* Variant: nobody is woken when a process exits. *)
ProcExitSilent(o) ==
    /\ At(o, "proc", "io") /\ GoTo(o, "done")
    /\ events' = events \cup {o}
    /\ UNCHANGED <<quiet, wakeCh, tracked, streams, chunks, reader, settled, bodyDone>>

(* A process exits: flag and exit event under its lock.  The entry stays.    *)
ProcExit(o) ==
    /\ At(o, "proc", "io") /\ GoTo(o, "wake")
    /\ events' = events \cup {o}
    /\ UNCHANGED <<quiet, wakeCh, tracked, streams, chunks, reader, settled, bodyDone>>

(* An fs operation is taken off the counter first, its event comes later.    *)
FsUncount(o) ==
    /\ At(o, "fs", "io") /\ GoTo(o, "post")
    /\ tracked' = tracked \ {o}
    /\ UNCHANGED <<quiet, wakeCh, events, streams, chunks, reader, settled, bodyDone>>

FsPost(o) ==
    /\ At(o, "fs", "post") /\ GoTo(o, "wake")
    /\ events' = events \cup {o}
    /\ UNCHANGED <<quiet, wakeCh, tracked, streams, chunks, reader, settled, bodyDone>>

(* A request fails: event and removal of the request in one critical section. *)
FetchFails(o) ==
    /\ At(o, "fetch", "io") /\ GoTo(o, "wake")
    /\ events' = events \cup {o}
    /\ tracked' = tracked \ {o}
    /\ UNCHANGED <<quiet, wakeCh, streams, chunks, reader, settled, bodyDone>>

(* Variant: the request is removed as soon as its body has a stream. *)
FetchRespondsForgets(o) ==
    /\ At(o, "fetch", "io") /\ GoTo(o, "headers")
    /\ streams' = streams \cup {o}
    /\ reader' = [reader EXCEPT ![o] = "io"]
    /\ tracked' = tracked \ {o}
    /\ UNCHANGED <<quiet, wakeCh, events, chunks, settled, bodyDone>>

(* A response arrives: body stream, headers event, Wake, removal - in turn.  *)
FetchResponds(o) ==
    /\ At(o, "fetch", "io") /\ GoTo(o, "headers")
    /\ streams' = streams \cup {o}
    /\ reader' = [reader EXCEPT ![o] = "io"]
    /\ UNCHANGED <<quiet, wakeCh, tracked, events, chunks, settled, bodyDone>>

FetchPost(o) ==
    /\ At(o, "fetch", "headers") /\ GoTo(o, "wake")
    /\ events' = events \cup {o}
    /\ UNCHANGED <<quiet, wakeCh, tracked, streams, chunks, reader, settled, bodyDone>>

(* Variant: the final chunk is queued without a Wake. *)
BodyEndsSilent(o) ==
    /\ reader[o] = "io"
    /\ reader' = [reader EXCEPT ![o] = "done"]
    /\ chunks' = chunks \cup ({o} \cap streams)
    /\ UNCHANGED <<quiet, wakeCh, kind, gor, awaits, tracked, events, streams, settled, bodyDone>>

BodyEnds(o) ==
    /\ reader[o] = "io"
    /\ reader' = [reader EXCEPT ![o] = "wake"]
    /\ chunks' = chunks \cup ({o} \cap streams)
    /\ UNCHANGED <<quiet, wakeCh, kind, gor, awaits, tracked, events, streams, settled, bodyDone>>

ReaderWake(o) ==
    /\ reader[o] = "wake"
    /\ reader' = [reader EXCEPT ![o] = "done"]
    /\ wakeCh' = TRUE
    /\ UNCHANGED <<quiet, kind, gor, awaits, tracked, events, streams, chunks, settled, bodyDone>>

(* Variant: nativePromiseCount is decremented before the promise is settled. *)
AwaitedUncounts(o) ==
    /\ \/ At(o, "promise", "io") /\ GoTo(o, "resolve") /\ tracked' = tracked \ {o}
       \/ At(o, "waitAsync", "io") /\ GoTo(o, "wakeFirst") /\ UNCHANGED tracked
    /\ UNCHANGED <<quiet, wakeCh, events, streams, chunks, reader, settled, bodyDone>>

(* Await returns, or sabAtomicWait does (which is followed by Wake first).   *)
Awaited(o) ==
    /\ \/ At(o, "promise", "io") /\ GoTo(o, "resolve")
       \/ At(o, "waitAsync", "io") /\ GoTo(o, "wakeFirst")
    /\ UNCHANGED <<quiet, wakeCh, tracked, events, streams, chunks, reader, settled, bodyDone>>

WakeFirst(o) ==
    /\ At(o, "waitAsync", "wakeFirst") /\ GoTo(o, "resolve")
    /\ wakeCh' = TRUE
    /\ UNCHANGED <<quiet, tracked, events, streams, chunks, reader, settled, bodyDone>>

(* Variant: nobody is woken when a bridged promise has been settled. *)
AfterResolveSilent(o) == IF kind[o] = "promise" THEN "uncount" ELSE "done"

(* dispatch of the function that settles a promise: the reactions run too.   *)
(* waitAsyncCount is decremented inside that function, nativePromiseCount    *)
(* by the goroutine at its end.                                              *)
AfterResolve(o) == IF kind[o] = "promise" THEN "wake" ELSE "done"

Resolve(o) ==
    /\ gor[o] = "resolve"
    /\ engine = None /\ ~down
    /\ Settle({o})
    /\ LET gone == IF kind[o] = "waitAsync" THEN {o} ELSE {}
       IN  \/ /\ GoTo(o, AfterResolve(o))
              /\ tracked' = tracked \ gone
           \/ \E p \in Ops, k \in Kinds :
                /\ kind[p] = None
                /\ kind' = [kind EXCEPT ![p] = k]
                /\ gor' = [gor EXCEPT ![o] = AfterResolve(o), ![p] = IF k = "timer" THEN "done" ELSE "io"]
                /\ tracked' = (tracked \ gone) \cup {p}
                /\ UNCHANGED awaits
    /\ UNCHANGED <<runtimeVars, wakeCh, closureVars, driverVars, due, events, streams, chunks, reader, bodyDone>>

(* On a closed runtime dispatch returns without calling the function. *)
ResolveNoop(o) ==
    /\ gor[o] = "resolve" /\ closed
    /\ GoTo(o, AfterResolve(o))
    /\ UNCHANGED <<quiet, wakeCh, tracked, events, streams, chunks, reader, settled, bodyDone>>

(* Variant: the non-blocking send is lost. *)
WakeNotSent(o) ==
    /\ gor[o] = "wake"
    /\ GoTo(o, IF kind[o] = "promise" \/ (kind[o] = "fetch" /\ o \in tracked) THEN "uncount" ELSE "done")
    /\ UNCHANGED <<quiet, wakeCh, tracked, events, streams, chunks, reader, settled, bodyDone>>

(* Wake: a non-blocking send on wakeCh. *)
Wake(o) ==
    /\ gor[o] = "wake"
    /\ GoTo(o, IF kind[o] = "promise" \/ (kind[o] = "fetch" /\ o \in tracked) THEN "uncount" ELSE "done")
    /\ wakeCh' = TRUE
    /\ UNCHANGED <<quiet, tracked, events, streams, chunks, reader, settled, bodyDone>>

Uncount(o) ==
    /\ gor[o] = "uncount" /\ GoTo(o, "done")
    /\ tracked' = tracked \ {o}
    /\ UNCHANGED <<quiet, wakeCh, events, streams, chunks, reader, settled, bodyDone>>

-----------------------------------------------------------------------------
(* Close of the runtime, as far as a driver can see it. *)

CloseBegin ==
    /\ MayClose /\ life = "open"
    /\ life' = "closed"
    /\ UNCHANGED <<onReady, wakeCh, closureVars, opVars, asyncVars, driverVars>>

(* closeAll: requests are cancelled and forgotten, and so are the streams.   *)
(* The backend qjswasm leaves its managers alone.                            *)
CloseManagers ==
    /\ life = "closed"
    /\ life' = "released"
    /\ \/ UNCHANGED <<tracked, streams, chunks>>
       \/ tracked' = tracked \ Of("fetch") /\ streams' = {} /\ chunks' = {}
    /\ UNCHANGED <<onReady, wakeCh, closureVars, asyncVars, driverVars,
                   kind, gor, due, events, reader, settled, bodyDone, awaits>>

CloseEnd ==
    /\ life = "released" /\ engine = None
    /\ life' = "down"
    /\ UNCHANGED <<onReady, wakeCh, closureVars, opVars, asyncVars, driverVars>>

-----------------------------------------------------------------------------
(* Drivers. *)

HasCtx(d) == mode[d] \in {"runCtx", "awaitCtx"}
Awaits(d) == mode[d] \in {"await", "awaitCtx"}
Again(d)  == IF HasCtx(d) THEN "top" ELSE "closure"

DriverTo(d, l) ==
    /\ pc' = [pc EXCEPT ![d] = l]
    /\ UNCHANGED ret

DriverReturns(d, r) ==
    /\ pc' = [pc EXCEPT ![d] = "returned"]
    /\ ret' = [ret EXCEPT ![d] = r]

(* RunEventLoop, EvalAsync, ... is called; a closed runtime is refused, and  *)
(* by EvalAsyncWithContext a context that is over already.                   *)
Call(d) ==
    /\ pc[d] = "start"
    /\ \E m \in Modes :
         /\ mode' = [mode EXCEPT ![d] = m]
         /\ \/ closed /\ DriverReturns(d, "closed")
            \/ ~closed /\ m = "awaitCtx" /\ DriverReturns(d, "ctxErr")
            \/ ~closed /\ DriverTo(d, CASE m = "run" -> "closure"
                                         [] m = "runCtx" -> "top"
                                         [] OTHER -> "setup")
    /\ UNCHANGED <<runtimeVars, wakeCh, closureVars, opVars, asyncVars, ctxDone, expired, verdict, sleepFor, got>>

(* The time given to a driver is over; the context it was given has ended. *)
Expire(d) ==
    /\ pc[d] \notin {"start", "returned"} /\ d \notin expired
    /\ expired' = expired \cup {d}
    /\ UNCHANGED <<runtimeVars, wakeCh, closureVars, opVars, asyncVars, pc, mode, ctxDone, verdict, sleepFor, ret, got>>

Cancel(d) ==
    /\ HasCtx(d) /\ pc[d] # "returned" /\ d \notin ctxDone
    /\ ctxDone' = ctxDone \cup {d}
    /\ UNCHANGED <<runtimeVars, wakeCh, closureVars, opVars, asyncVars, pc, mode, expired, verdict, sleepFor, ret, got>>

(* EvalAsync executes its setup script: it clears the globals and evaluates  *)
(* the code.  Its promise is settled at once, by an operation the code       *)
(* starts, or never.                                                         *)
Setup(d) ==
    /\ pc[d] = "setup" /\ ~down /\ engine = None
    /\ DriverTo(d, Again(d))
    /\ \/ /\ StartNothing /\ UNCHANGED tracked
          /\ asyncDone' = FALSE /\ asyncResult' = None
       \/ /\ StartNothing /\ UNCHANGED tracked
          /\ asyncDone' = TRUE /\ asyncResult' = d
       \/ \E o \in Ops, k \in Kinds :
            /\ Start(o, k, d) /\ tracked' = tracked \cup {o}
            /\ asyncDone' = FALSE /\ asyncResult' = None
    /\ UNCHANGED <<runtimeVars, wakeCh, closureVars, due, events, streams, chunks, reader, settled, bodyDone,
                   mode, ctxDone, expired, verdict, sleepFor, got>>

(* Exec refuses a runtime closed since, or its dispatch does nothing. *)
SetupClosed(d) ==
    /\ pc[d] = "setup" /\ closed
    /\ DriverReturns(d, "closed") \/ DriverTo(d, Again(d))
    /\ UNCHANGED <<runtimeVars, wakeCh, closureVars, opVars, asyncVars, mode, ctxDone, expired, verdict, sleepFor, got>>

(* The top of the loop of the variants that take a context. *)
Top(d) ==
    /\ pc[d] = "top"
    /\ IF d \in ctxDone THEN DriverReturns(d, "ctxErr") ELSE DriverTo(d, "closure")
    /\ UNCHANGED <<runtimeVars, wakeCh, closureVars, opVars, asyncVars, mode, ctxDone, expired, verdict, sleepFor, got>>

-----------------------------------------------------------------------------
(* The closure a driver dispatches, stage by stage. *)

ClosureBegin(d) ==
    /\ pc[d] = "closure" /\ engine = None /\ ~down
    /\ engine' = d /\ stage' = 1
    /\ UNCHANGED <<runtimeVars, wakeCh, opVars, asyncVars, driverVars>>

NextStage == stage' = stage + 1 /\ UNCHANGED engine

(* Variant: the next closure does not begin with the drains. *)
ClosureEndMidway(d, v) ==
    /\ engine' = None /\ stage' = stage + 1
    /\ verdict' = [verdict EXCEPT ![d] = v]
    /\ DriverTo(d, "decide")

ClosureEnd(d, v) ==
    /\ engine' = None /\ stage' = 1
    /\ verdict' = [verdict EXCEPT ![d] = v]
    /\ DriverTo(d, "decide")

(* On a closed runtime dispatch returns at once, and the local variables the *)
(* closure was to set keep their zero values: not done, nothing pending.     *)
ClosureNoop(d) ==
    /\ pc[d] = "closure" /\ engine # d /\ closed
    /\ verdict' = [verdict EXCEPT ![d] = "noop"]
    /\ DriverTo(d, "decide")
    /\ UNCHANGED <<runtimeVars, wakeCh, closureVars, opVars, asyncVars, mode, ctxDone, expired, sleepFor, got>>

(* Variant: the events that are delivered stay in the queue. *)
DrainQueueKeeps ==
    /\ engine # None /\ stage \in Drains /\ DrainOrder[stage] # "stream"
    /\ LET D == events \cap Of(DrainOrder[stage])
       IN  /\ Settle(D)
           /\ Callbacks(D, IF DrainOrder[stage] = "proc" THEN D ELSE {})
    /\ NextStage
    /\ UNCHANGED <<runtimeVars, wakeCh, due, events, streams, chunks, reader, bodyDone, driverVars>>

(* tickManagers: each manager's events are taken and delivered.              *)
(* processManager forgets the processes whose exit it delivers.              *)
DrainQueue ==
    /\ engine # None /\ stage \in Drains /\ DrainOrder[stage] # "stream"
    /\ LET D == events \cap Of(DrainOrder[stage])
       IN  /\ events' = events \ D
           /\ Settle(D)
           /\ Callbacks(D, IF DrainOrder[stage] = "proc" THEN D ELSE {})
    /\ NextStage
    /\ UNCHANGED <<runtimeVars, wakeCh, due, streams, chunks, reader, bodyDone, driverVars>>

(* streamManager forgets the streams whose final chunk it delivers. *)
DrainStreams ==
    /\ engine # None /\ stage \in Drains /\ DrainOrder[stage] = "stream"
    /\ chunks' = {} /\ streams' = streams \ chunks
    /\ bodyDone' = bodyDone \cup chunks
    /\ Callbacks(chunks, {})
    /\ NextStage
    /\ UNCHANGED <<runtimeVars, wakeCh, due, events, reader, settled, asyncVars, driverVars>>

(* Variants: one of the two looks at __asyncDone is missing. *)
LookDoneMissing(d) ==
    /\ engine = d /\ stage = DoneStage
    /\ NextStage
    /\ UNCHANGED <<runtimeVars, wakeCh, opVars, asyncVars, driverVars>>

LookAgainMissing(d) ==
    /\ engine = d /\ stage = AgainStage
    /\ NextStage
    /\ UNCHANGED <<runtimeVars, wakeCh, opVars, asyncVars, driverVars>>

(* awaitAsyncResult looks at __asyncDone before the timers and takes the     *)
(* result; RunEventLoop does not look.                                       *)
LookDone(d) ==
    /\ engine = d /\ stage = DoneStage
    /\ IF Awaits(d) /\ asyncDone
         THEN ClosureEnd(d, "done") /\ got' = [got EXCEPT ![d] = asyncResult]
         ELSE NextStage /\ UNCHANGED <<verdict, pc, ret, got>>
    /\ UNCHANGED <<runtimeVars, wakeCh, opVars, asyncVars, mode, ctxDone, expired, sleepFor>>

(* __eventLoop.tick(): the timers that are due now fire; a timer one of them *)
(* starts is not among them.  Exceptions of callbacks are swallowed.         *)
Tick ==
    /\ engine # None /\ stage = TickStage
    /\ due' = {}
    /\ Settle(due)
    /\ Callbacks(due, due)
    /\ NextStage
    /\ UNCHANGED <<runtimeVars, wakeCh, events, streams, chunks, reader, bodyDone, driverVars>>

(* awaitAsyncResult looks again after the timers, and goes round once more. *)
LookAgain(d) ==
    /\ engine = d /\ stage = AgainStage
    /\ IF Awaits(d) /\ asyncDone
         THEN ClosureEnd(d, "recheck")
         ELSE NextStage /\ UNCHANGED <<verdict, pc, ret>>
    /\ UNCHANGED <<runtimeVars, wakeCh, opVars, asyncVars, mode, ctxDone, expired, sleepFor, got>>

(* hasPendingLocked: what each manager answers. *)
Active(m) ==
    CASE m = "fsEvents" -> events \cap Of("fs") # {}
      [] m = "stream"   -> streams # {}
      [] OTHER          -> tracked \cap Of(m) # {}

(* nextDelay: the loop sleeps for its timers when it has any and none is due. *)
Timers == tracked \cap Of("timer")

Check(d) ==
    /\ engine = d /\ stage \in CheckAt(1)..LastStage
    /\ LET m == CheckOrder[stage - AgainStage]
       IN  IF Active(m)
             THEN /\ ClosureEnd(d, "pending")
                  /\ sleepFor' = [sleepFor EXCEPT ![d] = IF due = {} THEN Timers ELSE {}]
             ELSE /\ UNCHANGED sleepFor
                  /\ IF stage = LastStage THEN ClosureEnd(d, "idle")
                     ELSE NextStage /\ UNCHANGED <<verdict, pc, ret>>
    /\ UNCHANGED <<runtimeVars, wakeCh, opVars, asyncVars, mode, ctxDone, expired, got>>

-----------------------------------------------------------------------------
(* What a driver does with the outcome. *)

(* Nothing pending: the loop fires OnReady and returns nil; EvalAsync gives  *)
(* up with "Promise did not resolve and no pending timers".                  *)
DecideIdle(d) ==
    /\ pc[d] = "decide" /\ verdict[d] \in {"idle", "noop"}
    /\ DriverReturns(d, IF Awaits(d) THEN "stuck" ELSE "nil")
    /\ onReady' = IF ~Awaits(d) /\ onReady = "set" THEN "fired" ELSE onReady
    /\ UNCHANGED <<life, wakeCh, closureVars, opVars, asyncVars, mode, ctxDone, expired, verdict, sleepFor, got>>

Decide(d) ==
    /\ pc[d] = "decide"
    /\ \/ verdict[d] = "done" /\ DriverReturns(d, "value")
       \/ verdict[d] = "recheck" /\ DriverTo(d, Again(d))
       \/ verdict[d] = "pending" /\ d \in expired
            /\ DriverReturns(d, IF d \in ctxDone THEN "ctxErr" ELSE "timeout")
       \/ verdict[d] = "pending" /\ d \notin expired /\ DriverTo(d, "sleep")
    /\ UNCHANGED <<runtimeVars, wakeCh, closureVars, opVars, asyncVars, mode, ctxDone, expired, verdict, sleepFor, got>>

(* The select at the end of the loop: token, timer (never later than the     *)
(* deadline), or context.                                                    *)
Elapsed(d) == sleepFor[d] = {} \/ sleepFor[d] \cap (due \cup settled) # {} \/ d \in expired

WakeByToken(d) ==
    /\ pc[d] = "sleep" /\ wakeCh
    /\ wakeCh' = FALSE
    /\ DriverTo(d, Again(d))
    /\ UNCHANGED <<runtimeVars, closureVars, opVars, asyncVars, mode, ctxDone, expired, verdict, sleepFor, got>>

WakeByTimer(d) ==
    /\ pc[d] = "sleep" /\ Elapsed(d)
    /\ DriverTo(d, Again(d))
    /\ UNCHANGED <<runtimeVars, wakeCh, closureVars, opVars, asyncVars, mode, ctxDone, expired, verdict, sleepFor, got>>

WakeByContext(d) ==
    /\ pc[d] = "sleep" /\ d \in ctxDone
    /\ DriverReturns(d, "ctxErr")
    /\ UNCHANGED <<runtimeVars, wakeCh, closureVars, opVars, asyncVars, mode, ctxDone, expired, verdict, sleepFor, got>>

-----------------------------------------------------------------------------
(* Steps a goroutine takes once the outside world has answered. *)
Proceed(o) ==
    \/ FsPost(o) \/ FetchPost(o) \/ ReaderWake(o) \/ WakeFirst(o)
    \/ ResolveNoop(o) \/ Wake(o) \/ Uncount(o)

(* Steps the outside world takes. *)
Outside(o) ==
    \/ TimerDue(o) \/ ProcExit(o) \/ FsUncount(o) \/ FetchFails(o) \/ FetchResponds(o)
    \/ BodyEnds(o) \/ Awaited(o)

InClosure(d) == engine = d /\ (DrainQueue \/ DrainStreams \/ LookDone(d) \/ Tick \/ LookAgain(d) \/ Check(d))

DriverStep(d) ==
    \/ Setup(d) \/ SetupClosed(d) \/ Top(d) \/ ClosureBegin(d) \/ ClosureNoop(d)
    \/ InClosure(d) \/ DecideIdle(d) \/ Decide(d)
    \/ WakeByToken(d) \/ WakeByTimer(d) \/ WakeByContext(d)

Next ==
    \/ \E o \in Ops, k \in Kinds : ExecStart(o, k)
    \/ \E o \in Ops : Proceed(o) \/ Resolve(o) \/ Outside(o)
    \/ \E d \in Drivers : Call(d) \/ Expire(d) \/ Cancel(d) \/ DriverStep(d)
    \/ CloseBegin \/ CloseManagers \/ CloseEnd

Spec == Init /\ [][Next]_vars

(* A goroutine that has its answer goes on, and so does a driver.  A function *)
(* sent to the engine goroutine is reached in the order of callCh, although   *)
(* others are sent meanwhile: strong fairness of Resolve, Setup and           *)
(* ClosureBegin.  Nothing outside is fair: a timer that lies far ahead need   *)
(* not come due, nor a deadline, so a sleep for it must be ended by a token.  *)
Fairness ==
    /\ \A o \in Ops : WF_vars(Proceed(o)) /\ SF_vars(Resolve(o))
    /\ \A d \in Drivers :
         /\ WF_vars(DriverStep(d))
         /\ SF_vars(ClosureBegin(d)) /\ SF_vars(Setup(d))

FairSpec == Spec /\ Fairness
=============================================================================

------------------------------- MODULE Engine -------------------------------
(***************************************************************************)
(* The engine goroutine of a Runtime: every JavaScript operation is a Go   *)
(* function sent over callCh to one goroutine pinned to an OS thread       *)
(* (jscLoop, gojaLoop, qjswasmLoop), which runs them one at a time until   *)
(* stopCh is closed.  dispatch sends a function and waits for it; Close    *)
(* stops the goroutine, while other goroutines may still be calling.       *)
(*                                                                         *)
(* The three backends differ in dispatch and in Close.  The backend is a   *)
(* variable that never changes, so that one specification covers them.     *)
(* A call is one invocation of the API: Eval, Exec, GlobalObject, ... or a *)
(* dispatch of the runtime's own goroutines (the promise bridges).         *)
(***************************************************************************)
EXTENDS Integers, Sequences, FiniteSets

CONSTANTS
    Calls,      \* API calls, each made by a goroutine of its own
    Closers,    \* calls of Close
    Backends,   \* the backends considered
    CallCap,    \* capacity of callCh (64 in the code)
    Cleanup,    \* the function Close of the JSC backend sends to release the context
    None        \* no function, no goroutine

ASSUME EngineAssumption ==
    /\ CallCap \in Nat \ {0}
    /\ Backends \subseteq {"jsc", "goja", "qjswasm"}
    /\ Cleanup \notin Calls
    /\ None \notin Calls \cup Closers \cup {Cleanup, "done"}
    /\ "done" \notin Closers

VARIABLES
    backend,    \* the backend this Runtime is built for
    closed,     \* r.closed
    callCh,     \* functions sent and not yet received, named by their call
    loop,       \* where the engine goroutine is
    running,    \* the function it is executing
    calledBack, \* that function has already called back into Go
    stopped,    \* stopCh is closed
    released,   \* the JS context has been released
    pc,         \* where each call is
    withCtx,    \* the calls that are calls of EvalWithContext
    result,     \* what each call returned
    runs,       \* how often the function of each call has been executed
    once,       \* r.closeOnce: None, the goroutine inside Do, or "done"
    cpc         \* where each call of Close is

vars == <<backend, closed, callCh, loop, running, calledBack, stopped, released,
          pc, withCtx, result, runs, once, cpc>>

loopVars   == <<loop, running, calledBack, released, runs>>
callVars   == <<pc, withCtx, result>>
closeVars  == <<closed, stopped, once, cpc>>

Fns == Calls \cup {Cleanup}

TypeOK ==
    /\ backend \in Backends
    /\ closed \in BOOLEAN
    /\ callCh \in Seq(Fns) /\ Len(callCh) <= CallCap
    /\ loop \in {"select", "run", "callback", "exited"}
    /\ running \in Fns \cup {None}
    /\ calledBack \in BOOLEAN
    /\ stopped \in BOOLEAN
    /\ released \in BOOLEAN
    /\ pc \in [Calls -> {"start", "dispatch", "send", "wait", "returned"}]
    /\ withCtx \in SUBSET Calls
    /\ result \in [Calls -> {"none", "value", "closedError", "nothing", "ctxErr"}]
    /\ runs \in [Calls -> Nat]
    /\ once \in Closers \cup {None, "done"}
    /\ cpc \in [Closers -> {"start", "sendCleanup", "waitCleanup", "stop", "join", "returned"}]

Init ==
    /\ backend \in Backends
    /\ closed = FALSE
    /\ callCh = << >>
    /\ loop = "select"
    /\ running = None
    /\ calledBack = FALSE
    /\ stopped = FALSE
    /\ released = FALSE
    /\ pc = [c \in Calls |-> "start"]
    /\ withCtx = {}
    /\ result = [c \in Calls |-> "none"]
    /\ runs = [c \in Calls |-> 0]
    /\ once = None
    /\ cpc = [x \in Closers |-> "start"]

-----------------------------------------------------------------------------
(* Calls *)

(* In qjswasm the goroutine left behind by a cancelled call has nobody to answer. *)
Return(c, r) ==
    /\ pc' = [pc EXCEPT ![c] = "returned"]
    /\ result' = [result EXCEPT ![c] = IF @ = "ctxErr" THEN @ ELSE r]

Goto(c, l) ==
    /\ pc' = [pc EXCEPT ![c] = l]
    /\ UNCHANGED result

(* Eval, Exec, GlobalObject, NewObject, ...: refuse a closed runtime, then    *)
(* dispatch.  EvalWithContext of qjswasm does the same in a goroutine.        *)
Eval(c) ==
    /\ pc[c] = "start"
    /\ IF closed THEN Return(c, "closedError") ELSE Goto(c, "dispatch")
    /\ \/ UNCHANGED withCtx
       \/ backend = "qjswasm" /\ withCtx' = withCtx \cup {c}
    /\ UNCHANGED <<backend, callCh, loopVars, closeVars>>

(* A goroutine of the runtime itself (a promise bridge, an Atomics.waitAsync *)
(* waiter) dispatches without looking at r.closed first.                     *)
Bridge(c) ==
    /\ pc[c] = "start"
    /\ Goto(c, "dispatch")
    /\ UNCHANGED <<backend, callCh, withCtx, loopVars, closeVars>>

(* EvalWithContext of goja looks at r.closed and sends the function itself.  *)
EvalWithContextGoja(c) ==
    /\ backend = "goja"
    /\ pc[c] = "start"
    /\ ~closed
    /\ Goto(c, "send")
    /\ withCtx' = withCtx \cup {c}
    /\ UNCHANGED <<backend, callCh, loopVars, closeVars>>

(* Variant: callCh without a capacity. *)
EnqueueUnbounded(f) == callCh' = Append(callCh, f)

Enqueue(f) ==
    /\ Len(callCh) < CallCap
    /\ callCh' = Append(callCh, f)

(* dispatch of the JSC backend selects between the send and doneCh. *)
DispatchSendJSC(c) ==
    /\ backend = "jsc"
    /\ pc[c] = "dispatch"
    /\ Enqueue(c)
    /\ Goto(c, "wait")
    /\ UNCHANGED <<backend, withCtx, loopVars, closeVars>>

DispatchDoneJSC(c) ==
    /\ backend = "jsc"
    /\ pc[c] = "dispatch"
    /\ loop = "exited"
    /\ Return(c, "nothing")
    /\ UNCHANGED <<backend, callCh, withCtx, loopVars, closeVars>>

(* dispatch of goja and qjswasm looks at r.closed, then sends without a way out. *)
DispatchChecked(c) ==
    /\ backend # "jsc"
    /\ pc[c] = "dispatch"
    /\ IF closed THEN Return(c, "nothing") ELSE Goto(c, "send")
    /\ UNCHANGED <<backend, callCh, withCtx, loopVars, closeVars>>

Send(c) ==
    /\ pc[c] = "send"
    /\ Enqueue(c)
    /\ Goto(c, "wait")
    /\ UNCHANGED <<backend, withCtx, loopVars, closeVars>>

(* Variant: the wait is also given up when stopCh is closed. *)
WaitDoneOrStop(c) ==
    /\ pc[c] = "wait"
    /\ \/ runs[c] > 0 /\ Return(c, "value")
       \/ stopped /\ Return(c, "nothing")
    /\ UNCHANGED <<backend, callCh, withCtx, loopVars, closeVars>>

(* The function ends with close(done): one execution is enough to see it closed. *)
WaitDone(c) ==
    /\ pc[c] = "wait"
    /\ runs[c] > 0
    /\ Return(c, "value")
    /\ UNCHANGED <<backend, callCh, withCtx, loopVars, closeVars>>

(* The context of an EvalWithContext ends.  The function stays wherever it is: *)
(* goja stops waiting for done, qjswasm leaves its goroutine to wait for it.   *)
CtxDone(c) ==
    /\ c \in withCtx
    /\ result[c] = "none"
    /\ pc[c] \in (IF backend = "goja" THEN {"wait"} ELSE {"dispatch", "send", "wait"})
    /\ pc' = [pc EXCEPT ![c] = IF backend = "goja" THEN "returned" ELSE @]
    /\ result' = [result EXCEPT ![c] = "ctxErr"]
    /\ UNCHANGED <<backend, callCh, withCtx, loopVars, closeVars>>

-----------------------------------------------------------------------------
(* The engine goroutine *)

(* Variant: the function received is left in the channel. *)
LoopReceiveKeeps ==
    /\ loop = "select"
    /\ callCh # << >>
    /\ running' = Head(callCh)
    /\ loop' = "run"
    /\ calledBack' = FALSE
    /\ UNCHANGED <<backend, callCh, released, runs, callVars, closeVars>>

LoopReceive ==
    /\ loop = "select"
    /\ callCh # << >>
    /\ running' = Head(callCh)
    /\ callCh' = Tail(callCh)
    /\ loop' = "run"
    /\ calledBack' = FALSE
    /\ UNCHANGED <<backend, released, runs, callVars, closeVars>>

(* The JavaScript being run calls a registered Go function, which dispatches. *)
LoopCallback ==
    /\ loop = "run"
    /\ running \in Calls
    /\ ~calledBack
    /\ loop' = "callback"
    /\ calledBack' = TRUE
    /\ UNCHANGED <<backend, callCh, running, released, runs, callVars, closeVars>>

(* Variant: the engine goroutine sends to itself and waits. *)
LoopReentrantSends ==
    /\ loop = "callback"
    /\ UNCHANGED vars

(* dispatch on the engine goroutine: the function is called in place (or, on *)
(* a closed goja or qjswasm runtime, not called); nothing is sent.           *)
LoopReentrant ==
    /\ loop = "callback"
    /\ loop' = "run"
    /\ UNCHANGED <<backend, callCh, running, calledBack, released, runs, callVars, closeVars>>

LoopFinish ==
    /\ loop = "run"
    /\ IF running = Cleanup
         THEN released' = TRUE /\ UNCHANGED runs
         ELSE runs' = [runs EXCEPT ![running] = @ + 1] /\ UNCHANGED released
    /\ running' = None
    /\ loop' = "select"
    /\ UNCHANGED <<backend, callCh, calledBack, callVars, closeVars>>

(* The select may prefer stopCh to a function still in callCh.  qjswasm tears *)
(* its interpreter down here; the deferred close(doneCh) comes last.          *)
LoopStop ==
    /\ loop = "select"
    /\ stopped
    /\ loop' = "exited"
    /\ released' = (released \/ backend = "qjswasm")
    /\ UNCHANGED <<backend, callCh, running, calledBack, runs, callVars, closeVars>>

-----------------------------------------------------------------------------
(* Close *)

CloseGoto(x, l) == cpc' = [cpc EXCEPT ![x] = l]

(* JSC: closeOnce.Do; the first caller sets closed and closes the managers. *)
CloseEnterJSC(x) ==
    /\ backend = "jsc"
    /\ cpc[x] = "start"
    /\ once = None
    /\ once' = x
    /\ closed' = TRUE
    /\ CloseGoto(x, "sendCleanup")
    /\ UNCHANGED <<backend, callCh, loopVars, callVars, stopped>>

(* JSC: any other caller waits inside closeOnce.Do until the first is through. *)
CloseAgainJSC(x) ==
    /\ backend = "jsc"
    /\ cpc[x] = "start"
    /\ once = "done"
    /\ CloseGoto(x, "returned")
    /\ UNCHANGED <<backend, callCh, loopVars, callVars, closed, stopped, once>>

CloseSendCleanup(x) ==
    /\ cpc[x] = "sendCleanup"
    /\ Enqueue(Cleanup)
    /\ CloseGoto(x, "waitCleanup")
    /\ UNCHANGED <<backend, loopVars, callVars, closed, stopped, once>>

CloseCleanupDone(x) ==
    /\ cpc[x] = "waitCleanup"
    /\ released
    /\ CloseGoto(x, "stop")
    /\ UNCHANGED <<backend, callCh, loopVars, callVars, closed, stopped, once>>

(* goja, qjswasm: closed.Swap(true) decides; whoever is late returns at once. *)
CloseSwap(x) ==
    /\ backend # "jsc"
    /\ cpc[x] = "start"
    /\ IF closed
         THEN CloseGoto(x, "returned") /\ UNCHANGED <<closed, once>>
         ELSE CloseGoto(x, "stop") /\ closed' = TRUE /\ once' = x
    /\ UNCHANGED <<backend, callCh, loopVars, callVars, stopped>>

(* Variant: stopCh is not closed. *)
CloseStopForgotten(x) ==
    /\ cpc[x] = "stop"
    /\ CloseGoto(x, "join")
    /\ UNCHANGED <<backend, callCh, loopVars, callVars, closed, stopped, once>>

CloseStop(x) ==
    /\ cpc[x] = "stop"
    /\ stopped' = TRUE
    /\ CloseGoto(x, "join")
    /\ UNCHANGED <<backend, callCh, loopVars, callVars, closed, once>>

(* Variant: Close does not wait for doneCh. *)
CloseWithoutJoin(x) ==
    /\ cpc[x] = "join"
    /\ once' = "done"
    /\ CloseGoto(x, "returned")
    /\ UNCHANGED <<backend, callCh, loopVars, callVars, closed, stopped>>

CloseJoin(x) ==
    /\ cpc[x] = "join"
    /\ loop = "exited"
    /\ once' = "done"
    /\ CloseGoto(x, "returned")
    /\ UNCHANGED <<backend, callCh, loopVars, callVars, closed, stopped>>

-----------------------------------------------------------------------------
CallStep(c) ==
    \/ Eval(c) \/ Bridge(c) \/ EvalWithContextGoja(c)
    \/ DispatchSendJSC(c) \/ DispatchDoneJSC(c) \/ DispatchChecked(c)
    \/ Send(c) \/ WaitDone(c) \/ CtxDone(c)

LoopStep == LoopReceive \/ LoopCallback \/ LoopReentrant \/ LoopFinish \/ LoopStop

CloseStep(x) ==
    \/ CloseEnterJSC(x) \/ CloseAgainJSC(x) \/ CloseSendCleanup(x) \/ CloseCleanupDone(x)
    \/ CloseSwap(x) \/ CloseStop(x) \/ CloseJoin(x)

Next ==
    \/ \E c \in Calls : CallStep(c)
    \/ LoopStep
    \/ \E x \in Closers : CloseStep(x)

Spec == Init /\ [][Next]_vars

(* A call that has begun goes on, and so does a Close.  Strong fairness of a  *)
(* send: Go queues blocked senders in arrival order, so one that waits for    *)
(* room in callCh is not overtaken for ever.  Nobody has to call Close, and a *)
(* context need not end.                                                      *)
Fairness ==
    /\ WF_vars(LoopStep)
    /\ \A c \in Calls :
         /\ WF_vars(DispatchDoneJSC(c) \/ DispatchChecked(c) \/ WaitDone(c))
         /\ SF_vars(DispatchSendJSC(c) \/ Send(c))
    /\ \A x \in Closers :
         /\ WF_vars(cpc[x] # "start" /\ CloseStep(x))
         /\ SF_vars(CloseSendCleanup(x))
         /\ WF_vars(CloseAgainJSC(x))

FairSpec == Spec /\ Fairness
=============================================================================

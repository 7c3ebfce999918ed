---------------------------- MODULE EngineProps ----------------------------
(* What callers of a Runtime may rely on: properties of module Engine. *)
EXTENDS Engine

InChannel(f) == \E i \in DOMAIN callCh : callCh[i] = f
Nowhere(f)   == ~InChannel(f) /\ running # f

(* Where a function that was sent may be. *)
Sent(c)     == InChannel(c) /\ running # c /\ runs[c] = 0
Running(c)  == ~InChannel(c) /\ running = c /\ runs[c] = 0
Executed(c) == Nowhere(c) /\ runs[c] = 1

(***************************************************************************)
(* dispatch hands each function over exactly once, whatever backend and    *)
(* however sends, Close and the select of the loop interleave: a caller    *)
(* that waits for done has its function in callCh, or executing, or done,  *)
(* and no function is in callCh twice.                                     *)
(***************************************************************************)
NoLostCall ==
    /\ \A i, j \in DOMAIN callCh : callCh[i] = callCh[j] => i = j
    /\ \A c \in Calls : pc[c] = "wait" => Sent(c) \/ Running(c) \/ Executed(c)

(***************************************************************************)
(* Answers are honest: a call that reports a value was executed, once; one *)
(* that was refused (ErrAlreadyClosed) or came back empty-handed never is, *)
(* not even later, and this only happens to a runtime being closed.        *)
(***************************************************************************)
HonestAnswers ==
    \A c \in Calls :
        /\ result[c] = "value" => runs[c] = 1
        /\ result[c] \in {"closedError", "nothing"} => closed /\ Nowhere(c) /\ runs[c] = 0

(***************************************************************************)
(* Close joins: when the call of Close that won closeOnce has returned,    *)
(* the engine goroutine has exited and executes nothing, and the context   *)
(* has been released (goja has none to release).  In the JSC backend this  *)
(* holds for every call of Close, because the others wait in closeOnce.Do. *)
(***************************************************************************)
CloseJoins ==
    \A x \in Closers :
        cpc[x] = "returned" /\ (backend = "jsc" \/ once = "done") =>
            loop = "exited" /\ running = None /\ (backend # "goja" => released)

(***************************************************************************)
(* The JSC context is released at most once and before the goroutine goes: *)
(* however often Close is called, its cleanup function is sent once, and   *)
(* stopCh is closed after it ran.                                          *)
(***************************************************************************)
CleanupOnce ==
    backend = "jsc" =>
        /\ stopped => released
        /\ released => Nowhere(Cleanup)
        /\ running = Cleanup => ~InChannel(Cleanup)

(***************************************************************************)
(* Close never waits for what cannot come any more: while it still has to  *)
(* send its cleanup function, the engine goroutine has not been told to    *)
(* stop; while it waits for that function, the function is in callCh,      *)
(* executing, or done; and it waits for doneCh only after closing stopCh.  *)
(***************************************************************************)
CloseInHand ==
    \A x \in Closers :
        /\ cpc[x] = "sendCleanup" => ~stopped /\ loop # "exited"
        /\ cpc[x] = "waitCleanup" =>
             /\ InChannel(Cleanup) \/ running = Cleanup \/ released
             /\ ~stopped /\ loop # "exited"
        /\ cpc[x] = "join" => stopped

CleanShutdown == CloseJoins /\ CleanupOnce /\ CloseInHand

(***************************************************************************)
(* Engine implements Dispatcher: whatever callCh, the selects and the two  *)
(* ways of Close do, callers see functions executed one at a time, at most *)
(* once, and answers that stay true: what was refused is not executed      *)
(* later, and nothing is executed once Close has come back.                *)
(***************************************************************************)
Busy == IF running \in Calls THEN running ELSE None

Told(r) ==
    CASE r \in {"closedError", "nothing"} -> "refused"
      [] r = "ctxErr" -> "gone"
      [] OTHER -> r

D == INSTANCE Dispatcher WITH
        Nobody <- None,
        open   <- ~closed,
        busy   <- Busy,
        done   <- {c \in Calls : runs[c] > 0},
        answer <- [c \in Calls |-> Told(result[c])],
        down   <- loop = "exited",
        joined <- once = "done"

ImplementsDispatcher == D!Spec

(***************************************************************************)
(* As long as nobody closes the runtime, every dispatched call comes back: *)
(* also when its function calls back into Go and dispatches again.         *)
(***************************************************************************)
CallsReturn == \A c \in Calls : pc[c] = "dispatch" ~> (pc[c] = "returned" \/ closed)

(***************************************************************************)
(* Close comes back although other goroutines keep callCh full.            *)
(***************************************************************************)
CloseReturns == \A x \in Closers : (cpc[x] # "start") ~> (cpc[x] = "returned")

(***************************************************************************)
(* "dispatch sends fn to the dedicated JSC goroutine and blocks until it   *)
(* completes" (engine_jsc.go:852): a function that was sent is executed.   *)
(***************************************************************************)
SentIsExecuted == \A c \in Calls : pc[c] = "wait" ~> pc[c] = "returned"
=============================================================================

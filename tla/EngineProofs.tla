---------------------------- MODULE EngineProofs ----------------------------
(***************************************************************************)
(* Proofs that the safety properties of EngineProps hold for every set of  *)
(* calls and of closers, every capacity of callCh and every backend.       *)
(***************************************************************************)
EXTENDS EngineProps, ChannelLemmas, TLAPS

-----------------------------------------------------------------------------
(* Where the function of a call is, by what the call has come to. *)
CallInv ==
    \A c \in Calls :
        /\ pc[c] \in {"start", "dispatch", "send"} => Nowhere(c) /\ runs[c] = 0
        /\ pc[c] = "wait" => Sent(c) \/ Running(c) \/ Executed(c)
        /\ Sent(c) \/ Running(c) \/ Executed(c) \/ (Nowhere(c) /\ runs[c] = 0)
        /\ result[c] \in {"value", "closedError", "nothing"} => pc[c] = "returned"
        /\ pc[c] = "start" => result[c] = "none"
        /\ result[c] = "value" => Executed(c)
        /\ result[c] \in {"closedError", "nothing"} => closed /\ Nowhere(c) /\ runs[c] = 0

(* Where the engine goroutine is. *)
LoopInv ==
    /\ NoRepeat(callCh)
    /\ loop \in {"run", "callback"} <=> running # None
    /\ loop = "exited" => stopped
    /\ loop = "exited" /\ backend = "qjswasm" => released

(* How far Close has come: at most one goroutine is in it, the one in once. *)
CloseInv ==
    /\ closed <=> once # None
    /\ \A x \in Closers :
         /\ cpc[x] \in {"sendCleanup", "waitCleanup", "stop", "join"} => once = x
         /\ cpc[x] = "returned" /\ backend = "jsc" => once = "done"
         /\ cpc[x] = "join" => stopped
    /\ once = "done" => loop = "exited"
    /\ stopped => \/ once = "done"
                  \/ once \in Closers /\ cpc[once] = "join"
    /\ once \in Closers => cpc[once] \in {"sendCleanup", "waitCleanup", "stop", "join"}

(* Where the cleanup function of the JSC backend is. *)
CleanupInv ==
    /\ backend # "jsc" =>
         /\ Nowhere(Cleanup)
         /\ \A x \in Closers : cpc[x] \notin {"sendCleanup", "waitCleanup"}
    /\ backend = "jsc" /\ once = None => Nowhere(Cleanup) /\ ~released
    /\ \A x \in Closers : cpc[x] = "sendCleanup" => Nowhere(Cleanup) /\ ~released
    /\ \A x \in Closers : backend = "jsc" /\ cpc[x] \in {"stop", "join"} => released
    /\ backend = "jsc" /\ once = "done" => released
    /\ backend = "jsc" /\ released => Nowhere(Cleanup)
    /\ running = Cleanup => ~InChannel(Cleanup)
    /\ \A x \in Closers : cpc[x] = "waitCleanup" => ~Nowhere(Cleanup) \/ released

IInv == TypeOK /\ CallInv /\ LoopInv /\ CloseInv /\ CleanupInv

LEMMA InitIInv == Init => IInv
  <1> SUFFICES ASSUME Init PROVE IInv
    OBVIOUS
  <1> USE EngineAssumption DEF Init
  <1>1. TypeOK
    <2>1. callCh \in Seq(Fns) /\ Len(callCh) <= CallCap
      OBVIOUS
    <2> QED
      BY <2>1 DEF TypeOK
  <1>2. \A f : ~InChannel(f)
    BY DEF InChannel
  <1>3. CallInv /\ CleanupInv
    BY <1>2 DEF CallInv, CleanupInv, Nowhere
  <1>4. LoopInv /\ CloseInv
    BY DEF LoopInv, CloseInv, NoRepeat
  <1> QED
    BY <1>1, <1>3, <1>4 DEF IInv

(* What each kind of step does to the channel, in the terms of the invariant. *)
LEMMA EnqueueStep ==
    ASSUME TypeOK, NoRepeat(callCh), NEW f \in Fns, Enqueue(f), ~InChannel(f)
    PROVE  /\ callCh' \in Seq(Fns) /\ Len(callCh') <= CallCap
           /\ NoRepeat(callCh')
           /\ \A g : InChannel(g)' <=> InChannel(g) \/ g = f
  <1>1. callCh \in Seq(Fns) /\ callCh' = Append(callCh, f) /\ Len(callCh) < CallCap
    BY DEF TypeOK, Enqueue
  <1>2. ~Holds(callCh, f)
    BY DEF InChannel, Holds
  <1>3. /\ callCh' \in Seq(Fns)
        /\ \A g : Holds(callCh', g) <=> Holds(callCh, g) \/ g = f
        /\ NoRepeat(callCh')
    BY <1>1, <1>2, AppendHolds
  <1>4. Len(callCh') <= CallCap
    BY <1>1, EngineAssumption
  <1> QED
    BY <1>3, <1>4 DEF InChannel, Holds

LEMMA ReceiveStep ==
    ASSUME TypeOK, NoRepeat(callCh), callCh # << >>, callCh' = Tail(callCh)
    PROVE  /\ callCh' \in Seq(Fns) /\ Len(callCh') <= CallCap
           /\ Head(callCh) \in Fns
           /\ InChannel(Head(callCh))
           /\ NoRepeat(callCh')
           /\ \A g : InChannel(g)' <=> InChannel(g) /\ g # Head(callCh)
  <1>1. callCh \in Seq(Fns) /\ Len(callCh) <= CallCap
    BY DEF TypeOK
  <1>2. /\ Head(callCh) \in Fns
        /\ callCh' \in Seq(Fns)
        /\ Len(callCh') <= Len(callCh)
        /\ Holds(callCh, Head(callCh))
        /\ \A g : Holds(callCh', g) <=> Holds(callCh, g) /\ g # Head(callCh)
        /\ NoRepeat(callCh')
    BY <1>1, TailHolds
  <1>3. Len(callCh') <= CallCap
    BY <1>1, <1>2, EngineAssumption
  <1> QED
    BY <1>2, <1>3 DEF InChannel, Holds

-----------------------------------------------------------------------------
LEMMA StepIInv == IInv /\ [Next]_vars => IInv'
  <1> SUFFICES ASSUME IInv, [Next]_vars PROVE IInv'
    OBVIOUS
  <1> USE EngineAssumption DEF IInv
  <1>0. ASSUME UNCHANGED callCh
        PROVE  \A g : InChannel(g)' <=> InChannel(g)
    BY <1>0 DEF InChannel
  <1>1. ASSUME NEW c \in Calls, Eval(c) PROVE IInv'
    <2>1. callCh' = callCh /\ \A g : InChannel(g)' <=> InChannel(g)
      BY <1>1, <1>0 DEF Eval
    <2>2. TypeOK'
      BY <1>1, <2>1 DEF Eval, Return, Goto, loopVars, closeVars, TypeOK
    <2>3. CallInv'
      BY <1>1, <2>1 DEF Eval, Return, Goto, loopVars, closeVars, TypeOK, CallInv, Nowhere, Sent, Running, Executed
    <2>4. LoopInv'
      BY <1>1, <2>1 DEF Eval, Return, Goto, loopVars, closeVars, TypeOK, LoopInv
    <2>5. CloseInv'
      BY <1>1, <2>1 DEF Eval, Return, Goto, loopVars, closeVars, TypeOK, LoopInv, CloseInv
    <2>6. CleanupInv'
      BY <1>1, <2>1 DEF Eval, Return, Goto, loopVars, closeVars, TypeOK, CloseInv, CleanupInv, Nowhere
    <2> QED
      BY <2>2, <2>3, <2>4, <2>5, <2>6
  <1>2. ASSUME NEW c \in Calls, Bridge(c) PROVE IInv'
    <2>1. callCh' = callCh /\ \A g : InChannel(g)' <=> InChannel(g)
      BY <1>2, <1>0 DEF Bridge
    <2>2. TypeOK'
      BY <1>2, <2>1 DEF Bridge, Goto, loopVars, closeVars, TypeOK
    <2>3. CallInv'
      BY <1>2, <2>1 DEF Bridge, Goto, loopVars, closeVars, TypeOK, CallInv, Nowhere, Sent, Running, Executed
    <2>4. LoopInv'
      BY <1>2, <2>1 DEF Bridge, Goto, loopVars, closeVars, TypeOK, LoopInv
    <2>5. CloseInv'
      BY <1>2, <2>1 DEF Bridge, Goto, loopVars, closeVars, TypeOK, LoopInv, CloseInv
    <2>6. CleanupInv'
      BY <1>2, <2>1 DEF Bridge, Goto, loopVars, closeVars, TypeOK, CloseInv, CleanupInv, Nowhere
    <2> QED
      BY <2>2, <2>3, <2>4, <2>5, <2>6
  <1>3. ASSUME NEW c \in Calls, EvalWithContextGoja(c) PROVE IInv'
    <2>1. callCh' = callCh /\ \A g : InChannel(g)' <=> InChannel(g)
      BY <1>3, <1>0 DEF EvalWithContextGoja
    <2>2. TypeOK'
      BY <1>3, <2>1 DEF EvalWithContextGoja, Goto, loopVars, closeVars, TypeOK
    <2>3. CallInv'
      BY <1>3, <2>1 DEF EvalWithContextGoja, Goto, loopVars, closeVars, TypeOK, CallInv, Nowhere, Sent, Running, Executed
    <2>4. LoopInv'
      BY <1>3, <2>1 DEF EvalWithContextGoja, Goto, loopVars, closeVars, TypeOK, LoopInv
    <2>5. CloseInv'
      BY <1>3, <2>1 DEF EvalWithContextGoja, Goto, loopVars, closeVars, TypeOK, LoopInv, CloseInv
    <2>6. CleanupInv'
      BY <1>3, <2>1 DEF EvalWithContextGoja, Goto, loopVars, closeVars, TypeOK, CloseInv, CleanupInv, Nowhere
    <2> QED
      BY <2>2, <2>3, <2>4, <2>5, <2>6
  <1>4. ASSUME NEW c \in Calls, DispatchSendJSC(c) PROVE IInv'
    <2>1. ~InChannel(c)
      BY <1>4 DEF DispatchSendJSC, CallInv, Nowhere
    <2>2. /\ callCh' \in Seq(Fns) /\ Len(callCh') <= CallCap
          /\ NoRepeat(callCh')
          /\ \A g : InChannel(g)' <=> InChannel(g) \/ g = c
      BY <1>4, <2>1, EnqueueStep DEF DispatchSendJSC, LoopInv, Fns
    <2>3. TypeOK'
      BY <1>4, <2>2 DEF DispatchSendJSC, Goto, loopVars, closeVars, TypeOK
    <2>4. CallInv'
      BY <1>4, <2>2 DEF DispatchSendJSC, Goto, loopVars, closeVars, TypeOK, CallInv, Nowhere, Sent, Running, Executed
    <2>5. LoopInv'
      BY <1>4, <2>2 DEF DispatchSendJSC, Goto, loopVars, closeVars, TypeOK, LoopInv
    <2>6. CloseInv'
      BY <1>4, <2>2 DEF DispatchSendJSC, Goto, loopVars, closeVars, TypeOK, LoopInv, CloseInv
    <2>7. CleanupInv'
      BY <1>4, <2>2 DEF DispatchSendJSC, Goto, loopVars, closeVars, TypeOK, CloseInv, CleanupInv, Nowhere
    <2> QED
      BY <2>3, <2>4, <2>5, <2>6, <2>7
  <1>5. ASSUME NEW c \in Calls, DispatchDoneJSC(c) PROVE IInv'
    <2>1. callCh' = callCh /\ \A g : InChannel(g)' <=> InChannel(g)
      BY <1>5, <1>0 DEF DispatchDoneJSC
    <2>2. TypeOK'
      BY <1>5, <2>1 DEF DispatchDoneJSC, Return, loopVars, closeVars, TypeOK
    <2>3. CallInv'
      BY <1>5, <2>1 DEF DispatchDoneJSC, Return, loopVars, closeVars, TypeOK, CallInv, Nowhere, Sent, Running, Executed, LoopInv, CloseInv
    <2>4. LoopInv'
      BY <1>5, <2>1 DEF DispatchDoneJSC, Return, loopVars, closeVars, TypeOK, LoopInv
    <2>5. CloseInv'
      BY <1>5, <2>1 DEF DispatchDoneJSC, Return, loopVars, closeVars, TypeOK, LoopInv, CloseInv
    <2>6. CleanupInv'
      BY <1>5, <2>1 DEF DispatchDoneJSC, Return, loopVars, closeVars, TypeOK, CloseInv, CleanupInv, Nowhere
    <2> QED
      BY <2>2, <2>3, <2>4, <2>5, <2>6
  <1>6. ASSUME NEW c \in Calls, DispatchChecked(c) PROVE IInv'
    <2>1. callCh' = callCh /\ \A g : InChannel(g)' <=> InChannel(g)
      BY <1>6, <1>0 DEF DispatchChecked
    <2>2. TypeOK'
      BY <1>6, <2>1 DEF DispatchChecked, Return, Goto, loopVars, closeVars, TypeOK
    <2>3. CallInv'
      BY <1>6, <2>1 DEF DispatchChecked, Return, Goto, loopVars, closeVars, TypeOK, CallInv, Nowhere, Sent, Running, Executed
    <2>4. LoopInv'
      BY <1>6, <2>1 DEF DispatchChecked, Return, Goto, loopVars, closeVars, TypeOK, LoopInv
    <2>5. CloseInv'
      BY <1>6, <2>1 DEF DispatchChecked, Return, Goto, loopVars, closeVars, TypeOK, LoopInv, CloseInv
    <2>6. CleanupInv'
      BY <1>6, <2>1 DEF DispatchChecked, Return, Goto, loopVars, closeVars, TypeOK, CloseInv, CleanupInv, Nowhere
    <2> QED
      BY <2>2, <2>3, <2>4, <2>5, <2>6
  <1>7. ASSUME NEW c \in Calls, Send(c) PROVE IInv'
    <2>1. ~InChannel(c)
      BY <1>7 DEF Send, CallInv, Nowhere
    <2>2. /\ callCh' \in Seq(Fns) /\ Len(callCh') <= CallCap
          /\ NoRepeat(callCh')
          /\ \A g : InChannel(g)' <=> InChannel(g) \/ g = c
      BY <1>7, <2>1, EnqueueStep DEF Send, LoopInv, Fns
    <2>3. TypeOK'
      BY <1>7, <2>2 DEF Send, Goto, loopVars, closeVars, TypeOK
    <2>4. CallInv'
      BY <1>7, <2>2 DEF Send, Goto, loopVars, closeVars, TypeOK, CallInv, Nowhere, Sent, Running, Executed
    <2>5. LoopInv'
      BY <1>7, <2>2 DEF Send, Goto, loopVars, closeVars, TypeOK, LoopInv
    <2>6. CloseInv'
      BY <1>7, <2>2 DEF Send, Goto, loopVars, closeVars, TypeOK, LoopInv, CloseInv
    <2>7. CleanupInv'
      BY <1>7, <2>2 DEF Send, Goto, loopVars, closeVars, TypeOK, CloseInv, CleanupInv, Nowhere
    <2> QED
      BY <2>3, <2>4, <2>5, <2>6, <2>7
  <1>8. ASSUME NEW c \in Calls, WaitDone(c) PROVE IInv'
    <2>1. callCh' = callCh /\ \A g : InChannel(g)' <=> InChannel(g)
      BY <1>8, <1>0 DEF WaitDone
    <2>2. TypeOK'
      BY <1>8, <2>1 DEF WaitDone, Return, loopVars, closeVars, TypeOK
    <2>3. CallInv'
      BY <1>8, <2>1 DEF WaitDone, Return, loopVars, closeVars, TypeOK, CallInv, Nowhere, Sent, Running, Executed
    <2>4. LoopInv'
      BY <1>8, <2>1 DEF WaitDone, Return, loopVars, closeVars, TypeOK, LoopInv
    <2>5. CloseInv'
      BY <1>8, <2>1 DEF WaitDone, Return, loopVars, closeVars, TypeOK, LoopInv, CloseInv
    <2>6. CleanupInv'
      BY <1>8, <2>1 DEF WaitDone, Return, loopVars, closeVars, TypeOK, CloseInv, CleanupInv, Nowhere
    <2> QED
      BY <2>2, <2>3, <2>4, <2>5, <2>6
  <1>9. ASSUME NEW c \in Calls, CtxDone(c) PROVE IInv'
    <2>1. callCh' = callCh /\ \A g : InChannel(g)' <=> InChannel(g)
      BY <1>9, <1>0 DEF CtxDone
    <2>2. TypeOK'
      BY <1>9, <2>1 DEF CtxDone, loopVars, closeVars, TypeOK
    <2>3. CallInv'
      BY <1>9, <2>1 DEF CtxDone, loopVars, closeVars, TypeOK, CallInv, Nowhere, Sent, Running, Executed
    <2>4. LoopInv'
      BY <1>9, <2>1 DEF CtxDone, loopVars, closeVars, TypeOK, LoopInv
    <2>5. CloseInv'
      BY <1>9, <2>1 DEF CtxDone, loopVars, closeVars, TypeOK, LoopInv, CloseInv
    <2>6. CleanupInv'
      BY <1>9, <2>1 DEF CtxDone, loopVars, closeVars, TypeOK, CloseInv, CleanupInv, Nowhere
    <2> QED
      BY <2>2, <2>3, <2>4, <2>5, <2>6
  <1>10. ASSUME LoopReceive PROVE IInv'
    <2>1. /\ callCh' \in Seq(Fns) /\ Len(callCh') <= CallCap
          /\ Head(callCh) \in Fns
          /\ InChannel(Head(callCh))
          /\ NoRepeat(callCh')
          /\ \A g : InChannel(g)' <=> InChannel(g) /\ g # Head(callCh)
      BY <1>10, ReceiveStep DEF LoopReceive, LoopInv
    <2>2. TypeOK'
      BY <1>10, <2>1 DEF LoopReceive, callVars, closeVars, TypeOK, Fns
    <2>3. CallInv'
      BY <1>10, <2>1 DEF LoopReceive, callVars, closeVars, TypeOK, CallInv, Nowhere, Sent, Running, Executed, LoopInv
    <2>4. LoopInv'
      BY <1>10, <2>1 DEF LoopReceive, callVars, closeVars, TypeOK, LoopInv, Fns
    <2>5. CloseInv'
      BY <1>10, <2>1 DEF LoopReceive, callVars, closeVars, TypeOK, LoopInv, CloseInv
    <2>6. CleanupInv'
      BY <1>10, <2>1 DEF LoopReceive, callVars, closeVars, TypeOK, CloseInv, CleanupInv, Nowhere, LoopInv
    <2> QED
      BY <2>2, <2>3, <2>4, <2>5, <2>6
  <1>11. ASSUME LoopCallback PROVE IInv'
    <2>1. callCh' = callCh /\ \A g : InChannel(g)' <=> InChannel(g)
      BY <1>11, <1>0 DEF LoopCallback
    <2>2. TypeOK'
      BY <1>11, <2>1 DEF LoopCallback, callVars, closeVars, TypeOK
    <2>3. CallInv'
      BY <1>11, <2>1 DEF LoopCallback, callVars, closeVars, TypeOK, CallInv, Nowhere, Sent, Running, Executed
    <2>4. LoopInv'
      BY <1>11, <2>1 DEF LoopCallback, callVars, closeVars, TypeOK, LoopInv
    <2>5. CloseInv'
      BY <1>11, <2>1 DEF LoopCallback, callVars, closeVars, TypeOK, LoopInv, CloseInv
    <2>6. CleanupInv'
      BY <1>11, <2>1 DEF LoopCallback, callVars, closeVars, TypeOK, CloseInv, CleanupInv, Nowhere
    <2> QED
      BY <2>2, <2>3, <2>4, <2>5, <2>6
  <1>12. ASSUME LoopReentrant PROVE IInv'
    <2>1. callCh' = callCh /\ \A g : InChannel(g)' <=> InChannel(g)
      BY <1>12, <1>0 DEF LoopReentrant
    <2>2. TypeOK'
      BY <1>12, <2>1 DEF LoopReentrant, callVars, closeVars, TypeOK
    <2>3. CallInv'
      BY <1>12, <2>1 DEF LoopReentrant, callVars, closeVars, TypeOK, CallInv, Nowhere, Sent, Running, Executed
    <2>4. LoopInv'
      BY <1>12, <2>1 DEF LoopReentrant, callVars, closeVars, TypeOK, LoopInv
    <2>5. CloseInv'
      BY <1>12, <2>1 DEF LoopReentrant, callVars, closeVars, TypeOK, LoopInv, CloseInv
    <2>6. CleanupInv'
      BY <1>12, <2>1 DEF LoopReentrant, callVars, closeVars, TypeOK, CloseInv, CleanupInv, Nowhere
    <2> QED
      BY <2>2, <2>3, <2>4, <2>5, <2>6
  <1>13. ASSUME LoopFinish PROVE IInv'
    <2>1. callCh' = callCh /\ \A g : InChannel(g)' <=> InChannel(g)
      BY <1>13, <1>0 DEF LoopFinish
    <2>2. running \in Fns
      BY <1>13 DEF LoopFinish, TypeOK, LoopInv
    <2>3. CASE running = Cleanup
      <3>1. TypeOK' /\ CallInv'
        BY <1>13, <2>1, <2>3 DEF LoopFinish, callVars, closeVars, TypeOK, CallInv, Nowhere, Sent, Running, Executed
      <3>2. LoopInv' /\ CloseInv'
        BY <1>13, <2>1, <2>3 DEF LoopFinish, callVars, closeVars, LoopInv, CloseInv
      <3>3. CleanupInv'
        BY <1>13, <2>1, <2>3 DEF LoopFinish, callVars, closeVars, CleanupInv, CloseInv, TypeOK, Nowhere
      <3> QED
        BY <3>1, <3>2, <3>3
    <2>4. CASE running # Cleanup
      <3>1. PICK c \in Calls : c = running
        BY <2>2, <2>4 DEF Fns
      <3>2. runs' = [runs EXCEPT ![c] = @ + 1] /\ running' = None /\ UNCHANGED released
        BY <1>13, <2>4, <3>1 DEF LoopFinish
      <3>3. Running(c)
        BY <3>1 DEF CallInv, Nowhere, Sent, Running, Executed
      <3>4. Executed(c)'
        BY <2>1, <3>2, <3>3 DEF TypeOK, Nowhere, Running, Executed
      <3>5. TypeOK'
        BY <1>13, <2>1, <3>2 DEF LoopFinish, callVars, closeVars, TypeOK
      <3>6. CallInv'
        BY <1>13, <2>1, <3>1, <3>2, <3>3, <3>4
           DEF LoopFinish, callVars, closeVars, TypeOK, CallInv, Nowhere, Sent, Running, Executed
      <3>7. LoopInv' /\ CloseInv'
        BY <1>13, <2>1, <3>2 DEF LoopFinish, callVars, closeVars, LoopInv, CloseInv
      <3>8. CleanupInv'
        BY <1>13, <2>1, <3>2 DEF LoopFinish, callVars, closeVars, CleanupInv, Nowhere
      <3> QED
        BY <3>5, <3>6, <3>7, <3>8
    <2> QED
      BY <2>3, <2>4
  <1>14. ASSUME LoopStop PROVE IInv'
    <2>1. callCh' = callCh /\ \A g : InChannel(g)' <=> InChannel(g)
      BY <1>14, <1>0 DEF LoopStop
    <2>2. TypeOK'
      BY <1>14, <2>1 DEF LoopStop, callVars, closeVars, TypeOK
    <2>3. CallInv'
      BY <1>14, <2>1 DEF LoopStop, callVars, closeVars, TypeOK, CallInv, Nowhere, Sent, Running, Executed
    <2>4. LoopInv'
      BY <1>14, <2>1 DEF LoopStop, callVars, closeVars, TypeOK, LoopInv
    <2>5. CloseInv'
      BY <1>14, <2>1 DEF LoopStop, callVars, closeVars, TypeOK, LoopInv, CloseInv
    <2>6. CleanupInv'
      BY <1>14, <2>1 DEF LoopStop, callVars, closeVars, TypeOK, CloseInv, CleanupInv, Nowhere
    <2> QED
      BY <2>2, <2>3, <2>4, <2>5, <2>6
  <1>15. ASSUME NEW x \in Closers, CloseEnterJSC(x) PROVE IInv'
    <2>1. callCh' = callCh /\ \A g : InChannel(g)' <=> InChannel(g)
      BY <1>15, <1>0 DEF CloseEnterJSC
    <2>2. TypeOK'
      BY <1>15, <2>1 DEF CloseEnterJSC, CloseGoto, loopVars, callVars, TypeOK
    <2>3. CallInv'
      BY <1>15, <2>1 DEF CloseEnterJSC, CloseGoto, loopVars, callVars, TypeOK, CallInv, Nowhere, Sent, Running, Executed
    <2>4. LoopInv'
      BY <1>15, <2>1 DEF CloseEnterJSC, CloseGoto, loopVars, callVars, TypeOK, LoopInv
    <2>5. CloseInv'
      BY <1>15, <2>1 DEF CloseEnterJSC, CloseGoto, loopVars, callVars, TypeOK, LoopInv, CloseInv
    <2>6. CleanupInv'
      BY <1>15, <2>1 DEF CloseEnterJSC, CloseGoto, loopVars, callVars, TypeOK, CloseInv, CleanupInv, Nowhere
    <2> QED
      BY <2>2, <2>3, <2>4, <2>5, <2>6
  <1>16. ASSUME NEW x \in Closers, CloseAgainJSC(x) PROVE IInv'
    <2>1. callCh' = callCh /\ \A g : InChannel(g)' <=> InChannel(g)
      BY <1>16, <1>0 DEF CloseAgainJSC
    <2>2. TypeOK'
      BY <1>16, <2>1 DEF CloseAgainJSC, CloseGoto, loopVars, callVars, TypeOK
    <2>3. CallInv'
      BY <1>16, <2>1 DEF CloseAgainJSC, CloseGoto, loopVars, callVars, TypeOK, CallInv, Nowhere, Sent, Running, Executed
    <2>4. LoopInv'
      BY <1>16, <2>1 DEF CloseAgainJSC, CloseGoto, loopVars, callVars, TypeOK, LoopInv
    <2>5. CloseInv'
      BY <1>16, <2>1 DEF CloseAgainJSC, CloseGoto, loopVars, callVars, TypeOK, LoopInv, CloseInv
    <2>6. CleanupInv'
      BY <1>16, <2>1 DEF CloseAgainJSC, CloseGoto, loopVars, callVars, TypeOK, CloseInv, CleanupInv, Nowhere
    <2> QED
      BY <2>2, <2>3, <2>4, <2>5, <2>6
  <1>17. ASSUME NEW x \in Closers, CloseSendCleanup(x) PROVE IInv'
    <2>1. ~InChannel(Cleanup)
      BY <1>17 DEF CloseSendCleanup, CleanupInv, Nowhere
    <2>2. /\ callCh' \in Seq(Fns) /\ Len(callCh') <= CallCap
          /\ NoRepeat(callCh')
          /\ \A g : InChannel(g)' <=> InChannel(g) \/ g = Cleanup
      BY <1>17, <2>1, EnqueueStep DEF CloseSendCleanup, LoopInv, Fns
    <2>3. TypeOK'
      BY <1>17, <2>2 DEF CloseSendCleanup, CloseGoto, loopVars, callVars, TypeOK
    <2>4. CallInv'
      BY <1>17, <2>2 DEF CloseSendCleanup, CloseGoto, loopVars, callVars, TypeOK, CallInv, Nowhere, Sent, Running, Executed
    <2>5. LoopInv'
      BY <1>17, <2>2 DEF CloseSendCleanup, CloseGoto, loopVars, callVars, TypeOK, LoopInv, CleanupInv, Nowhere
    <2>6. CloseInv'
      BY <1>17, <2>2 DEF CloseSendCleanup, CloseGoto, loopVars, callVars, TypeOK, LoopInv, CloseInv
    <2>7. CleanupInv'
      BY <1>17, <2>2 DEF CloseSendCleanup, CloseGoto, loopVars, callVars, TypeOK, CloseInv, CleanupInv, Nowhere
    <2> QED
      BY <2>3, <2>4, <2>5, <2>6, <2>7
  <1>18. ASSUME NEW x \in Closers, CloseCleanupDone(x) PROVE IInv'
    <2>1. callCh' = callCh /\ \A g : InChannel(g)' <=> InChannel(g)
      BY <1>18, <1>0 DEF CloseCleanupDone
    <2>2. TypeOK'
      BY <1>18, <2>1 DEF CloseCleanupDone, CloseGoto, loopVars, callVars, TypeOK
    <2>3. CallInv'
      BY <1>18, <2>1 DEF CloseCleanupDone, CloseGoto, loopVars, callVars, TypeOK, CallInv, Nowhere, Sent, Running, Executed
    <2>4. LoopInv'
      BY <1>18, <2>1 DEF CloseCleanupDone, CloseGoto, loopVars, callVars, TypeOK, LoopInv
    <2>5. CloseInv'
      BY <1>18, <2>1 DEF CloseCleanupDone, CloseGoto, loopVars, callVars, TypeOK, LoopInv, CloseInv
    <2>6. CleanupInv'
      BY <1>18, <2>1 DEF CloseCleanupDone, CloseGoto, loopVars, callVars, TypeOK, CloseInv, CleanupInv, Nowhere
    <2> QED
      BY <2>2, <2>3, <2>4, <2>5, <2>6
  <1>19. ASSUME NEW x \in Closers, CloseSwap(x) PROVE IInv'
    <2>1. callCh' = callCh /\ \A g : InChannel(g)' <=> InChannel(g)
      BY <1>19, <1>0 DEF CloseSwap
    <2>2. TypeOK'
      BY <1>19, <2>1 DEF CloseSwap, CloseGoto, loopVars, callVars, TypeOK
    <2>3. CallInv'
      BY <1>19, <2>1 DEF CloseSwap, CloseGoto, loopVars, callVars, TypeOK, CallInv, Nowhere, Sent, Running, Executed
    <2>4. LoopInv'
      BY <1>19, <2>1 DEF CloseSwap, CloseGoto, loopVars, callVars, TypeOK, LoopInv
    <2>5. CloseInv'
      BY <1>19, <2>1 DEF CloseSwap, CloseGoto, loopVars, callVars, TypeOK, LoopInv, CloseInv
    <2>6. CleanupInv'
      BY <1>19, <2>1 DEF CloseSwap, CloseGoto, loopVars, callVars, TypeOK, CloseInv, CleanupInv, Nowhere
    <2> QED
      BY <2>2, <2>3, <2>4, <2>5, <2>6
  <1>20. ASSUME NEW x \in Closers, CloseStop(x) PROVE IInv'
    <2>1. callCh' = callCh /\ \A g : InChannel(g)' <=> InChannel(g)
      BY <1>20, <1>0 DEF CloseStop
    <2>2. TypeOK'
      BY <1>20, <2>1 DEF CloseStop, CloseGoto, loopVars, callVars, TypeOK
    <2>3. CallInv'
      BY <1>20, <2>1 DEF CloseStop, CloseGoto, loopVars, callVars, TypeOK, CallInv, Nowhere, Sent, Running, Executed
    <2>4. LoopInv'
      BY <1>20, <2>1 DEF CloseStop, CloseGoto, loopVars, callVars, TypeOK, LoopInv
    <2>5. CloseInv'
      BY <1>20, <2>1 DEF CloseStop, CloseGoto, loopVars, callVars, TypeOK, LoopInv, CloseInv
    <2>6. CleanupInv'
      BY <1>20, <2>1 DEF CloseStop, CloseGoto, loopVars, callVars, TypeOK, CloseInv, CleanupInv, Nowhere
    <2> QED
      BY <2>2, <2>3, <2>4, <2>5, <2>6
  <1>21. ASSUME NEW x \in Closers, CloseJoin(x) PROVE IInv'
    <2>1. callCh' = callCh /\ \A g : InChannel(g)' <=> InChannel(g)
      BY <1>21, <1>0 DEF CloseJoin
    <2>2. TypeOK'
      BY <1>21, <2>1 DEF CloseJoin, CloseGoto, loopVars, callVars, TypeOK
    <2>3. CallInv'
      BY <1>21, <2>1 DEF CloseJoin, CloseGoto, loopVars, callVars, TypeOK, CallInv, Nowhere, Sent, Running, Executed
    <2>4. LoopInv'
      BY <1>21, <2>1 DEF CloseJoin, CloseGoto, loopVars, callVars, TypeOK, LoopInv
    <2>5. CloseInv'
      BY <1>21, <2>1 DEF CloseJoin, CloseGoto, loopVars, callVars, TypeOK, LoopInv, CloseInv
    <2>6. CleanupInv'
      BY <1>21, <2>1 DEF CloseJoin, CloseGoto, loopVars, callVars, TypeOK, CloseInv, CleanupInv, Nowhere
    <2> QED
      BY <2>2, <2>3, <2>4, <2>5, <2>6
  <1>22. CASE UNCHANGED vars
    BY <1>22, <1>0 DEF vars, loopVars, callVars, closeVars, TypeOK, CallInv, LoopInv, CloseInv, CleanupInv,
                     Nowhere, Sent, Running, Executed, NoRepeat
  <1> QED
    BY <1>1, <1>2, <1>3, <1>4, <1>5, <1>6, <1>7, <1>8, <1>9, <1>10, <1>11, <1>12, <1>13, <1>14, <1>15, <1>16, <1>17, <1>18, <1>19, <1>20, <1>21, <1>22 DEF Next, CallStep, LoopStep, CloseStep

-----------------------------------------------------------------------------
(* The invariant holds, and with it everything below. *)
THEOREM Invariance == Spec => []IInv
  BY InitIInv, StepIInv, PTL DEF Spec

(* Every variable keeps its type; in particular callCh never exceeds its capacity. *)
THEOREM TypeCorrect == Spec => []TypeOK
  BY Invariance, PTL DEF IInv

(* dispatch loses no function and executes none twice, for every number of *)
(* callers, every capacity of callCh and every backend.                    *)
THEOREM NothingLost == Spec => []NoLostCall
  <1>1. IInv => NoLostCall
    BY DEF IInv, LoopInv, CallInv, NoRepeat, NoLostCall
  <1> QED
    BY <1>1, Invariance, PTL

(* A caller is told the truth about whether its function was executed. *)
THEOREM AnswersHonest == Spec => []HonestAnswers
  <1>1. IInv => HonestAnswers
    BY DEF IInv, CallInv, Executed, HonestAnswers
  <1> QED
    BY <1>1, Invariance, PTL

(* Close returns to an engine goroutine that has exited and a context that is gone. *)
THEOREM CloseHasJoined == Spec => []CloseJoins
  <1>1. IInv => CloseJoins
    BY EngineAssumption DEF IInv, TypeOK, LoopInv, CloseInv, CleanupInv, CloseJoins
  <1> QED
    BY <1>1, Invariance, PTL

(* The JSC context is released by one cleanup function, before stopCh is closed. *)
THEOREM CleanupRunsOnce == Spec => []CleanupOnce
  <1>1. IInv => CleanupOnce
    BY EngineAssumption DEF IInv, CloseInv, CleanupInv, CleanupOnce
  <1> QED
    BY <1>1, Invariance, PTL
(* Close waits only for what will come, joins the engine goroutine, and has  *)
(* released the context once.                                                *)
THEOREM ShutdownClean == Spec => []CleanShutdown
  <1>1. IInv => CloseInHand
    BY EngineAssumption DEF IInv, LoopInv, CloseInv, CleanupInv, CloseInHand, Nowhere
  <1> QED
    BY <1>1, Invariance, CloseHasJoined, CleanupRunsOnce, PTL DEF CleanShutdown

-----------------------------------------------------------------------------
(* Engine implements Dispatcher. *)

LEMMA ToldCases ==
    /\ Told("none") = "none" /\ Told("value") = "value" /\ Told("ctxErr") = "gone"
    /\ Told("closedError") = "refused" /\ Told("nothing") = "refused"
  BY Zenon DEF Told

(* What callers see of a state: the refinement mapping, as one value each. *)
Done    == {c \in Calls : runs[c] > 0}
Answers == [c \in Calls |-> Told(result[c])]

LEMMA SeenOfVars == UNCHANGED <<closed, running, runs, result, loop, once>> => UNCHANGED D!vars
  BY DEF D!vars, Busy

(* A step that tells c something that is true. *)
LEMMA AnswerStep ==
    ASSUME TypeOK, NEW c \in Calls, NEW r \in {"value", "closedError", "nothing", "ctxErr"},
           result[c] = "none",
           r = "value" => runs[c] > 0,
           r \in {"closedError", "nothing"} => closed /\ runs[c] = 0 /\ running # c,
           result' = [result EXCEPT ![c] = r],
           UNCHANGED <<closed, running, runs, loop, once>>
    PROVE  D!Next
  <1>1. D!Answer(c, Told(r))
    <2>1. Answers' = [Answers EXCEPT ![c] = Told(r)]
      BY DEF TypeOK, Answers
    <2>2. Answers[c] = "none"
      BY ToldCases DEF Answers
    <2>3. Told(r) = "value" => c \in Done
      BY ToldCases DEF Done
    <2>4. Told(r) = "refused" => closed /\ c \notin Done /\ c # Busy
      BY ToldCases, EngineAssumption DEF Done, Busy
    <2>5. Done' = Done /\ Busy' = Busy
      BY DEF Done, Busy
    <2> QED
      BY <2>1, <2>2, <2>3, <2>4, <2>5 DEF D!Answer, Answers, Done
  <1>2. Told(r) \in {"value", "refused", "gone"}
    BY ToldCases
  <1> QED
    BY <1>1, <1>2 DEF D!Next

LEMMA StepImplements == IInv /\ [Next]_vars => [D!Next]_(D!vars)
  <1> SUFFICES ASSUME IInv, [Next]_vars PROVE D!Next \/ UNCHANGED D!vars
    OBVIOUS
  <1> USE DEF IInv
  <1>1. ASSUME NEW c \in Calls, NEW r \in {"value", "closedError", "nothing"},
               Return(c, r), pc[c] \in {"start", "dispatch", "wait"},
               r = "value" => runs[c] > 0,
               r # "value" => closed /\ pc[c] # "wait",
               UNCHANGED <<closed, running, runs, loop, once>>
        PROVE  D!Next \/ UNCHANGED D!vars
    <2>1. CASE result[c] = "ctxErr"
      <3>1. result' = result
        BY <1>1, <2>1 DEF Return, TypeOK
      <3> QED
        BY <1>1, <3>1, SeenOfVars
    <2>2. CASE result[c] # "ctxErr"
      <3>1. result[c] = "none"
        BY <1>1, <2>2 DEF TypeOK, CallInv
      <3>2. result' = [result EXCEPT ![c] = r]
        BY <1>1, <2>2 DEF Return, TypeOK
      <3>3. r # "value" => runs[c] = 0 /\ running # c
        BY <1>1 DEF CallInv, Nowhere
      <3> QED
        BY <1>1, <3>1, <3>2, <3>3, AnswerStep
    <2> QED
      BY <2>1, <2>2
  <1>2. ASSUME NEW c \in Calls, CallStep(c) PROVE D!Next \/ UNCHANGED D!vars
    <2>1. CASE Eval(c)
      BY <2>1, <1>1, SeenOfVars DEF Eval, Goto, loopVars, closeVars
    <2>2. CASE Bridge(c) \/ EvalWithContextGoja(c)
      BY <2>2, SeenOfVars DEF Bridge, EvalWithContextGoja, Goto, loopVars, closeVars
    <2>3. CASE DispatchSendJSC(c) \/ Send(c)
      BY <2>3, SeenOfVars DEF DispatchSendJSC, Send, Goto, loopVars, closeVars
    <2>4. CASE DispatchDoneJSC(c)
      <3>1. closed
        BY <2>4, EngineAssumption DEF DispatchDoneJSC, LoopInv, CloseInv
      <3> QED
        BY <2>4, <3>1, <1>1 DEF DispatchDoneJSC, loopVars, closeVars
    <2>5. CASE DispatchChecked(c)
      BY <2>5, <1>1, SeenOfVars DEF DispatchChecked, Goto, loopVars, closeVars
    <2>6. CASE WaitDone(c)
      BY <2>6, <1>1 DEF WaitDone, loopVars, closeVars
    <2>7. CASE CtxDone(c)
      BY <2>7, AnswerStep DEF CtxDone, loopVars, closeVars
    <2> QED
      BY <1>2, <2>1, <2>2, <2>3, <2>4, <2>5, <2>6, <2>7 DEF CallStep
  <1>3. CASE LoopReceive
    <2>1. /\ running = None /\ running' = Head(callCh) /\ loop # "exited" /\ loop' # "exited"
          /\ UNCHANGED <<closed, runs, result, once>>
      BY <1>3 DEF LoopReceive, LoopInv, callVars, closeVars
    <2>2. Head(callCh) \in Fns /\ InChannel(Head(callCh))
      BY <1>3, ReceiveStep DEF LoopReceive, LoopInv
    <2>3. CASE Head(callCh) = Cleanup
      <3>1. Busy' = None /\ Busy = None
        BY <2>1, <2>3, EngineAssumption DEF Busy
      <3> QED
        BY <2>1, <3>1 DEF D!vars
    <2>4. CASE Head(callCh) # Cleanup
      <3>1. PICK c \in Calls : c = Head(callCh)
        BY <2>2, <2>4 DEF Fns
      <3>2. runs[c] = 0 /\ Answers[c] # "refused"
        BY <2>2, <3>1, ToldCases DEF CallInv, Sent, Running, Executed, Nowhere, TypeOK, Answers
      <3>3. Busy = None /\ Busy' = c
        BY <2>1, <3>1, EngineAssumption DEF Busy
      <3>4. c \notin Done
        BY <3>2 DEF Done
      <3>5. D!Begin(c)
        BY <2>1, <3>2, <3>3, <3>4 DEF D!Begin, Answers, Done
      <3> QED
        BY <3>5 DEF D!Next
    <2> QED
      BY <2>3, <2>4
  <1>4. CASE LoopCallback \/ LoopReentrant
    <2>1. loop # "exited" /\ loop' # "exited" /\ UNCHANGED <<closed, running, runs, result, once>>
      BY <1>4 DEF LoopCallback, LoopReentrant, callVars, closeVars
    <2> QED
      BY <2>1 DEF D!vars, Busy
  <1>5. CASE LoopFinish
    <2>1. /\ running \in Fns /\ running' = None /\ loop # "exited" /\ loop' # "exited"
          /\ UNCHANGED <<closed, result, once>>
      BY <1>5 DEF LoopFinish, LoopInv, TypeOK, callVars, closeVars
    <2>2. CASE running = Cleanup
      <3>1. runs' = runs /\ Busy' = None /\ Busy = None
        BY <1>5, <2>1, <2>2, EngineAssumption DEF LoopFinish, Busy
      <3> QED
        BY <2>1, <3>1 DEF D!vars
    <2>3. CASE running # Cleanup
      <3>1. PICK c \in Calls : c = running
        BY <2>1, <2>3 DEF Fns
      <3>2. Busy = c /\ Busy' = None /\ c # None
        BY <2>1, <3>1, EngineAssumption DEF Busy
      <3>3. Done' = Done \cup {c}
        BY <1>5, <2>3, <3>1 DEF LoopFinish, TypeOK, Done
      <3>4. D!Finish
        BY <2>1, <3>2, <3>3 DEF D!Finish, Done
      <3> QED
        BY <3>4 DEF D!Next
    <2> QED
      BY <2>2, <2>3
  <1>6. CASE LoopStop
    <2>1. /\ closed /\ running = None /\ loop = "select" /\ loop' = "exited"
          /\ UNCHANGED <<closed, running, runs, result, once>>
      BY <1>6, EngineAssumption DEF LoopStop, LoopInv, CloseInv, callVars, closeVars
    <2>2. Busy = None /\ Busy' = None
      BY <2>1, EngineAssumption DEF Busy
    <2>3. D!GoDown
      BY <2>1, <2>2 DEF D!GoDown
    <2> QED
      BY <2>3 DEF D!Next
  <1>7. ASSUME NEW x \in Closers, CloseStep(x) PROVE D!Next \/ UNCHANGED D!vars
    <2>1. CASE CloseEnterJSC(x)
      <3>1. D!Close
        BY <2>1, EngineAssumption DEF CloseEnterJSC, CloseInv, loopVars, callVars, D!Close, Busy
      <3> QED
        BY <3>1 DEF D!Next
    <2>2. CASE CloseSwap(x)
      <3>1. CASE closed
        BY <2>2, <3>1, SeenOfVars DEF CloseSwap, loopVars, callVars
      <3>2. CASE ~closed
        <4>1. D!Close
          BY <2>2, <3>2, EngineAssumption DEF CloseSwap, CloseInv, loopVars, callVars, D!Close, Busy
        <4> QED
          BY <4>1 DEF D!Next
      <3> QED
        BY <3>1, <3>2
    <2>3. CASE CloseAgainJSC(x) \/ CloseCleanupDone(x) \/ CloseStop(x)
      BY <2>3, SeenOfVars DEF CloseAgainJSC, CloseCleanupDone, CloseStop, loopVars, callVars
    <2>4. CASE CloseSendCleanup(x)
      BY <2>4, SeenOfVars DEF CloseSendCleanup, loopVars, callVars
    <2>5. CASE CloseJoin(x)
      <3>1. once # "done"
        BY <2>5, EngineAssumption DEF CloseJoin, CloseInv
      <3>2. D!Join
        BY <2>5, <3>1 DEF CloseJoin, loopVars, callVars, D!Join, Busy
      <3> QED
        BY <3>2 DEF D!Next
    <2> QED
      BY <1>7, <2>1, <2>2, <2>3, <2>4, <2>5 DEF CloseStep
  <1>8. CASE UNCHANGED vars
    BY <1>8, SeenOfVars DEF vars
  <1> QED
    BY <1>2, <1>3, <1>4, <1>5, <1>6, <1>7, <1>8 DEF Next, LoopStep

(* The three engines hand functions to their goroutine as Dispatcher says:  *)
(* one at a time, at most once, never after a refusal or a Close that has   *)
(* returned.                                                                *)
THEOREM Refinement == Spec => ImplementsDispatcher
  <1>1. Init => D!Init
    BY ToldCases, EngineAssumption DEF Init, D!Init, Busy
  <1>2. Spec => D!Init /\ [][D!Next]_(D!vars)
    BY <1>1, Invariance, StepImplements, PTL DEF Spec
  <1> QED
    BY <1>2 DEF ImplementsDispatcher, D!Spec
=============================================================================

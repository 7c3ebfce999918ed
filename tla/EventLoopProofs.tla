-------------------------- MODULE EventLoopProofs --------------------------
(***************************************************************************)
(* Proofs about EventLoop, for every number of operations and drivers.     *)
(***************************************************************************)
EXTENDS EventLoopProps, TLAPS

USE LoopAssumption

-----------------------------------------------------------------------------
(* The inductive invariant. *)

Underway == {"io", "post", "headers", "wakeFirst", "resolve"}

(* What is known of one operation: an unused one is nowhere; an outcome is   *)
(* on its way in one place at a time; a promise is uncounted when settled.   *)
OpInv ==
    \A o \in Ops :
        /\ kind[o] = None => gor[o] = "none" /\ o \notin tracked \cup due \cup events \cup settled
        /\ kind[o] = "timer" => gor[o] = "done"
        /\ gor[o] \in Underway => o \notin events \cup settled
        /\ o \in events => kind[o] \in {"proc", "fs", "fetch"} /\ o \notin settled
        /\ o \in due => kind[o] = "timer" /\ o \notin settled
        /\ kind[o] = "timer" /\ o \in tracked => o \notin settled
        /\ kind[o] = "promise" /\ gor[o] \in {"wake", "uncount", "done"} => o \in settled \/ closed
        /\ gor[o] = "uncount" => kind[o] \in {"promise", "fetch"}

(* Operations that must keep the loop alive. *)
Live(o) ==
    \/ kind[o] \in Keepers /\ o \notin settled
    \/ kind[o] \in {"fs", "fetch"} /\ gor[o] \in {"io", "headers"}

TrackedInv == ~closed => \A o \in Ops : Live(o) => o \in tracked

EngineInv ==
    /\ \A d \in Drivers : engine = d => pc[d] = "closure"
    /\ \A d \in Drivers : verdict[d] = "idle" => pc[d] \in {"decide", "returned"}

(* While the managers are asked in turn, nothing starts: what keeps the loop *)
(* alive belongs to a manager that has not been asked yet.                   *)
CheckInv ==
    engine # None /\ ~closed =>
        \A o \in Ops : Live(o) =>
            \A j \in DOMAIN CheckOrder : CheckAt(j) < stage => kind[o] # CheckOrder[j]

IInv == TypeOK /\ OpInv /\ TrackedInv /\ EngineInv /\ CheckInv

-----------------------------------------------------------------------------
(* The stages of a closure, and the managers in the order they are asked. *)
LEMMA Stages ==
    /\ Drains = 1..4 /\ DoneStage = 5 /\ TickStage = 6 /\ AgainStage = 7 /\ LastStage = 15
    /\ \A i \in 1..4 : DrainOrder[i] = "proc" <=> i = 2
    /\ \A i \in 1..4 : DrainOrder[i] \in {"fs", "proc", "fetch", "stream"}
    /\ DOMAIN CheckOrder = 1..8
    /\ \A i \in Int : CheckAt(i) = 7 + i
    /\ CheckOrder[1] = "timer" /\ CheckOrder[2] = "proc" /\ CheckOrder[3] = "waitAsync"
    /\ CheckOrder[4] = "promise" /\ CheckOrder[5] = "fs" /\ CheckOrder[6] = "fsEvents"
    /\ CheckOrder[7] = "stream" /\ CheckOrder[8] = "fetch"
  BY DEF Drains, DoneStage, TickStage, AgainStage, LastStage, CheckAt, DrainOrder, CheckOrder

LEMMA Initially == Init => IInv
  <1> SUFFICES ASSUME Init PROVE IInv
    OBVIOUS
  <1>1. TypeOK
    <2>1. life = "open" /\ wakeCh = FALSE /\ engine = None /\ stage \in 1..LastStage
      BY Stages DEF Init
    <2>2. /\ kind \in [Ops -> Kinds \cup {None}] /\ awaits \in [Ops -> Drivers \cup {None}]
          /\ mode \in [Drivers -> AllModes \cup {None}] /\ sleepFor \in [Drivers -> SUBSET Ops]
          /\ got \in [Drivers -> Drivers \cup {None}]
      BY DEF Init
    <2> QED BY <2>1, <2>2 DEF Init, TypeOK
  <1>2. OpInv /\ TrackedInv /\ EngineInv /\ CheckInv
    BY DEF Init, OpInv, TrackedInv, EngineInv, CheckInv, Live, Keepers, Underway, AllKinds
  <1> QED
    BY <1>1, <1>2 DEF IInv

(* What the delivery of outcomes does to the globals of EvalAsync. *)
LEMMA SettleTypes ==
    ASSUME TypeOK, NEW D \in SUBSET Ops, Settle(D)
    PROVE  asyncDone' \in BOOLEAN /\ asyncResult' \in Drivers \cup {None}
  <1> DEFINE whose == {awaits[o] : o \in D} \ {None}
  <1>1. whose \subseteq Drivers
    BY DEF TypeOK
  <1>2. \/ asyncDone' = asyncDone /\ asyncResult' = asyncResult
        \/ asyncDone' = TRUE /\ asyncResult' \in whose
    BY DEF Settle, asyncVars
  <1>3. asyncDone \in BOOLEAN /\ asyncResult \in Drivers \cup {None}
    BY DEF TypeOK
  <1> QED
    BY <1>1, <1>2, <1>3

(* Callbacks touch nothing but the operation they start, if any. *)
LEMMA CallbacksEffect ==
    ASSUME TypeOK, NEW D, NEW gone, Callbacks(D, gone)
    PROVE  /\ tracked \ gone \subseteq tracked'
           /\ \A p \in Ops : kind'[p] = kind[p] => gor'[p] = gor[p]
           /\ \A p \in Ops : kind'[p] # kind[p] => p \in tracked'
  <1>1. DOMAIN kind = Ops /\ DOMAIN gor = Ops /\ None \notin Kinds
    BY DEF TypeOK, AllKinds
  <1> QED
    BY <1>1 DEF Callbacks, Start, StartNothing

LEMMA Inductive == IInv /\ [Next]_vars => IInv'
  <1> SUFFICES ASSUME IInv, [Next]_vars PROVE IInv'
    OBVIOUS
  <1> USE Stages DEF IInv, AllKinds, AllModes
  <1>a. DOMAIN pc = Drivers /\ DOMAIN verdict = Drivers /\ None \notin Drivers
    BY DEF TypeOK
  <1>b. /\ kind \in [Ops -> Kinds \cup {None}] /\ DOMAIN gor = Ops
        /\ None \notin AllKinds /\ Kinds \subseteq AllKinds
        /\ tracked \subseteq Ops /\ due \subseteq Ops /\ events \subseteq Ops /\ settled \subseteq Ops
    BY DEF TypeOK
<1>1. ASSUME NEW o \in Ops, NEW k \in Kinds, ExecStart(o, k) PROVE IInv'
  <2>1. TypeOK' BY <1>1 DEF TypeOK, ExecStart, Start, runtimeVars, opVars, asyncVars, driverVars, closureVars
  <2>2. OpInv' BY <1>1, <1>b DEF OpInv, ExecStart, Start, runtimeVars, opVars, asyncVars, driverVars, closureVars, closed, Underway
  <2>3. TrackedInv' BY <1>1, <1>b DEF TrackedInv, ExecStart, Start, runtimeVars, opVars, asyncVars, driverVars, closureVars, closed, Live, Keepers
  <2>4. EngineInv' BY <1>1, <1>a DEF EngineInv, ExecStart, Start, runtimeVars, opVars, asyncVars, driverVars, closureVars
  <2>5. CheckInv' BY <1>1, <1>b DEF CheckInv, ExecStart, Start, runtimeVars, opVars, asyncVars, driverVars, closureVars, closed, Live, Keepers
  <2> QED BY <2>1, <2>2, <2>3, <2>4, <2>5
<1>2. ASSUME NEW o \in Ops, TimerDue(o) PROVE IInv'
  <2>1. TypeOK' BY <1>2 DEF TypeOK, TimerDue, runtimeVars, opVars, asyncVars, driverVars, closureVars
  <2>2. OpInv' BY <1>2, <1>b DEF OpInv, TimerDue, runtimeVars, opVars, asyncVars, driverVars, closureVars, closed, Underway
  <2>3. TrackedInv' BY <1>2, <1>b DEF TrackedInv, TimerDue, runtimeVars, opVars, asyncVars, driverVars, closureVars, closed, Live, Keepers
  <2>4. EngineInv' BY <1>2, <1>a DEF EngineInv, TimerDue, runtimeVars, opVars, asyncVars, driverVars, closureVars
  <2>5. CheckInv' BY <1>2, <1>b DEF CheckInv, TimerDue, runtimeVars, opVars, asyncVars, driverVars, closureVars, closed, Live, Keepers
  <2> QED BY <2>1, <2>2, <2>3, <2>4, <2>5
<1>3. ASSUME NEW o \in Ops, ProcExit(o) PROVE IInv'
  <2>1. TypeOK' BY <1>3 DEF TypeOK, ProcExit, At, GoTo, quiet, runtimeVars, opVars, asyncVars, driverVars, closureVars
  <2>2. OpInv' BY <1>3, <1>b DEF OpInv, ProcExit, At, GoTo, quiet, runtimeVars, opVars, asyncVars, driverVars, closureVars, closed, Underway
  <2>3. TrackedInv' BY <1>3, <1>b DEF TrackedInv, ProcExit, At, GoTo, quiet, runtimeVars, opVars, asyncVars, driverVars, closureVars, closed, Live, Keepers
  <2>4. EngineInv' BY <1>3, <1>a DEF EngineInv, ProcExit, At, GoTo, quiet, runtimeVars, opVars, asyncVars, driverVars, closureVars
  <2>5. CheckInv' BY <1>3, <1>b DEF CheckInv, ProcExit, At, GoTo, quiet, runtimeVars, opVars, asyncVars, driverVars, closureVars, closed, Live, Keepers
  <2> QED BY <2>1, <2>2, <2>3, <2>4, <2>5
<1>4. ASSUME NEW o \in Ops, FsUncount(o) PROVE IInv'
  <2>1. TypeOK' BY <1>4 DEF TypeOK, FsUncount, At, GoTo, quiet, runtimeVars, opVars, asyncVars, driverVars, closureVars
  <2>2. OpInv' BY <1>4, <1>b DEF OpInv, FsUncount, At, GoTo, quiet, runtimeVars, opVars, asyncVars, driverVars, closureVars, closed, Underway
  <2>3. TrackedInv' BY <1>4, <1>b DEF TrackedInv, FsUncount, At, GoTo, quiet, runtimeVars, opVars, asyncVars, driverVars, closureVars, closed, Live, Keepers
  <2>4. EngineInv' BY <1>4, <1>a DEF EngineInv, FsUncount, At, GoTo, quiet, runtimeVars, opVars, asyncVars, driverVars, closureVars
  <2>5. CheckInv' BY <1>4, <1>b DEF CheckInv, FsUncount, At, GoTo, quiet, runtimeVars, opVars, asyncVars, driverVars, closureVars, closed, Live, Keepers
  <2> QED BY <2>1, <2>2, <2>3, <2>4, <2>5
<1>5. ASSUME NEW o \in Ops, FsPost(o) PROVE IInv'
  <2>1. TypeOK' BY <1>5 DEF TypeOK, FsPost, At, GoTo, quiet, runtimeVars, opVars, asyncVars, driverVars, closureVars
  <2>2. OpInv' BY <1>5, <1>b DEF OpInv, FsPost, At, GoTo, quiet, runtimeVars, opVars, asyncVars, driverVars, closureVars, closed, Underway
  <2>3. TrackedInv' BY <1>5, <1>b DEF TrackedInv, FsPost, At, GoTo, quiet, runtimeVars, opVars, asyncVars, driverVars, closureVars, closed, Live, Keepers
  <2>4. EngineInv' BY <1>5, <1>a DEF EngineInv, FsPost, At, GoTo, quiet, runtimeVars, opVars, asyncVars, driverVars, closureVars
  <2>5. CheckInv' BY <1>5, <1>b DEF CheckInv, FsPost, At, GoTo, quiet, runtimeVars, opVars, asyncVars, driverVars, closureVars, closed, Live, Keepers
  <2> QED BY <2>1, <2>2, <2>3, <2>4, <2>5
<1>6. ASSUME NEW o \in Ops, FetchFails(o) PROVE IInv'
  <2>1. TypeOK' BY <1>6 DEF TypeOK, FetchFails, At, GoTo, quiet, runtimeVars, opVars, asyncVars, driverVars, closureVars
  <2>2. OpInv' BY <1>6, <1>b DEF OpInv, FetchFails, At, GoTo, quiet, runtimeVars, opVars, asyncVars, driverVars, closureVars, closed, Underway
  <2>3. TrackedInv' BY <1>6, <1>b DEF TrackedInv, FetchFails, At, GoTo, quiet, runtimeVars, opVars, asyncVars, driverVars, closureVars, closed, Live, Keepers
  <2>4. EngineInv' BY <1>6, <1>a DEF EngineInv, FetchFails, At, GoTo, quiet, runtimeVars, opVars, asyncVars, driverVars, closureVars
  <2>5. CheckInv' BY <1>6, <1>b DEF CheckInv, FetchFails, At, GoTo, quiet, runtimeVars, opVars, asyncVars, driverVars, closureVars, closed, Live, Keepers
  <2> QED BY <2>1, <2>2, <2>3, <2>4, <2>5
<1>7. ASSUME NEW o \in Ops, FetchResponds(o) PROVE IInv'
  <2>1. TypeOK' BY <1>7 DEF TypeOK, FetchResponds, At, GoTo, quiet, runtimeVars, opVars, asyncVars, driverVars, closureVars
  <2>2. OpInv' BY <1>7, <1>b DEF OpInv, FetchResponds, At, GoTo, quiet, runtimeVars, opVars, asyncVars, driverVars, closureVars, closed, Underway
  <2>3. TrackedInv' BY <1>7, <1>b DEF TrackedInv, FetchResponds, At, GoTo, quiet, runtimeVars, opVars, asyncVars, driverVars, closureVars, closed, Live, Keepers
  <2>4. EngineInv' BY <1>7, <1>a DEF EngineInv, FetchResponds, At, GoTo, quiet, runtimeVars, opVars, asyncVars, driverVars, closureVars
  <2>5. CheckInv' BY <1>7, <1>b DEF CheckInv, FetchResponds, At, GoTo, quiet, runtimeVars, opVars, asyncVars, driverVars, closureVars, closed, Live, Keepers
  <2> QED BY <2>1, <2>2, <2>3, <2>4, <2>5
<1>8. ASSUME NEW o \in Ops, FetchPost(o) PROVE IInv'
  <2>1. TypeOK' BY <1>8 DEF TypeOK, FetchPost, At, GoTo, quiet, runtimeVars, opVars, asyncVars, driverVars, closureVars
  <2>2. OpInv' BY <1>8, <1>b DEF OpInv, FetchPost, At, GoTo, quiet, runtimeVars, opVars, asyncVars, driverVars, closureVars, closed, Underway
  <2>3. TrackedInv' BY <1>8, <1>b DEF TrackedInv, FetchPost, At, GoTo, quiet, runtimeVars, opVars, asyncVars, driverVars, closureVars, closed, Live, Keepers
  <2>4. EngineInv' BY <1>8, <1>a DEF EngineInv, FetchPost, At, GoTo, quiet, runtimeVars, opVars, asyncVars, driverVars, closureVars
  <2>5. CheckInv' BY <1>8, <1>b DEF CheckInv, FetchPost, At, GoTo, quiet, runtimeVars, opVars, asyncVars, driverVars, closureVars, closed, Live, Keepers
  <2> QED BY <2>1, <2>2, <2>3, <2>4, <2>5
<1>9. ASSUME NEW o \in Ops, BodyEnds(o) PROVE IInv'
  <2>1. TypeOK' BY <1>9 DEF TypeOK, BodyEnds, quiet, runtimeVars, opVars, asyncVars, driverVars, closureVars
  <2>2. OpInv' BY <1>9, <1>b DEF OpInv, BodyEnds, quiet, runtimeVars, opVars, asyncVars, driverVars, closureVars, closed, Underway
  <2>3. TrackedInv' BY <1>9, <1>b DEF TrackedInv, BodyEnds, quiet, runtimeVars, opVars, asyncVars, driverVars, closureVars, closed, Live, Keepers
  <2>4. EngineInv' BY <1>9, <1>a DEF EngineInv, BodyEnds, quiet, runtimeVars, opVars, asyncVars, driverVars, closureVars
  <2>5. CheckInv' BY <1>9, <1>b DEF CheckInv, BodyEnds, quiet, runtimeVars, opVars, asyncVars, driverVars, closureVars, closed, Live, Keepers
  <2> QED BY <2>1, <2>2, <2>3, <2>4, <2>5
<1>10. ASSUME NEW o \in Ops, ReaderWake(o) PROVE IInv'
  <2>1. TypeOK' BY <1>10 DEF TypeOK, ReaderWake, quiet, runtimeVars, opVars, asyncVars, driverVars, closureVars
  <2>2. OpInv' BY <1>10, <1>b DEF OpInv, ReaderWake, quiet, runtimeVars, opVars, asyncVars, driverVars, closureVars, closed, Underway
  <2>3. TrackedInv' BY <1>10, <1>b DEF TrackedInv, ReaderWake, quiet, runtimeVars, opVars, asyncVars, driverVars, closureVars, closed, Live, Keepers
  <2>4. EngineInv' BY <1>10, <1>a DEF EngineInv, ReaderWake, quiet, runtimeVars, opVars, asyncVars, driverVars, closureVars
  <2>5. CheckInv' BY <1>10, <1>b DEF CheckInv, ReaderWake, quiet, runtimeVars, opVars, asyncVars, driverVars, closureVars, closed, Live, Keepers
  <2> QED BY <2>1, <2>2, <2>3, <2>4, <2>5
<1>11. ASSUME NEW o \in Ops, Awaited(o) PROVE IInv'
  <2>1. TypeOK' BY <1>11 DEF TypeOK, Awaited, At, GoTo, quiet, runtimeVars, opVars, asyncVars, driverVars, closureVars
  <2>2. OpInv' BY <1>11, <1>b DEF OpInv, Awaited, At, GoTo, quiet, runtimeVars, opVars, asyncVars, driverVars, closureVars, closed, Underway
  <2>3. TrackedInv' BY <1>11, <1>b DEF TrackedInv, Awaited, At, GoTo, quiet, runtimeVars, opVars, asyncVars, driverVars, closureVars, closed, Live, Keepers
  <2>4. EngineInv' BY <1>11, <1>a DEF EngineInv, Awaited, At, GoTo, quiet, runtimeVars, opVars, asyncVars, driverVars, closureVars
  <2>5. CheckInv' BY <1>11, <1>b DEF CheckInv, Awaited, At, GoTo, quiet, runtimeVars, opVars, asyncVars, driverVars, closureVars, closed, Live, Keepers
  <2> QED BY <2>1, <2>2, <2>3, <2>4, <2>5
<1>12. ASSUME NEW o \in Ops, WakeFirst(o) PROVE IInv'
  <2>1. TypeOK' BY <1>12 DEF TypeOK, WakeFirst, At, GoTo, quiet, runtimeVars, opVars, asyncVars, driverVars, closureVars
  <2>2. OpInv' BY <1>12, <1>b DEF OpInv, WakeFirst, At, GoTo, quiet, runtimeVars, opVars, asyncVars, driverVars, closureVars, closed, Underway
  <2>3. TrackedInv' BY <1>12, <1>b DEF TrackedInv, WakeFirst, At, GoTo, quiet, runtimeVars, opVars, asyncVars, driverVars, closureVars, closed, Live, Keepers
  <2>4. EngineInv' BY <1>12, <1>a DEF EngineInv, WakeFirst, At, GoTo, quiet, runtimeVars, opVars, asyncVars, driverVars, closureVars
  <2>5. CheckInv' BY <1>12, <1>b DEF CheckInv, WakeFirst, At, GoTo, quiet, runtimeVars, opVars, asyncVars, driverVars, closureVars, closed, Live, Keepers
  <2> QED BY <2>1, <2>2, <2>3, <2>4, <2>5
<1>13. ASSUME NEW o \in Ops, Resolve(o) PROVE IInv'
  <2>1. TypeOK'
    <3>1. asyncDone' \in BOOLEAN /\ asyncResult' \in Drivers \cup {None}
      BY <1>13, SettleTypes DEF Resolve
    <3>2. /\ kind' \in [Ops -> Kinds \cup {None}]
          /\ gor' \in [Ops -> {"none", "io", "post", "headers", "wakeFirst", "resolve", "wake", "uncount", "done"}]
          /\ awaits' \in [Ops -> Drivers \cup {None}]
      BY <1>13 DEF TypeOK, Resolve, GoTo, Settle, AfterResolve
    <3>3. /\ tracked' \subseteq Ops /\ due' \subseteq Ops /\ events' \subseteq Ops
          /\ settled' \subseteq Ops /\ stage' \in 1..LastStage /\ engine' \in Drivers \cup {None}
          /\ pc' \in [Drivers -> {"start", "setup", "top", "closure", "decide", "sleep", "returned"}]
      BY <1>13 DEF TypeOK, Resolve, GoTo, Settle, AfterResolve, runtimeVars, opVars, asyncVars, driverVars, closureVars
    <3> QED BY <1>13, <3>1, <3>2, <3>3 DEF TypeOK, Resolve, runtimeVars, opVars, asyncVars, driverVars, closureVars
  <2>2. OpInv' BY <1>13, <1>b DEF OpInv, Resolve, GoTo, Settle, AfterResolve, runtimeVars, opVars, asyncVars, driverVars, closureVars, closed, Underway
  <2>3. TrackedInv' BY <1>13, <1>b DEF TrackedInv, Resolve, GoTo, Settle, AfterResolve, runtimeVars, opVars, asyncVars, driverVars, closureVars, closed, Live, Keepers
  <2>4. EngineInv' BY <1>13, <1>a DEF EngineInv, Resolve, GoTo, Settle, AfterResolve, runtimeVars, opVars, asyncVars, driverVars, closureVars
  <2>5. CheckInv' BY <1>13, <1>b DEF CheckInv, Resolve, GoTo, Settle, AfterResolve, runtimeVars, opVars, asyncVars, driverVars, closureVars, closed, Live, Keepers
  <2> QED BY <2>1, <2>2, <2>3, <2>4, <2>5
<1>14. ASSUME NEW o \in Ops, ResolveNoop(o) PROVE IInv'
  <2>1. TypeOK' BY <1>14 DEF TypeOK, ResolveNoop, GoTo, quiet, AfterResolve, runtimeVars, opVars, asyncVars, driverVars, closureVars
  <2>2. OpInv' BY <1>14, <1>b DEF OpInv, ResolveNoop, GoTo, quiet, AfterResolve, runtimeVars, opVars, asyncVars, driverVars, closureVars, closed, Underway
  <2>3. TrackedInv' BY <1>14, <1>b DEF TrackedInv, ResolveNoop, GoTo, quiet, AfterResolve, runtimeVars, opVars, asyncVars, driverVars, closureVars, closed, Live, Keepers
  <2>4. EngineInv' BY <1>14, <1>a DEF EngineInv, ResolveNoop, GoTo, quiet, AfterResolve, runtimeVars, opVars, asyncVars, driverVars, closureVars
  <2>5. CheckInv' BY <1>14, <1>b DEF CheckInv, ResolveNoop, GoTo, quiet, AfterResolve, runtimeVars, opVars, asyncVars, driverVars, closureVars, closed, Live, Keepers
  <2> QED BY <2>1, <2>2, <2>3, <2>4, <2>5
<1>15. ASSUME NEW o \in Ops, Wake(o) PROVE IInv'
  <2>1. TypeOK' BY <1>15 DEF TypeOK, Wake, GoTo, quiet, runtimeVars, opVars, asyncVars, driverVars, closureVars
  <2>2. OpInv' BY <1>15, <1>b DEF OpInv, Wake, GoTo, quiet, runtimeVars, opVars, asyncVars, driverVars, closureVars, closed, Underway
  <2>3. TrackedInv' BY <1>15, <1>b DEF TrackedInv, Wake, GoTo, quiet, runtimeVars, opVars, asyncVars, driverVars, closureVars, closed, Live, Keepers
  <2>4. EngineInv' BY <1>15, <1>a DEF EngineInv, Wake, GoTo, quiet, runtimeVars, opVars, asyncVars, driverVars, closureVars
  <2>5. CheckInv' BY <1>15, <1>b DEF CheckInv, Wake, GoTo, quiet, runtimeVars, opVars, asyncVars, driverVars, closureVars, closed, Live, Keepers
  <2> QED BY <2>1, <2>2, <2>3, <2>4, <2>5
<1>16. ASSUME NEW o \in Ops, Uncount(o) PROVE IInv'
  <2>1. TypeOK' BY <1>16 DEF TypeOK, Uncount, GoTo, quiet, runtimeVars, opVars, asyncVars, driverVars, closureVars
  <2>2. OpInv' BY <1>16, <1>b DEF OpInv, Uncount, GoTo, quiet, runtimeVars, opVars, asyncVars, driverVars, closureVars, closed, Underway
  <2>3. TrackedInv' BY <1>16, <1>b DEF TrackedInv, OpInv, Uncount, GoTo, quiet, runtimeVars, opVars, asyncVars, driverVars, closureVars, closed, Live, Keepers
  <2>4. EngineInv' BY <1>16, <1>a DEF EngineInv, Uncount, GoTo, quiet, runtimeVars, opVars, asyncVars, driverVars, closureVars
  <2>5. CheckInv' BY <1>16, <1>b DEF CheckInv, Uncount, GoTo, quiet, runtimeVars, opVars, asyncVars, driverVars, closureVars, closed, Live, Keepers
  <2> QED BY <2>1, <2>2, <2>3, <2>4, <2>5
<1>17. ASSUME CloseBegin PROVE IInv'
  <2>1. TypeOK' BY <1>17 DEF TypeOK, CloseBegin, runtimeVars, opVars, asyncVars, driverVars, closureVars
  <2>2. OpInv' BY <1>17, <1>b DEF OpInv, CloseBegin, runtimeVars, opVars, asyncVars, driverVars, closureVars, closed, Underway
  <2>3. TrackedInv' BY <1>17, <1>b DEF TrackedInv, CloseBegin, runtimeVars, opVars, asyncVars, driverVars, closureVars, closed, Live, Keepers
  <2>4. EngineInv' BY <1>17, <1>a DEF EngineInv, CloseBegin, runtimeVars, opVars, asyncVars, driverVars, closureVars
  <2>5. CheckInv' BY <1>17, <1>b DEF CheckInv, CloseBegin, runtimeVars, opVars, asyncVars, driverVars, closureVars, closed, Live, Keepers
  <2> QED BY <2>1, <2>2, <2>3, <2>4, <2>5
<1>18. ASSUME CloseManagers PROVE IInv'
  <2>1. TypeOK' BY <1>18 DEF TypeOK, CloseManagers, runtimeVars, opVars, asyncVars, driverVars, closureVars
  <2>2. OpInv' BY <1>18, <1>b DEF OpInv, CloseManagers, runtimeVars, opVars, asyncVars, driverVars, closureVars, closed, Underway
  <2>3. TrackedInv' BY <1>18, <1>b DEF TrackedInv, CloseManagers, runtimeVars, opVars, asyncVars, driverVars, closureVars, closed, Live, Keepers
  <2>4. EngineInv' BY <1>18, <1>a DEF EngineInv, CloseManagers, runtimeVars, opVars, asyncVars, driverVars, closureVars
  <2>5. CheckInv' BY <1>18, <1>b DEF CheckInv, CloseManagers, runtimeVars, opVars, asyncVars, driverVars, closureVars, closed, Live, Keepers
  <2> QED BY <2>1, <2>2, <2>3, <2>4, <2>5
<1>19. ASSUME CloseEnd PROVE IInv'
  <2>1. TypeOK' BY <1>19 DEF TypeOK, CloseEnd, runtimeVars, opVars, asyncVars, driverVars, closureVars
  <2>2. OpInv' BY <1>19, <1>b DEF OpInv, CloseEnd, runtimeVars, opVars, asyncVars, driverVars, closureVars, closed, Underway
  <2>3. TrackedInv' BY <1>19, <1>b DEF TrackedInv, CloseEnd, runtimeVars, opVars, asyncVars, driverVars, closureVars, closed, Live, Keepers
  <2>4. EngineInv' BY <1>19, <1>a DEF EngineInv, CloseEnd, runtimeVars, opVars, asyncVars, driverVars, closureVars
  <2>5. CheckInv' BY <1>19, <1>b DEF CheckInv, CloseEnd, runtimeVars, opVars, asyncVars, driverVars, closureVars, closed, Live, Keepers
  <2> QED BY <2>1, <2>2, <2>3, <2>4, <2>5
<1>20. ASSUME NEW d \in Drivers, Call(d) PROVE IInv'
  <2>1. TypeOK' BY <1>20 DEF TypeOK, Call, DriverTo, DriverReturns, runtimeVars, opVars, asyncVars, driverVars, closureVars
  <2>2. OpInv' BY <1>20, <1>b DEF OpInv, Call, DriverTo, DriverReturns, runtimeVars, opVars, asyncVars, driverVars, closureVars, closed, Underway
  <2>3. TrackedInv' BY <1>20, <1>b DEF TrackedInv, Call, DriverTo, DriverReturns, runtimeVars, opVars, asyncVars, driverVars, closureVars, closed, Live, Keepers
  <2>4. EngineInv' BY <1>20, <1>a DEF EngineInv, Call, DriverTo, DriverReturns, runtimeVars, opVars, asyncVars, driverVars, closureVars
  <2>5. CheckInv' BY <1>20, <1>b DEF CheckInv, Call, DriverTo, DriverReturns, runtimeVars, opVars, asyncVars, driverVars, closureVars, closed, Live, Keepers
  <2> QED BY <2>1, <2>2, <2>3, <2>4, <2>5
<1>21. ASSUME NEW d \in Drivers, Expire(d) PROVE IInv'
  <2>1. TypeOK' BY <1>21 DEF TypeOK, Expire, runtimeVars, opVars, asyncVars, driverVars, closureVars
  <2>2. OpInv' BY <1>21, <1>b DEF OpInv, Expire, runtimeVars, opVars, asyncVars, driverVars, closureVars, closed, Underway
  <2>3. TrackedInv' BY <1>21, <1>b DEF TrackedInv, Expire, runtimeVars, opVars, asyncVars, driverVars, closureVars, closed, Live, Keepers
  <2>4. EngineInv' BY <1>21, <1>a DEF EngineInv, Expire, runtimeVars, opVars, asyncVars, driverVars, closureVars
  <2>5. CheckInv' BY <1>21, <1>b DEF CheckInv, Expire, runtimeVars, opVars, asyncVars, driverVars, closureVars, closed, Live, Keepers
  <2> QED BY <2>1, <2>2, <2>3, <2>4, <2>5
<1>22. ASSUME NEW d \in Drivers, Cancel(d) PROVE IInv'
  <2>1. TypeOK' BY <1>22 DEF TypeOK, Cancel, HasCtx, runtimeVars, opVars, asyncVars, driverVars, closureVars
  <2>2. OpInv' BY <1>22, <1>b DEF OpInv, Cancel, HasCtx, runtimeVars, opVars, asyncVars, driverVars, closureVars, closed, Underway
  <2>3. TrackedInv' BY <1>22, <1>b DEF TrackedInv, Cancel, HasCtx, runtimeVars, opVars, asyncVars, driverVars, closureVars, closed, Live, Keepers
  <2>4. EngineInv' BY <1>22, <1>a DEF EngineInv, Cancel, HasCtx, runtimeVars, opVars, asyncVars, driverVars, closureVars
  <2>5. CheckInv' BY <1>22, <1>b DEF CheckInv, Cancel, HasCtx, runtimeVars, opVars, asyncVars, driverVars, closureVars, closed, Live, Keepers
  <2> QED BY <2>1, <2>2, <2>3, <2>4, <2>5
<1>23. ASSUME NEW d \in Drivers, Setup(d) PROVE IInv'
  <2>1. TypeOK'
    <3>1. asyncDone' \in BOOLEAN /\ asyncResult' \in Drivers \cup {None}
      BY <1>23 DEF Setup
    <3>2. /\ kind' \in [Ops -> Kinds \cup {None}]
          /\ gor' \in [Ops -> {"none", "io", "post", "headers", "wakeFirst", "resolve", "wake", "uncount", "done"}]
          /\ awaits' \in [Ops -> Drivers \cup {None}]
      BY <1>23 DEF TypeOK, Setup, Start, StartNothing, DriverTo, Again
    <3>3. /\ tracked' \subseteq Ops /\ due' \subseteq Ops /\ events' \subseteq Ops
          /\ settled' \subseteq Ops /\ stage' \in 1..LastStage /\ engine' \in Drivers \cup {None}
          /\ pc' \in [Drivers -> {"start", "setup", "top", "closure", "decide", "sleep", "returned"}]
      BY <1>23 DEF TypeOK, Setup, Start, StartNothing, DriverTo, Again, runtimeVars, opVars, asyncVars, driverVars, closureVars
    <3> QED BY <1>23, <3>1, <3>2, <3>3 DEF TypeOK, Setup, DriverTo, runtimeVars, opVars, asyncVars, driverVars, closureVars
  <2>2. OpInv' BY <1>23, <1>b DEF OpInv, Setup, Start, StartNothing, DriverTo, Again, runtimeVars, opVars, asyncVars, driverVars, closureVars, closed, Underway
  <2>3. TrackedInv' BY <1>23, <1>b DEF TrackedInv, Setup, Start, StartNothing, DriverTo, Again, runtimeVars, opVars, asyncVars, driverVars, closureVars, closed, Live, Keepers
  <2>4. EngineInv' BY <1>23, <1>a DEF EngineInv, Setup, Start, StartNothing, DriverTo, Again, runtimeVars, opVars, asyncVars, driverVars, closureVars
  <2>5. CheckInv' BY <1>23, <1>b DEF CheckInv, Setup, Start, StartNothing, DriverTo, Again, runtimeVars, opVars, asyncVars, driverVars, closureVars, closed, Live, Keepers
  <2> QED BY <2>1, <2>2, <2>3, <2>4, <2>5
<1>24. ASSUME NEW d \in Drivers, SetupClosed(d) PROVE IInv'
  <2>1. TypeOK' BY <1>24 DEF TypeOK, SetupClosed, DriverTo, DriverReturns, Again, runtimeVars, opVars, asyncVars, driverVars, closureVars
  <2>2. OpInv' BY <1>24, <1>b DEF OpInv, SetupClosed, DriverTo, DriverReturns, Again, runtimeVars, opVars, asyncVars, driverVars, closureVars, closed, Underway
  <2>3. TrackedInv' BY <1>24, <1>b DEF TrackedInv, SetupClosed, DriverTo, DriverReturns, Again, runtimeVars, opVars, asyncVars, driverVars, closureVars, closed, Live, Keepers
  <2>4. EngineInv' BY <1>24, <1>a DEF EngineInv, SetupClosed, DriverTo, DriverReturns, Again, runtimeVars, opVars, asyncVars, driverVars, closureVars
  <2>5. CheckInv' BY <1>24, <1>b DEF CheckInv, SetupClosed, DriverTo, DriverReturns, Again, runtimeVars, opVars, asyncVars, driverVars, closureVars, closed, Live, Keepers
  <2> QED BY <2>1, <2>2, <2>3, <2>4, <2>5
<1>25. ASSUME NEW d \in Drivers, Top(d) PROVE IInv'
  <2>1. TypeOK' BY <1>25 DEF TypeOK, Top, DriverTo, DriverReturns, runtimeVars, opVars, asyncVars, driverVars, closureVars
  <2>2. OpInv' BY <1>25, <1>b DEF OpInv, Top, DriverTo, DriverReturns, runtimeVars, opVars, asyncVars, driverVars, closureVars, closed, Underway
  <2>3. TrackedInv' BY <1>25, <1>b DEF TrackedInv, Top, DriverTo, DriverReturns, runtimeVars, opVars, asyncVars, driverVars, closureVars, closed, Live, Keepers
  <2>4. EngineInv' BY <1>25, <1>a DEF EngineInv, Top, DriverTo, DriverReturns, runtimeVars, opVars, asyncVars, driverVars, closureVars
  <2>5. CheckInv' BY <1>25, <1>b DEF CheckInv, Top, DriverTo, DriverReturns, runtimeVars, opVars, asyncVars, driverVars, closureVars, closed, Live, Keepers
  <2> QED BY <2>1, <2>2, <2>3, <2>4, <2>5
<1>26. ASSUME NEW d \in Drivers, ClosureBegin(d) PROVE IInv'
  <2>1. TypeOK' BY <1>26 DEF TypeOK, ClosureBegin, runtimeVars, opVars, asyncVars, driverVars, closureVars
  <2>2. OpInv' BY <1>26, <1>b DEF OpInv, ClosureBegin, runtimeVars, opVars, asyncVars, driverVars, closureVars, closed, Underway
  <2>3. TrackedInv' BY <1>26, <1>b DEF TrackedInv, ClosureBegin, runtimeVars, opVars, asyncVars, driverVars, closureVars, closed, Live, Keepers
  <2>4. EngineInv' BY <1>26, <1>a DEF EngineInv, ClosureBegin, runtimeVars, opVars, asyncVars, driverVars, closureVars
  <2>5. CheckInv' BY <1>26, <1>b DEF CheckInv, ClosureBegin, runtimeVars, opVars, asyncVars, driverVars, closureVars, closed, Live, Keepers
  <2> QED BY <2>1, <2>2, <2>3, <2>4, <2>5
<1>27. ASSUME NEW d \in Drivers, ClosureNoop(d) PROVE IInv'
  <2>1. TypeOK' BY <1>27 DEF TypeOK, ClosureNoop, DriverTo, DriverReturns, runtimeVars, opVars, asyncVars, driverVars, closureVars
  <2>2. OpInv' BY <1>27, <1>b DEF OpInv, ClosureNoop, DriverTo, DriverReturns, runtimeVars, opVars, asyncVars, driverVars, closureVars, closed, Underway
  <2>3. TrackedInv' BY <1>27, <1>b DEF TrackedInv, ClosureNoop, DriverTo, DriverReturns, runtimeVars, opVars, asyncVars, driverVars, closureVars, closed, Live, Keepers
  <2>4. EngineInv' BY <1>27, <1>a DEF EngineInv, ClosureNoop, DriverTo, DriverReturns, runtimeVars, opVars, asyncVars, driverVars, closureVars
  <2>5. CheckInv' BY <1>27, <1>b DEF CheckInv, ClosureNoop, DriverTo, DriverReturns, runtimeVars, opVars, asyncVars, driverVars, closureVars, closed, Live, Keepers
  <2> QED BY <2>1, <2>2, <2>3, <2>4, <2>5
<1>28. ASSUME DrainQueue PROVE IInv'
  <2>1. TypeOK'
    <3>1. asyncDone' \in BOOLEAN /\ asyncResult' \in Drivers \cup {None}
      BY <1>28, SettleTypes DEF DrainQueue, TypeOK
    <3>2. /\ kind' \in [Ops -> Kinds \cup {None}]
          /\ gor' \in [Ops -> {"none", "io", "post", "headers", "wakeFirst", "resolve", "wake", "uncount", "done"}]
          /\ awaits' \in [Ops -> Drivers \cup {None}]
      BY <1>28 DEF TypeOK, DrainQueue, Settle, Callbacks, Start, StartNothing, NextStage
    <3>3. /\ tracked' \subseteq Ops /\ due' \subseteq Ops /\ events' \subseteq Ops
          /\ settled' \subseteq Ops /\ stage' \in 1..LastStage /\ engine' \in Drivers \cup {None}
          /\ pc' \in [Drivers -> {"start", "setup", "top", "closure", "decide", "sleep", "returned"}]
      BY <1>28 DEF TypeOK, DrainQueue, Settle, Callbacks, Start, StartNothing, NextStage, runtimeVars, opVars, asyncVars, driverVars, closureVars
    <3> QED BY <1>28, <3>1, <3>2, <3>3 DEF TypeOK, DrainQueue, runtimeVars, opVars, asyncVars, driverVars, closureVars
  <2>2. OpInv' BY <1>28, <1>b DEF OpInv, DrainQueue, Settle, Callbacks, Start, StartNothing, NextStage, runtimeVars, opVars, asyncVars, driverVars, closureVars, closed, Underway
  <2>3. TrackedInv'
    <3> DEFINE D == events \cap Of(DrainOrder[stage])
               gone == IF DrainOrder[stage] = "proc" THEN D ELSE {}
    <3> SUFFICES ASSUME ~closed, NEW p \in Ops, Live(p)' PROVE p \in tracked'
      BY <1>28 DEF TrackedInv, closed, DrainQueue, runtimeVars
    <3>1. settled' = settled \cup D /\ Callbacks(D, gone)
      BY <1>28 DEF DrainQueue, Settle
    <3>2. CASE kind'[p] # kind[p]
      BY <3>1, <3>2, CallbacksEffect
    <3>3. CASE kind'[p] = kind[p]
      <4>1. gor'[p] = gor[p] /\ tracked \ gone \subseteq tracked'
        BY <3>1, <3>3, CallbacksEffect
      <4>2. Live(p) /\ (kind[p] \in Keepers => p \notin D)
        BY <3>1, <3>3, <4>1 DEF Live, Keepers
      <4>3. p \in tracked /\ p \notin gone
        BY <4>2 DEF TrackedInv, OpInv, Live, Of, Keepers
      <4> QED BY <4>1, <4>3
    <3> QED BY <3>2, <3>3
  <2>4. EngineInv' BY <1>28, <1>a DEF EngineInv, DrainQueue, Settle, Callbacks, Start, StartNothing, NextStage, runtimeVars, opVars, asyncVars, driverVars, closureVars
  <2>5. CheckInv' BY <1>28, <1>b DEF CheckInv, DrainQueue, Settle, Callbacks, Start, StartNothing, NextStage, runtimeVars, opVars, asyncVars, driverVars, closureVars, closed, Live, Keepers
  <2> QED BY <2>1, <2>2, <2>3, <2>4, <2>5
<1>29. ASSUME DrainStreams PROVE IInv'
  <2>1. TypeOK' BY <1>29 DEF TypeOK, DrainStreams, Callbacks, Start, StartNothing, NextStage, runtimeVars, opVars, asyncVars, driverVars, closureVars
  <2>2. OpInv' BY <1>29, <1>b DEF OpInv, DrainStreams, Callbacks, Start, StartNothing, NextStage, runtimeVars, opVars, asyncVars, driverVars, closureVars, closed, Underway
  <2>3. TrackedInv' BY <1>29, <1>b DEF TrackedInv, DrainStreams, Callbacks, Start, StartNothing, NextStage, runtimeVars, opVars, asyncVars, driverVars, closureVars, closed, Live, Keepers
  <2>4. EngineInv' BY <1>29, <1>a DEF EngineInv, DrainStreams, Callbacks, Start, StartNothing, NextStage, runtimeVars, opVars, asyncVars, driverVars, closureVars
  <2>5. CheckInv' BY <1>29, <1>b DEF CheckInv, DrainStreams, Callbacks, Start, StartNothing, NextStage, runtimeVars, opVars, asyncVars, driverVars, closureVars, closed, Live, Keepers
  <2> QED BY <2>1, <2>2, <2>3, <2>4, <2>5
<1>30. ASSUME NEW d \in Drivers, LookDone(d) PROVE IInv'
  <2>1. TypeOK' BY <1>30 DEF TypeOK, LookDone, ClosureEnd, NextStage, DriverTo, runtimeVars, opVars, asyncVars, driverVars, closureVars
  <2>2. OpInv' BY <1>30, <1>b DEF OpInv, LookDone, ClosureEnd, NextStage, DriverTo, runtimeVars, opVars, asyncVars, driverVars, closureVars, closed, Underway
  <2>3. TrackedInv' BY <1>30, <1>b DEF TrackedInv, LookDone, ClosureEnd, NextStage, DriverTo, runtimeVars, opVars, asyncVars, driverVars, closureVars, closed, Live, Keepers
  <2>4. EngineInv' BY <1>30, <1>a DEF EngineInv, LookDone, ClosureEnd, NextStage, DriverTo, runtimeVars, opVars, asyncVars, driverVars, closureVars
  <2>5. CheckInv' BY <1>30, <1>b DEF CheckInv, LookDone, ClosureEnd, NextStage, DriverTo, runtimeVars, opVars, asyncVars, driverVars, closureVars, closed, Live, Keepers
  <2> QED BY <2>1, <2>2, <2>3, <2>4, <2>5
<1>31. ASSUME Tick PROVE IInv'
  <2>1. TypeOK'
    <3>1. asyncDone' \in BOOLEAN /\ asyncResult' \in Drivers \cup {None}
      BY <1>31, SettleTypes DEF Tick, TypeOK
    <3>2. /\ kind' \in [Ops -> Kinds \cup {None}]
          /\ gor' \in [Ops -> {"none", "io", "post", "headers", "wakeFirst", "resolve", "wake", "uncount", "done"}]
          /\ awaits' \in [Ops -> Drivers \cup {None}]
      BY <1>31 DEF TypeOK, Tick, Settle, Callbacks, Start, StartNothing, NextStage
    <3>3. /\ tracked' \subseteq Ops /\ due' \subseteq Ops /\ events' \subseteq Ops
          /\ settled' \subseteq Ops /\ stage' \in 1..LastStage /\ engine' \in Drivers \cup {None}
          /\ pc' \in [Drivers -> {"start", "setup", "top", "closure", "decide", "sleep", "returned"}]
      BY <1>31 DEF TypeOK, Tick, Settle, Callbacks, Start, StartNothing, NextStage, runtimeVars, opVars, asyncVars, driverVars, closureVars
    <3> QED BY <1>31, <3>1, <3>2, <3>3 DEF TypeOK, Tick, runtimeVars, opVars, asyncVars, driverVars, closureVars
  <2>2. OpInv' BY <1>31, <1>b DEF OpInv, Tick, Settle, Callbacks, Start, StartNothing, NextStage, runtimeVars, opVars, asyncVars, driverVars, closureVars, closed, Underway
  <2>3. TrackedInv'
    <3> DEFINE D == due
               gone == due
    <3> SUFFICES ASSUME ~closed, NEW p \in Ops, Live(p)' PROVE p \in tracked'
      BY <1>31 DEF TrackedInv, closed, Tick, runtimeVars
    <3>1. settled' = settled \cup D /\ Callbacks(D, gone)
      BY <1>31 DEF Tick, Settle
    <3>2. CASE kind'[p] # kind[p]
      BY <3>1, <3>2, CallbacksEffect
    <3>3. CASE kind'[p] = kind[p]
      <4>1. gor'[p] = gor[p] /\ tracked \ gone \subseteq tracked'
        BY <3>1, <3>3, CallbacksEffect
      <4>2. Live(p) /\ (kind[p] \in Keepers => p \notin D)
        BY <3>1, <3>3, <4>1 DEF Live, Keepers
      <4>3. p \in tracked /\ p \notin gone
        BY <4>2 DEF TrackedInv, OpInv, Live, Of, Keepers
      <4> QED BY <4>1, <4>3
    <3> QED BY <3>2, <3>3
  <2>4. EngineInv' BY <1>31, <1>a DEF EngineInv, Tick, Settle, Callbacks, Start, StartNothing, NextStage, runtimeVars, opVars, asyncVars, driverVars, closureVars
  <2>5. CheckInv' BY <1>31, <1>b DEF CheckInv, Tick, Settle, Callbacks, Start, StartNothing, NextStage, runtimeVars, opVars, asyncVars, driverVars, closureVars, closed, Live, Keepers
  <2> QED BY <2>1, <2>2, <2>3, <2>4, <2>5
<1>32. ASSUME NEW d \in Drivers, LookAgain(d) PROVE IInv'
  <2>1. TypeOK' BY <1>32 DEF TypeOK, LookAgain, ClosureEnd, NextStage, DriverTo, runtimeVars, opVars, asyncVars, driverVars, closureVars
  <2>2. OpInv' BY <1>32, <1>b DEF OpInv, LookAgain, ClosureEnd, NextStage, DriverTo, runtimeVars, opVars, asyncVars, driverVars, closureVars, closed, Underway
  <2>3. TrackedInv' BY <1>32, <1>b DEF TrackedInv, LookAgain, ClosureEnd, NextStage, DriverTo, runtimeVars, opVars, asyncVars, driverVars, closureVars, closed, Live, Keepers
  <2>4. EngineInv' BY <1>32, <1>a DEF EngineInv, LookAgain, ClosureEnd, NextStage, DriverTo, runtimeVars, opVars, asyncVars, driverVars, closureVars
  <2>5. CheckInv' BY <1>32, <1>b DEF CheckInv, LookAgain, ClosureEnd, NextStage, DriverTo, runtimeVars, opVars, asyncVars, driverVars, closureVars, closed, Live, Keepers
  <2> QED BY <2>1, <2>2, <2>3, <2>4, <2>5
<1>33. ASSUME NEW d \in Drivers, Check(d) PROVE IInv'
  <2>1. TypeOK' BY <1>33 DEF TypeOK, Check, ClosureEnd, NextStage, DriverTo, Active, Timers, Of, runtimeVars, opVars, asyncVars, driverVars, closureVars
  <2>2. OpInv' BY <1>33, <1>b DEF OpInv, Check, ClosureEnd, NextStage, DriverTo, Active, Timers, Of, runtimeVars, opVars, asyncVars, driverVars, closureVars, closed, Underway
  <2>3. TrackedInv' BY <1>33, <1>b DEF TrackedInv, Check, ClosureEnd, NextStage, DriverTo, Active, Timers, Of, runtimeVars, opVars, asyncVars, driverVars, closureVars, closed, Live, Keepers
  <2>4. EngineInv' BY <1>33, <1>a DEF EngineInv, Check, ClosureEnd, NextStage, DriverTo, Active, Timers, Of, runtimeVars, opVars, asyncVars, driverVars, closureVars
  <2>5. CheckInv'
    <3> SUFFICES ASSUME engine' # None, ~closed, NEW p \in Ops, Live(p),
                        NEW j \in 1..8, CheckAt(j) < stage'
                 PROVE  kind[p] # CheckOrder[j]
      BY <1>33 DEF CheckInv, Check, closed, Live, runtimeVars, opVars, asyncVars, driverVars, closureVars
    <3>1. /\ engine = d /\ stage' = stage + 1 /\ stage \in 8..15
          /\ ~Active(CheckOrder[stage - 7])
      BY <1>33 DEF Check, ClosureEnd, NextStage
    <3>2. CASE CheckAt(j) < stage
      BY <1>a, <3>1, <3>2 DEF CheckInv
    <3>3. CASE CheckAt(j) = stage
      <4>1. p \in tracked
        BY DEF TrackedInv
      <4>2. kind[p] \in Keepers \cup {"fs", "fetch"}
        BY DEF Live
      <4>3. j = stage - 7
        BY <3>1, <3>3
      <4> QED BY <1>b, <3>1, <4>1, <4>2, <4>3 DEF Active, Of, Keepers
    <3> QED BY <3>1, <3>2, <3>3 DEF TypeOK
  <2> QED BY <2>1, <2>2, <2>3, <2>4, <2>5
<1>34. ASSUME NEW d \in Drivers, DecideIdle(d) PROVE IInv'
  <2>1. TypeOK' BY <1>34 DEF TypeOK, DecideIdle, DriverTo, DriverReturns, runtimeVars, opVars, asyncVars, driverVars, closureVars
  <2>2. OpInv' BY <1>34, <1>b DEF OpInv, DecideIdle, DriverTo, DriverReturns, runtimeVars, opVars, asyncVars, driverVars, closureVars, closed, Underway
  <2>3. TrackedInv' BY <1>34, <1>b DEF TrackedInv, DecideIdle, DriverTo, DriverReturns, runtimeVars, opVars, asyncVars, driverVars, closureVars, closed, Live, Keepers
  <2>4. EngineInv' BY <1>34, <1>a DEF EngineInv, DecideIdle, DriverTo, DriverReturns, runtimeVars, opVars, asyncVars, driverVars, closureVars
  <2>5. CheckInv' BY <1>34, <1>b DEF CheckInv, DecideIdle, DriverTo, DriverReturns, runtimeVars, opVars, asyncVars, driverVars, closureVars, closed, Live, Keepers
  <2> QED BY <2>1, <2>2, <2>3, <2>4, <2>5
<1>35. ASSUME NEW d \in Drivers, Decide(d) PROVE IInv'
  <2>1. TypeOK' BY <1>35 DEF TypeOK, Decide, DriverTo, DriverReturns, Again, runtimeVars, opVars, asyncVars, driverVars, closureVars
  <2>2. OpInv' BY <1>35, <1>b DEF OpInv, Decide, DriverTo, DriverReturns, Again, runtimeVars, opVars, asyncVars, driverVars, closureVars, closed, Underway
  <2>3. TrackedInv' BY <1>35, <1>b DEF TrackedInv, Decide, DriverTo, DriverReturns, Again, runtimeVars, opVars, asyncVars, driverVars, closureVars, closed, Live, Keepers
  <2>4. EngineInv' BY <1>35, <1>a DEF EngineInv, Decide, DriverTo, DriverReturns, Again, runtimeVars, opVars, asyncVars, driverVars, closureVars
  <2>5. CheckInv' BY <1>35, <1>b DEF CheckInv, Decide, DriverTo, DriverReturns, Again, runtimeVars, opVars, asyncVars, driverVars, closureVars, closed, Live, Keepers
  <2> QED BY <2>1, <2>2, <2>3, <2>4, <2>5
<1>36. ASSUME NEW d \in Drivers, WakeByToken(d) PROVE IInv'
  <2>1. TypeOK' BY <1>36 DEF TypeOK, WakeByToken, DriverTo, DriverReturns, Again, runtimeVars, opVars, asyncVars, driverVars, closureVars
  <2>2. OpInv' BY <1>36, <1>b DEF OpInv, WakeByToken, DriverTo, DriverReturns, Again, runtimeVars, opVars, asyncVars, driverVars, closureVars, closed, Underway
  <2>3. TrackedInv' BY <1>36, <1>b DEF TrackedInv, WakeByToken, DriverTo, DriverReturns, Again, runtimeVars, opVars, asyncVars, driverVars, closureVars, closed, Live, Keepers
  <2>4. EngineInv' BY <1>36, <1>a DEF EngineInv, WakeByToken, DriverTo, DriverReturns, Again, runtimeVars, opVars, asyncVars, driverVars, closureVars
  <2>5. CheckInv' BY <1>36, <1>b DEF CheckInv, WakeByToken, DriverTo, DriverReturns, Again, runtimeVars, opVars, asyncVars, driverVars, closureVars, closed, Live, Keepers
  <2> QED BY <2>1, <2>2, <2>3, <2>4, <2>5
<1>37. ASSUME NEW d \in Drivers, WakeByTimer(d) PROVE IInv'
  <2>1. TypeOK' BY <1>37 DEF TypeOK, WakeByTimer, DriverTo, DriverReturns, Again, runtimeVars, opVars, asyncVars, driverVars, closureVars
  <2>2. OpInv' BY <1>37, <1>b DEF OpInv, WakeByTimer, DriverTo, DriverReturns, Again, runtimeVars, opVars, asyncVars, driverVars, closureVars, closed, Underway
  <2>3. TrackedInv' BY <1>37, <1>b DEF TrackedInv, WakeByTimer, DriverTo, DriverReturns, Again, runtimeVars, opVars, asyncVars, driverVars, closureVars, closed, Live, Keepers
  <2>4. EngineInv' BY <1>37, <1>a DEF EngineInv, WakeByTimer, DriverTo, DriverReturns, Again, runtimeVars, opVars, asyncVars, driverVars, closureVars
  <2>5. CheckInv' BY <1>37, <1>b DEF CheckInv, WakeByTimer, DriverTo, DriverReturns, Again, runtimeVars, opVars, asyncVars, driverVars, closureVars, closed, Live, Keepers
  <2> QED BY <2>1, <2>2, <2>3, <2>4, <2>5
<1>38. ASSUME NEW d \in Drivers, WakeByContext(d) PROVE IInv'
  <2>1. TypeOK' BY <1>38 DEF TypeOK, WakeByContext, DriverTo, DriverReturns, runtimeVars, opVars, asyncVars, driverVars, closureVars
  <2>2. OpInv' BY <1>38, <1>b DEF OpInv, WakeByContext, DriverTo, DriverReturns, runtimeVars, opVars, asyncVars, driverVars, closureVars, closed, Underway
  <2>3. TrackedInv' BY <1>38, <1>b DEF TrackedInv, WakeByContext, DriverTo, DriverReturns, runtimeVars, opVars, asyncVars, driverVars, closureVars, closed, Live, Keepers
  <2>4. EngineInv' BY <1>38, <1>a DEF EngineInv, WakeByContext, DriverTo, DriverReturns, runtimeVars, opVars, asyncVars, driverVars, closureVars
  <2>5. CheckInv' BY <1>38, <1>b DEF CheckInv, WakeByContext, DriverTo, DriverReturns, runtimeVars, opVars, asyncVars, driverVars, closureVars, closed, Live, Keepers
  <2> QED BY <2>1, <2>2, <2>3, <2>4, <2>5
<1>39. CASE UNCHANGED vars
  BY <1>39 DEF vars, runtimeVars, opVars, asyncVars, driverVars, closureVars, TypeOK, OpInv, TrackedInv, EngineInv, CheckInv, Live, closed
<1> QED BY <1>1, <1>2, <1>3, <1>4, <1>5, <1>6, <1>7, <1>8, <1>9, <1>10, <1>11, <1>12, <1>13, <1>14, <1>15, <1>16, <1>17, <1>18, <1>19, <1>20, <1>21, <1>22, <1>23, <1>24, <1>25, <1>26, <1>27, <1>28, <1>29, <1>30, <1>31, <1>32, <1>33, <1>34, <1>35, <1>36, <1>37, <1>38, <1>39 DEF Next, Proceed, Outside, DriverStep, InClosure
-----------------------------------------------------------------------------
(* The invariant holds of every behaviour of the loop.                       *)
THEOREM Invariance == Spec => []IInv
  BY Initially, Inductive, PTL DEF Spec

(* Every variable of the loop keeps its type (eventloop.go).                 *)
THEOREM TypeCorrect == Spec => []TypeOK
  <1>1. IInv => TypeOK
    BY DEF IInv
  <1> QED BY <1>1, Invariance, PTL

(* No closure delivers an outcome a second time, whatever the managers       *)
(* (tickManagers, __eventLoop.tick, promiseToJS).                            *)
THEOREM NobodyToldTwice == Spec => []ToldOnce
  <1>1. IInv => ToldOnce
    BY DEF IInv, OpInv, ToldOnce, Underway
  <1> QED BY <1>1, Invariance, PTL

-----------------------------------------------------------------------------
(* What AsyncOps can see of a step: nothing, Close, JavaScript that is told  *)
(* and starts, or a closure that looks round.                                *)
KindsStay == \A o \in started : kind'[o] = kind[o]

JsRuns ==
    /\ UNCHANGED <<life, verdict>>
    /\ \E D \in SUBSET started : settled' = settled \cup D
    /\ KindsStay

LooksRound(d) == ClosureNoop(d) \/ LookDone(d) \/ LookAgain(d) \/ Check(d)

LEMMA Started ==
    ASSUME TypeOK
    PROVE  /\ \A o \in Ops, k \in Kinds, d \in Drivers \cup {None} :
                Start(o, k, d) => KindsStay
           /\ \A D, gone : Callbacks(D, gone) => KindsStay
  <1>1. DOMAIN kind = Ops /\ None \notin Kinds
    BY DEF TypeOK, AllKinds
  <1>2. ASSUME NEW o \in Ops, NEW k \in Kinds, NEW d \in Drivers \cup {None}, Start(o, k, d)
        PROVE  KindsStay
    BY <1>1, <1>2 DEF Start, started, KindsStay
  <1>3. ASSUME NEW D, NEW gone, Callbacks(D, gone) PROVE KindsStay
    BY <1>2, <1>3 DEF Callbacks, StartNothing, started, KindsStay
  <1> QED BY <1>2, <1>3

LEMMA Visible ==
    ASSUME IInv, Next
    PROVE  \/ UNCHANGED <<life, kind, settled, verdict>>
           \/ UNCHANGED <<closed, kind, settled, verdict>>
           \/ CloseBegin
           \/ JsRuns
           \/ \E d \in Drivers : LooksRound(d)
  <1> DEFINE Goal == \/ UNCHANGED <<life, kind, settled, verdict>>
                     \/ UNCHANGED <<closed, kind, settled, verdict>>
                     \/ CloseBegin
                     \/ JsRuns
                     \/ \E d \in Drivers : LooksRound(d)
  <1>t. TypeOK /\ settled \subseteq started /\ events \subseteq started /\ due \subseteq started
        /\ \A o \in Ops : gor[o] = "resolve" => o \in started
        /\ {} \in SUBSET started /\ settled = settled \cup {}
    BY DEF IInv, TypeOK, OpInv, started
  <1>1. ASSUME NEW o \in Ops, NEW k \in Kinds, ExecStart(o, k) PROVE Goal
    BY <1>t, <1>1, Started DEF ExecStart, JsRuns, runtimeVars, driverVars
  <1>2. ASSUME NEW o \in Ops, TimerDue(o) PROVE Goal
    BY <1>2 DEF TimerDue, runtimeVars, opVars, driverVars
  <1>3. ASSUME NEW o \in Ops, ProcExit(o) PROVE Goal
    BY <1>3 DEF ProcExit, At, GoTo, quiet, runtimeVars, opVars, driverVars
  <1>4. ASSUME NEW o \in Ops, FsUncount(o) PROVE Goal
    BY <1>4 DEF FsUncount, At, GoTo, quiet, runtimeVars, opVars, driverVars
  <1>5. ASSUME NEW o \in Ops, FsPost(o) PROVE Goal
    BY <1>5 DEF FsPost, At, GoTo, quiet, runtimeVars, opVars, driverVars
  <1>6. ASSUME NEW o \in Ops, FetchFails(o) PROVE Goal
    BY <1>6 DEF FetchFails, At, GoTo, quiet, runtimeVars, opVars, driverVars
  <1>7. ASSUME NEW o \in Ops, FetchResponds(o) PROVE Goal
    BY <1>7 DEF FetchResponds, At, GoTo, quiet, runtimeVars, opVars, driverVars
  <1>8. ASSUME NEW o \in Ops, FetchPost(o) PROVE Goal
    BY <1>8 DEF FetchPost, At, GoTo, quiet, runtimeVars, opVars, driverVars
  <1>9. ASSUME NEW o \in Ops, BodyEnds(o) PROVE Goal
    BY <1>9 DEF BodyEnds, quiet, runtimeVars, opVars, driverVars
  <1>10. ASSUME NEW o \in Ops, ReaderWake(o) PROVE Goal
    BY <1>10 DEF ReaderWake, quiet, runtimeVars, opVars, driverVars
  <1>11. ASSUME NEW o \in Ops, Awaited(o) PROVE Goal
    BY <1>11 DEF Awaited, At, GoTo, quiet, runtimeVars, opVars, driverVars
  <1>12. ASSUME NEW o \in Ops, WakeFirst(o) PROVE Goal
    BY <1>12 DEF WakeFirst, At, GoTo, quiet, runtimeVars, opVars, driverVars
  <1>13. ASSUME NEW o \in Ops, Resolve(o) PROVE Goal
    <2>1. \/ UNCHANGED kind
          \/ \E p \in Ops, q \in Kinds : kind[p] = None /\ kind' = [kind EXCEPT ![p] = q]
      BY <1>13 DEF Resolve, GoTo
    <2>2. KindsStay
      BY <1>t, <2>1 DEF started, KindsStay, TypeOK, AllKinds
    <2>3. {o} \in SUBSET started /\ settled' = settled \cup {o}
      BY <1>t, <1>13 DEF Resolve, Settle
    <2> QED BY <1>13, <2>2, <2>3 DEF Resolve, JsRuns, runtimeVars, driverVars
  <1>14. ASSUME NEW o \in Ops, ResolveNoop(o) PROVE Goal
    BY <1>14 DEF ResolveNoop, GoTo, quiet, AfterResolve, runtimeVars, opVars, driverVars
  <1>15. ASSUME NEW o \in Ops, Wake(o) PROVE Goal
    BY <1>15 DEF Wake, GoTo, quiet, runtimeVars, opVars, driverVars
  <1>16. ASSUME NEW o \in Ops, Uncount(o) PROVE Goal
    BY <1>16 DEF Uncount, GoTo, quiet, runtimeVars, opVars, driverVars
  <1>17. CASE CloseBegin
    BY <1>17
  <1>18. CASE CloseManagers
    BY <1>18 DEF CloseManagers, closed, driverVars, opVars
  <1>19. CASE CloseEnd
    BY <1>19 DEF CloseEnd, closed, driverVars, opVars
  <1>20. ASSUME NEW d \in Drivers, Call(d) PROVE Goal
    BY <1>20 DEF Call, DriverTo, DriverReturns, runtimeVars, opVars, driverVars
  <1>21. ASSUME NEW d \in Drivers, Expire(d) PROVE Goal
    BY <1>21 DEF Expire, runtimeVars, opVars, driverVars
  <1>22. ASSUME NEW d \in Drivers, Cancel(d) PROVE Goal
    BY <1>22 DEF Cancel, HasCtx, runtimeVars, opVars, driverVars
  <1>23. ASSUME NEW d \in Drivers, Setup(d) PROVE Goal
    BY <1>t, <1>23, Started DEF Setup, JsRuns, StartNothing, started, KindsStay, runtimeVars, driverVars
  <1>24. ASSUME NEW d \in Drivers, SetupClosed(d) PROVE Goal
    BY <1>24 DEF SetupClosed, DriverTo, DriverReturns, Again, runtimeVars, opVars, driverVars
  <1>25. ASSUME NEW d \in Drivers, Top(d) PROVE Goal
    BY <1>25 DEF Top, DriverTo, DriverReturns, runtimeVars, opVars, driverVars
  <1>26. ASSUME NEW d \in Drivers, ClosureBegin(d) PROVE Goal
    BY <1>26 DEF ClosureBegin, runtimeVars, opVars, driverVars
  <1>27. ASSUME NEW d \in Drivers, ClosureNoop(d) PROVE Goal
    <2>1. LooksRound(d) BY <1>27 DEF LooksRound
    <2> QED BY <2>1
  <1>28. CASE DrainQueue
    BY <1>t, <1>28, Started DEF DrainQueue, Settle, JsRuns, runtimeVars, driverVars
  <1>29. CASE DrainStreams
    BY <1>t, <1>29, Started DEF DrainStreams, JsRuns, runtimeVars, driverVars
  <1>30. ASSUME NEW d \in Drivers, LookDone(d) PROVE Goal
    <2>1. LooksRound(d) BY <1>30 DEF LooksRound, LookDone
    <2> QED BY <2>1
  <1>31. CASE Tick
    BY <1>t, <1>31, Started DEF Tick, Settle, JsRuns, runtimeVars, driverVars
  <1>32. ASSUME NEW d \in Drivers, LookAgain(d) PROVE Goal
    <2>1. LooksRound(d) BY <1>32 DEF LooksRound, LookAgain
    <2> QED BY <2>1
  <1>33. ASSUME NEW d \in Drivers, Check(d) PROVE Goal
    <2>1. LooksRound(d) BY <1>33 DEF LooksRound, Check
    <2> QED BY <2>1
  <1>34. ASSUME NEW d \in Drivers, DecideIdle(d) PROVE Goal
    BY <1>34 DEF DecideIdle, DriverTo, DriverReturns, runtimeVars, opVars, driverVars
  <1>35. ASSUME NEW d \in Drivers, Decide(d) PROVE Goal
    BY <1>35 DEF Decide, DriverTo, DriverReturns, Again, runtimeVars, opVars, driverVars
  <1>36. ASSUME NEW d \in Drivers, WakeByToken(d) PROVE Goal
    BY <1>36 DEF WakeByToken, DriverTo, DriverReturns, Again, runtimeVars, opVars, driverVars
  <1>37. ASSUME NEW d \in Drivers, WakeByTimer(d) PROVE Goal
    BY <1>37 DEF WakeByTimer, DriverTo, DriverReturns, Again, runtimeVars, opVars, driverVars
  <1>38. ASSUME NEW d \in Drivers, WakeByContext(d) PROVE Goal
    BY <1>38 DEF WakeByContext, DriverTo, DriverReturns, runtimeVars, opVars, driverVars
  <1> QED
    BY <1>1, <1>2, <1>3, <1>4, <1>5, <1>6, <1>7, <1>8, <1>9, <1>10, <1>11, <1>12, <1>13, <1>14, <1>15, <1>16, <1>17, <1>18, <1>19, <1>20, <1>21, <1>22, <1>23, <1>24, <1>25, <1>26, <1>27, <1>28, <1>29, <1>30, <1>31, <1>32, <1>33, <1>34, <1>35, <1>36, <1>37, <1>38
    DEF Next, Proceed, Outside, DriverStep, InClosure

(* A closure that looks round changes at most what its driver has found.     *)
LEMMA Looking ==
    ASSUME IInv, NEW d \in Drivers, LooksRound(d)
    PROVE  /\ UNCHANGED <<opVars, runtimeVars>>
           /\ \/ UNCHANGED verdict
              \/ /\ pc[d] = "closure"
                 /\ \E v \in {"noop", "done", "recheck", "pending", "idle"} : verdict' = [verdict EXCEPT ![d] = v]
           /\ verdict'[d] = "idle" /\ verdict[d] # "idle" => engine = d /\ Check(d)
  <1>t. verdict \in [Drivers -> {"none", "pending", "idle", "noop", "done", "recheck"}]
    BY DEF IInv, TypeOK
  <1>p. engine = d => pc[d] = "closure"
    BY DEF IInv, EngineInv
  <1>1. CASE ClosureNoop(d)
    <2>1. verdict' = [verdict EXCEPT ![d] = "noop"] /\ pc[d] = "closure" /\ UNCHANGED <<opVars, runtimeVars>>
      BY <1>1 DEF ClosureNoop
    <2> QED BY <1>t, <2>1
  <1>2. CASE LookDone(d)
    <2>1. /\ UNCHANGED verdict \/ verdict' = [verdict EXCEPT ![d] = "done"]
          /\ engine = d /\ UNCHANGED <<opVars, runtimeVars>>
      BY <1>2 DEF LookDone, ClosureEnd
    <2> QED BY <1>t, <1>p, <1>2, <2>1
  <1>3. CASE LookAgain(d)
    <2>1. /\ UNCHANGED verdict \/ verdict' = [verdict EXCEPT ![d] = "recheck"]
          /\ engine = d /\ UNCHANGED <<opVars, runtimeVars>>
      BY <1>3 DEF LookAgain, ClosureEnd
    <2> QED BY <1>t, <1>p, <1>3, <2>1
  <1>4. CASE Check(d)
    <2>1. /\ \/ UNCHANGED verdict
             \/ verdict' = [verdict EXCEPT ![d] = "pending"]
             \/ verdict' = [verdict EXCEPT ![d] = "idle"]
          /\ engine = d /\ UNCHANGED <<opVars, runtimeVars>>
      BY <1>4 DEF Check, ClosureEnd
    <2> QED BY <1>t, <1>p, <1>4, <2>1
  <1> QED BY <1>1, <1>2, <1>3, <1>4 DEF LooksRound

(* A driver finds the loop idle at the last check, when no manager keeps it. *)
LEMMA IdleFound ==
    ASSUME IInv, NEW d \in Drivers, LooksRound(d), verdict'[d] = "idle", verdict[d] # "idle", ~closed,
           NEW o \in Ops
    PROVE  ~Live(o)
  <1> SUFFICES ASSUME Live(o) PROVE FALSE
    OBVIOUS
  <1>t. verdict \in [Drivers -> {"none", "pending", "idle", "noop", "done", "recheck"}]
    BY DEF IInv, TypeOK
  <1>1. engine = d /\ Check(d)
    BY Looking
  <1>2. stage = 15 /\ ~Active("fetch")
    BY <1>t, <1>1, Stages DEF Check, ClosureEnd, NextStage
  <1>3. o \in tracked /\ engine # None
    BY <1>1 DEF IInv, TrackedInv
  <1>4. \A j \in 1..7 : kind[o] # CheckOrder[j]
    BY <1>2, <1>3, Stages DEF IInv, CheckInv
  <1>5. kind[o] # "fetch"
    BY <1>2, <1>3 DEF Active, Of
  <1> QED BY <1>4, <1>5, Stages DEF Live, Keepers

(* A closure that has asked streamManager and goes on found it empty; what   *)
(* is registered since then is a body whose headers JavaScript does not have. *)
BodyInv == engine # None /\ ~closed /\ stage = LastStage => streams \cap settled = {}

LEMMA BodiesAsked == IInv /\ BodyInv /\ [Next]_vars => BodyInv'
  <1> SUFFICES ASSUME IInv, BodyInv, [Next]_vars PROVE BodyInv'
    OBVIOUS
  <1> DEFINE Beside == /\ UNCHANGED <<engine, stage, settled>>
                       /\ closed => closed'
                       /\ streams' \subseteq streams \cup {o \in Ops : gor[o] = "io"}
             Outwith == engine' = None
             Early   == stage' # 15
  <1>t. /\ \A o \in Ops : gor[o] = "io" => o \notin settled
        /\ settled \subseteq Ops /\ streams \subseteq Ops
    BY DEF IInv, TypeOK, OpInv, Underway
  <1>b. Beside => BodyInv'
    BY <1>t DEF BodyInv
  <1>q. Outwith \/ Early => BodyInv'
    BY Stages DEF BodyInv
  <1>0. CASE UNCHANGED vars
    BY <1>b, <1>0 DEF vars, runtimeVars, closureVars, opVars, closed
  <1>1. ASSUME NEW o \in Ops, Proceed(o) \/ Outside(o) PROVE Beside
    <2>1. CASE Proceed(o)
      BY <2>1 DEF Proceed, FsPost, FetchPost, ReaderWake, WakeFirst, ResolveNoop, Wake, Uncount,
                  At, GoTo, quiet, runtimeVars, closureVars, closed
    <2>2. CASE Outside(o)
      BY <2>2 DEF Outside, TimerDue, ProcExit, FsUncount, FetchFails, FetchResponds, BodyEnds, Awaited,
                  At, GoTo, quiet, runtimeVars, closureVars, closed
    <2> QED BY <1>1, <2>1, <2>2
  <1>2. ASSUME NEW o \in Ops, Resolve(o) PROVE Outwith
    BY <1>2 DEF Resolve, closureVars
  <1>3. ASSUME NEW o \in Ops, NEW k \in Kinds, ExecStart(o, k) PROVE Outwith
    BY <1>3 DEF ExecStart, closureVars
  <1>4. CASE CloseBegin \/ CloseManagers \/ CloseEnd
    <2>1. Beside
      BY <1>4 DEF CloseBegin, CloseManagers, CloseEnd, closureVars, opVars, closed
    <2> QED BY <2>1, <1>b
  <1>5. ASSUME NEW d \in Drivers, Call(d) \/ Expire(d) \/ Cancel(d) PROVE Beside
    BY <1>5 DEF Call, Expire, Cancel, runtimeVars, closureVars, opVars, closed
  <1>6. ASSUME NEW d \in Drivers, DriverStep(d) PROVE BodyInv'
    <2>1. CASE Setup(d)
      BY <1>q, <2>1 DEF Setup, closureVars
    <2>2. CASE SetupClosed(d) \/ Top(d) \/ ClosureNoop(d) \/ DecideIdle(d) \/ Decide(d)
               \/ WakeByToken(d) \/ WakeByTimer(d) \/ WakeByContext(d)
      <3>1. Beside
        BY <2>2 DEF SetupClosed, Top, ClosureNoop, DecideIdle, Decide, WakeByToken, WakeByTimer, WakeByContext,
                    runtimeVars, closureVars, opVars, closed
      <3> QED BY <3>1, <1>b
    <2>3. CASE ClosureBegin(d)
      BY <1>q, <2>3 DEF ClosureBegin
    <2>4. CASE engine = d /\ (DrainQueue \/ DrainStreams \/ LookDone(d) \/ Tick \/ LookAgain(d))
      <3>1. stage \in 1..7
        BY <2>4, Stages DEF DrainQueue, DrainStreams, LookDone, Tick, LookAgain
      <3>2. stage' = stage + 1 \/ stage' = 1
        BY <2>4 DEF DrainQueue, DrainStreams, LookDone, Tick, LookAgain, NextStage, ClosureEnd
      <3> QED BY <1>q, <3>1, <3>2
    <2>5. CASE Check(d)
      <3>1. CASE engine' = None
        BY <1>q, <3>1
      <3>2. CASE engine' # None
        <4>1. /\ stage \in 8..15 /\ stage # 15 /\ stage' = stage + 1 /\ ~Active(CheckOrder[stage - 7])
              /\ UNCHANGED <<opVars, runtimeVars>>
          BY <2>5, <3>2, Stages DEF Check, NextStage, ClosureEnd
        <4>2. CASE stage = 14
          BY <4>1, <4>2, Stages DEF BodyInv, Active, opVars
        <4>3. CASE stage # 14
          BY <1>q, <4>1, <4>3
        <4> QED BY <4>2, <4>3
      <3> QED BY <3>1, <3>2
    <2> QED BY <1>6, <2>1, <2>2, <2>3, <2>4, <2>5 DEF DriverStep, InClosure
  <1> QED BY <1>b, <1>q, <1>0, <1>1, <1>2, <1>3, <1>4, <1>5, <1>6 DEF Next

(* Every pending operation keeps the loop alive, whatever the managers       *)
(* (hasPendingLocked).                                                       *)
THEOREM PendingWork == Spec => PendingKeepsAlive
  <1> DEFINE NotIdle == \A d \in Drivers : FindsIdle(d) /\ ~closed => \A o \in Ops : ~Unfinished(o)
  <1>1. IInv /\ BodyInv /\ [Next]_vars => [NotIdle]_vars
    <2> SUFFICES ASSUME IInv, BodyInv, Next, NEW d \in Drivers, FindsIdle(d), ~closed, NEW o \in Ops, Unfinished(o)
                 PROVE  FALSE
      OBVIOUS
    <2>1. verdict[d] # "idle" /\ verdict'[d] = "idle" /\ engine = d
      BY DEF IInv, EngineInv, FindsIdle
    <2>2. LooksRound(d)
      <3>t. DOMAIN verdict = Drivers
        BY DEF IInv, TypeOK
      <3>1. PICK e \in Drivers : LooksRound(e)
        BY <2>1, Visible DEF JsRuns, CloseBegin, driverVars
      <3> QED BY <2>1, <3>t, <3>1, Looking
    <2>3. ~Live(o)
      BY <2>1, <2>2, IdleFound
    <2>4. kind[o] \in AllKinds \cup {None}
      BY DEF IInv, TypeOK
    <2>5. streams \cap settled = {}
      <3>1. verdict \in [Drivers -> {"none", "pending", "idle", "noop", "done", "recheck"}]
        BY DEF IInv, TypeOK
      <3>2. Check(d)
        BY <2>1, <2>2, Looking
      <3>3. stage = LastStage
        BY <2>1, <3>1, <3>2, Stages DEF Check, ClosureEnd, NextStage
      <3> QED BY <2>1, <3>3 DEF BodyInv
    <2> QED BY <2>3, <2>4, <2>5 DEF IInv, OpInv, Unfinished, Underway, Live, Keepers, AllKinds
  <1>2. Init => BodyInv
    BY DEF Init, BodyInv
  <1>3. Init /\ []IInv /\ [][Next]_vars => [][NotIdle]_vars
    BY <1>1, <1>2, BodiesAsked, PTL
  <1> QED BY <1>3, Invariance DEF Spec, PendingKeepsAlive

-----------------------------------------------------------------------------
(* Every step of the loop is a step of AsyncOps, or none that it can see.    *)
LEMMA Simulation ==
    ASSUME IInv, [Next]_vars
    PROVE  [Async!Next]_(Async!vars)
  <1> DEFINE avars == <<~closed, Kept(started), Kept(settled), Idle>>
  <1> SUFFICES ASSUME Next PROVE Async!Next \/ UNCHANGED avars
    BY DEF vars, runtimeVars, opVars, driverVars, Async!vars, started, Kept, Idle, closed
  <1>t. /\ kind \in [Ops -> Kinds \cup {None}]
        /\ settled \subseteq started /\ started \subseteq Ops
        /\ DOMAIN verdict = Drivers
    BY DEF IInv, TypeOK, OpInv, started
  <1>1. CASE \/ UNCHANGED <<life, kind, settled, verdict>>
             \/ UNCHANGED <<closed, kind, settled, verdict>>
    BY <1>1 DEF closed, started, Kept, Idle
  <1>2. CASE CloseBegin
    <2>1. Async!Close
      BY <1>2 DEF CloseBegin, Async!Close, closed, started, Kept, Idle, opVars, driverVars
    <2> QED BY <2>1 DEF Async!Next
  <1>3. CASE JsRuns
    <2>0. \A o \in started : kind'[o] = kind[o]
      BY <1>3 DEF JsRuns, KindsStay
    <2>1. PICK D \in SUBSET started : settled' = settled \cup D
      BY <1>3 DEF JsRuns
    <2>2. \E N \in SUBSET (Kept(started) \ Kept(settled)) : Kept(settled)' = Kept(settled) \cup N
      <3>1. Kept(settled)' = Kept(settled) \cup Kept(D)
        BY <1>t, <2>0, <2>1 DEF Kept
      <3>2. Kept(settled)' = Kept(settled) \cup (Kept(D) \ Kept(settled))
        BY <3>1
      <3>3. (Kept(D) \ Kept(settled)) \in SUBSET (Kept(started) \ Kept(settled))
        BY <2>1 DEF Kept
      <3> QED BY <3>2, <3>3
    <2>3. \E O \in SUBSET Ops : Kept(started)' = Kept(started) \cup O
      <3>1. Kept(started) \subseteq Kept(started)'
        <4> SUFFICES ASSUME NEW o \in started, kind[o] \in Keepers
                     PROVE  o \in started' /\ kind'[o] \in Keepers
          BY DEF Kept
        <4>1. kind'[o] = kind[o] /\ o \in Ops /\ kind[o] # None
          BY <2>0 DEF started
        <4> QED BY <4>1 DEF started
      <3>2. Kept(started)' \in SUBSET Ops
        BY DEF Kept, started
      <3> QED BY <3>1, <3>2
    <2>4. (~closed)' = ~closed /\ Idle' = Idle
      BY <1>3 DEF JsRuns, closed, Idle
    <2> QED BY <2>2, <2>3, <2>4 DEF Async!Next, Async!RunJavaScript
  <1>4. ASSUME NEW d \in Drivers, LooksRound(d) PROVE Async!Next \/ UNCHANGED avars
    <2>1. UNCHANGED <<life, kind, settled>>
      BY <1>4, Looking DEF opVars, runtimeVars
    <2>2. CASE UNCHANGED verdict
      BY <2>1, <2>2 DEF closed, started, Kept, Idle
    <2>3. CASE verdict' # verdict
      <3>1. PICK v : verdict' = [verdict EXCEPT ![d] = v]
        BY <1>4, <2>3, Looking
      <3>2. verdict[d] # "idle"
        BY <1>4, <2>3, Looking DEF IInv, EngineInv
      <3>3. CASE v = "idle"
        <4>1. ~closed => Kept(settled) = Kept(started)
          <5> SUFFICES ASSUME ~closed, NEW o \in started, kind[o] \in Keepers PROVE o \in settled
            BY <1>t DEF Kept
          <5>1. ~Live(o)
            BY <1>4, <1>t, <3>1, <3>2, <3>3, IdleFound DEF started
          <5> QED BY <1>t, <5>1 DEF Live, started
        <4>2. Idle' = Idle \cup {d}
          BY <1>t, <3>1, <3>3 DEF Idle
        <4>3. Async!FindIdle(d)
          BY <2>1, <4>1, <4>2 DEF Async!FindIdle, started, Kept, closed
        <4> QED BY <4>3 DEF Async!Next
      <3>4. CASE v # "idle"
        BY <1>t, <2>1, <3>1, <3>2, <3>4 DEF closed, started, Kept, Idle
      <3> QED BY <3>3, <3>4
    <2> QED BY <2>2, <2>3
  <1> QED BY <1>1, <1>2, <1>3, <1>4, Visible

(* Of the operations whose manager keeps them until their outcome has been   *)
(* delivered, the loop (RunEventLoop, EvalAsync and their closures)          *)
(* implements AsyncOps, whatever other operations there are.                 *)
THEOREM Refinement == Spec => ImplementsAsyncOps
  <1>1. Init => Async!Init
    BY DEF Init, Async!Init, closed, started, Kept, Idle
  <1>2. IInv /\ [Next]_vars => [Async!Next]_(Async!vars)
    BY Simulation
  <1> QED BY <1>1, <1>2, Invariance, PTL DEF Spec, ImplementsAsyncOps, Async!Spec
=============================================================================

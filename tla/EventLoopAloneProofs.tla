------------------------ MODULE EventLoopAloneProofs ------------------------
(***************************************************************************)
(* Proofs of what holds of a driver that no other one disturbs: EvalAsync  *)
(* returns the value of its own promise when it is the only one, and no    *)
(* wake-up is lost when one driver takes all tokens.                       *)
(***************************************************************************)
EXTENDS EventLoopProofs

USE LoopAssumption

-----------------------------------------------------------------------------
(* Whose value EvalAsync returns. *)

Begun(d)      == pc[d] \notin {"start", "setup"}
Answerless(d) == ~closed => \A o \in Kept(Ops) : awaits[o] # d

(* A value that is passed on - by an operation, in __asyncResult, to a       *)
(* driver - is that of a driver that called EvalAsync.                       *)
OwnerInv ==
    /\ asyncDone => asyncResult # None
    /\ asyncResult # None => Awaits(asyncResult)
    /\ \A o \in Ops : awaits[o] # None => kind[o] # None /\ Awaits(awaits[o]) /\ Begun(awaits[o])
    /\ \A d \in Drivers :
         /\ pc[d] = "start" => ~Awaits(d)
         /\ pc[d] = "setup" => Awaits(d)
         /\ got[d] # None => Awaits(got[d])
         /\ verdict[d] = "done" \/ ret[d] = "value" => got[d] # None
         /\ verdict[d] = "noop" => closed
         /\ ret[d] = "stuck" => Begun(d)

(* A closure that asks the managers has seen that the promise of its driver  *)
(* is not settled; nothing can settle it but the operation that awaits it.   *)
LookInv ==
    \A d \in Drivers :
        /\ engine = d /\ Awaits(d) /\ stage > AgainStage => ~asyncDone
        /\ Alone(d) => \A o \in settled : awaits[o] = d => asyncDone
        /\ Alone(d) /\ Awaits(d) /\ (verdict[d] = "idle" \/ ret[d] = "stuck") => Answerless(d)

OwnInv == OwnerInv /\ LookInv

LEMMA OwnInit == Init => OwnInv
  <1> SUFFICES ASSUME Init PROVE OwnInv
    OBVIOUS
  <1>1. \A d \in Drivers : ~Awaits(d)
    BY DEF Init, Awaits, AllModes
  <1>2. \A o \in Ops : awaits[o] = None
    BY DEF Init
  <1>3. \A d \in Drivers : pc[d] = "start" /\ got[d] = None /\ verdict[d] = "none" /\ ret[d] = "none"
    BY DEF Init
  <1>4. asyncDone = FALSE /\ asyncResult = None /\ settled = {}
    BY DEF Init
  <1> QED
    BY <1>1, <1>2, <1>3, <1>4 DEF OwnInv, OwnerInv, LookInv

(* Steps that no driver sees. *)
LEMMA OwnUnseen ==
    ASSUME OwnInv, closed => closed',
           UNCHANGED <<closureVars, asyncVars, pc, mode, verdict, ret, got, kind, awaits, settled>>
    PROVE  OwnInv'
  <1>1. OwnerInv'
    BY DEF OwnInv, OwnerInv, Begun, Awaits, closureVars, asyncVars
  <1>2. LookInv'
    BY DEF OwnInv, LookInv, Alone, Answerless, Kept, Awaits, closureVars, asyncVars
  <1> QED
    BY <1>1, <1>2 DEF OwnInv

(* JavaScript runs: outcomes are delivered, and an operation may start. *)
Runs(D) ==
    /\ UNCHANGED <<driverVars, life, engine>>
    /\ settled' = settled \cup D
    /\ IF {awaits[o] : o \in D} \ {None} = {} THEN UNCHANGED asyncVars
       ELSE asyncDone' = TRUE /\ asyncResult' \in {awaits[o] : o \in D} \ {None}
    /\ \A o \in Ops : kind[o] # None => kind'[o] = kind[o] /\ awaits'[o] = awaits[o]
    /\ \A o \in Ops : kind[o] = None => awaits'[o] = None
    /\ engine # None => ~(stage' > AgainStage)

LEMMA OwnRuns ==
    ASSUME IInv, OwnInv, NEW D \in SUBSET Ops, Runs(D)
    PROVE  OwnInv'
  <1>1. \A d \in Drivers : /\ Awaits(d)' = Awaits(d) /\ Begun(d)' = Begun(d) /\ Alone(d)' = Alone(d)
                           /\ UNCHANGED <<pc[d], got[d], verdict[d], ret[d]>>
    BY DEF Runs, Awaits, Begun, Alone, driverVars
  <1>d. UNCHANGED <<pc, mode, verdict, ret, got>>
    BY DEF Runs, driverVars
  <1>2. closed' = closed /\ None \notin Drivers
    BY DEF Runs, closed
  <1>3. awaits \in [Ops -> Drivers \cup {None}] /\ asyncResult \in Drivers \cup {None} /\ settled \subseteq Ops
        /\ got \in [Drivers -> Drivers \cup {None}]
    BY DEF IInv, TypeOK
  <1>4. \A o \in Ops : awaits'[o] # None => awaits'[o] = awaits[o] /\ kind[o] # None /\ kind'[o] = kind[o]
    BY DEF Runs
  <1>5. \A o \in D : awaits[o] # None => asyncDone'
    BY DEF Runs
  <1>6. asyncDone => asyncDone'
    BY DEF Runs, asyncVars
  <1>7. OwnerInv'
    <2>1. (asyncDone => asyncResult # None)' /\ (asyncResult # None => Awaits(asyncResult))'
      <3>1. CASE asyncDone' = asyncDone /\ asyncResult' = asyncResult
        BY <1>1, <1>3, <3>1 DEF OwnInv, OwnerInv
      <3>2. CASE asyncDone' = TRUE /\ asyncResult' \in {awaits[o] : o \in D} \ {None}
        <4>1. PICK o \in D : asyncResult' = awaits[o] /\ awaits[o] # None
          BY <3>2
        <4>2. awaits[o] \in Drivers /\ Awaits(awaits[o])
          BY <1>3, <4>1 DEF OwnInv, OwnerInv
        <4> QED
          BY <1>d, <4>1, <4>2 DEF Awaits
      <3> QED
        BY <3>1, <3>2 DEF Runs, asyncVars
    <2>2. \A o \in Ops : (awaits[o] # None => kind[o] # None /\ Awaits(awaits[o]) /\ Begun(awaits[o]))'
      BY <1>4, <1>d DEF OwnInv, OwnerInv, Awaits, Begun
    <2>3. \A d \in Drivers :
            /\ (pc[d] = "start" => ~Awaits(d))'
            /\ (pc[d] = "setup" => Awaits(d))'
            /\ (got[d] # None => Awaits(got[d]))'
            /\ (verdict[d] = "done" \/ ret[d] = "value" => got[d] # None)'
            /\ (verdict[d] = "noop" => closed)'
            /\ (ret[d] = "stuck" => Begun(d))'
      BY <1>2, <1>d DEF OwnInv, OwnerInv, Awaits, Begun
    <2> QED
      BY <2>1, <2>2, <2>3 DEF OwnerInv
  <1>8. LookInv'
    <2> SUFFICES ASSUME NEW d \in Drivers
                 PROVE  /\ (engine = d /\ Awaits(d) /\ stage > AgainStage => ~asyncDone)'
                        /\ (Alone(d) => \A o \in settled : awaits[o] = d => asyncDone)'
                        /\ (Alone(d) /\ Awaits(d) /\ (verdict[d] = "idle" \/ ret[d] = "stuck") => Answerless(d))'
      BY DEF LookInv
    <2>1. engine' # d \/ ~(stage' > AgainStage)
      BY <1>2 DEF Runs
    <2>2. ASSUME Alone(d)', NEW o \in settled', awaits'[o] = d PROVE asyncDone'
      <3>1. o \in Ops /\ (o \in settled \/ o \in D)
        BY <1>3 DEF Runs
      <3>2. awaits[o] = d /\ d # None
        BY <1>2, <1>4, <2>2, <3>1
      <3> QED
        BY <1>1, <1>5, <1>6, <2>2, <3>1, <3>2 DEF OwnInv, LookInv
    <2>3. ASSUME Answerless(d) PROVE Answerless(d)'
      BY <1>2, <1>4, <2>3 DEF Answerless, Kept
    <2> QED
      BY <1>1, <2>1, <2>2, <2>3 DEF OwnInv, LookInv
  <1> QED
    BY <1>7, <1>8 DEF OwnInv

(* The steps of a driver d that neither start nor tell anything: its own     *)
(* fields change, and what the others have is left alone.                    *)
Aside(d) ==
    /\ UNCHANGED <<life, kind, awaits, settled, asyncVars, mode>>
    /\ \A e \in Drivers \ {d} : UNCHANGED <<pc[e], verdict[e], ret[e], got[e]>> /\ (engine' = e => engine = e /\ stage' = stage)
    /\ Begun(d) => Begun(d)'

LEMMA OwnAside ==
    ASSUME IInv, OwnInv, NEW d \in Drivers, Aside(d),
           /\ (pc[d] = "start" => ~Awaits(d))'
           /\ (pc[d] = "setup" => Awaits(d))'
           /\ (got[d] # None => Awaits(got[d]))'
           /\ (verdict[d] = "done" \/ ret[d] = "value" => got[d] # None)'
           /\ (verdict[d] = "noop" => closed)'
           /\ (ret[d] = "stuck" => Begun(d))'
           /\ (engine = d /\ Awaits(d) /\ stage > AgainStage => ~asyncDone)'
           /\ (Alone(d) /\ Awaits(d) /\ (verdict[d] = "idle" \/ ret[d] = "stuck") => Answerless(d))'
    PROVE  OwnInv'
  <1>1. UNCHANGED <<life, kind, awaits, settled, asyncDone, asyncResult, mode>>
    BY DEF Aside, asyncVars
  <1>2. \A e \in Drivers : Begun(e) => Begun(e)'
    BY DEF Aside, Begun
  <1>3. OwnerInv'
    <2>1. \A o \in Ops : (awaits[o] # None => kind[o] # None /\ Awaits(awaits[o]) /\ Begun(awaits[o]))'
      <3>1. awaits \in [Ops -> Drivers \cup {None}]
        BY DEF IInv, TypeOK
      <3> QED
        BY <1>1, <1>2, <3>1 DEF OwnInv, OwnerInv, Awaits, Begun
    <2>2. \A e \in Drivers \ {d} :
            /\ (pc[e] = "start" => ~Awaits(e))'
            /\ (pc[e] = "setup" => Awaits(e))'
            /\ (got[e] # None => Awaits(got[e]))'
            /\ (verdict[e] = "done" \/ ret[e] = "value" => got[e] # None)'
            /\ (verdict[e] = "noop" => closed)'
            /\ (ret[e] = "stuck" => Begun(e))'
      BY <1>1 DEF Aside, OwnInv, OwnerInv, Awaits, Begun, closed
    <2> QED
      BY <1>1, <2>1, <2>2 DEF OwnInv, OwnerInv, Awaits
  <1>4. LookInv'
    <2>1. \A e \in Drivers :
            /\ (Alone(e) => \A o \in settled : awaits[o] = e => asyncDone)'
            /\ Answerless(e)' = Answerless(e) /\ Alone(e)' = Alone(e) /\ Awaits(e)' = Awaits(e)
      BY <1>1 DEF OwnInv, LookInv, Alone, Awaits, Answerless, closed, Kept
    <2>2. \A e \in Drivers \ {d} :
            /\ (engine = e /\ Awaits(e) /\ stage > AgainStage => ~asyncDone)'
            /\ (Alone(e) /\ Awaits(e) /\ (verdict[e] = "idle" \/ ret[e] = "stuck") => Answerless(e))'
      BY <1>1, <2>1 DEF Aside, OwnInv, LookInv
    <2> QED
      BY <2>1, <2>2 DEF LookInv
  <1> QED
    BY <1>3, <1>4 DEF OwnInv

(* A driver is called: it has done nothing yet. *)
LEMMA OwnCall ==
    ASSUME IInv, OwnInv, NEW d \in Drivers, Call(d)
    PROVE  OwnInv'
  <1>1. UNCHANGED <<life, engine, stage, kind, awaits, settled, asyncDone, asyncResult, verdict, got>>
    BY DEF Call, runtimeVars, closureVars, opVars, asyncVars
  <1>2. PICK m \in Modes :
          /\ mode' = [mode EXCEPT ![d] = m]
          /\ \/ \E r \in {"closed", "ctxErr"} : DriverReturns(d, r)
             \/ DriverTo(d, CASE m = "run" -> "closure" [] m = "runCtx" -> "top" [] OTHER -> "setup")
    BY DEF Call
  <1>t. /\ pc \in [Drivers -> {"start", "setup", "top", "closure", "decide", "sleep", "returned"}]
        /\ ret \in [Drivers -> {"none", "nil", "closed", "ctxErr", "timeout", "value", "stuck"}]
        /\ mode \in [Drivers -> AllModes \cup {None}]
        /\ awaits \in [Ops -> Drivers \cup {None}] /\ None \notin Drivers /\ asyncResult \in Drivers \cup {None}
        /\ got \in [Drivers -> Drivers \cup {None}] /\ settled \subseteq Ops
    BY DEF IInv, TypeOK
  <1>3. /\ pc[d] = "start" /\ ~Awaits(d) /\ engine # d /\ verdict[d] # "idle" /\ ret[d] # "stuck"
        /\ \A o \in Ops : awaits[o] # d
    <2>1. pc[d] = "start"
      BY DEF Call
    <2> QED
      BY <2>1, <1>t DEF OwnInv, OwnerInv, IInv, EngineInv, Begun
  <1>4. /\ \A e \in Drivers \ {d} : Awaits(e)' = Awaits(e) /\ pc'[e] = pc[e] /\ ret'[e] = ret[e]
        /\ \A e \in Drivers : Alone(e)' => Alone(e)
    <2>1. \A e \in Drivers \ {d} : Awaits(e)' = Awaits(e)
      BY <1>2, <1>t DEF Awaits
    <2>2. \A e \in Drivers \ {d} : pc'[e] = pc[e] /\ ret'[e] = ret[e]
      BY <1>2, <1>t DEF DriverReturns, DriverTo
    <2>3. \A e \in Drivers : Awaits(e) => Awaits(e)'
      BY <2>1, <1>3
    <2> QED
      BY <2>1, <2>2, <2>3 DEF Alone
  <1>5. /\ pc'[d] # "start" /\ (pc'[d] = "setup" => Awaits(d)')
        /\ ret'[d] # "stuck" /\ (ret'[d] = "value" => ret[d] = "value")
    <2>1. m \in {"run", "runCtx", "await", "awaitCtx"}
      BY DEF AllModes
    <2>2. CASE \E r \in {"closed", "ctxErr"} : DriverReturns(d, r)
      BY <1>t, <2>2 DEF DriverReturns
    <2>3. CASE DriverTo(d, CASE m = "run" -> "closure" [] m = "runCtx" -> "top" [] OTHER -> "setup")
      BY <1>2, <1>3, <1>t, <2>1, <2>3 DEF DriverTo, Awaits
    <2> QED
      BY <1>2, <2>2, <2>3
  <1>6. \A e \in Drivers : Awaits(e) => Awaits(e)'
    BY <1>3, <1>4
  <1>7. OwnerInv'
    <2>1. (asyncDone => asyncResult # None)' /\ (asyncResult # None => Awaits(asyncResult))'
      BY <1>1, <1>6, <1>t DEF OwnInv, OwnerInv, Awaits
    <2>2. ASSUME NEW o \in Ops, awaits'[o] # None
          PROVE  kind'[o] # None /\ Awaits(awaits[o])' /\ Begun(awaits[o])'
      <3>1. awaits[o] \in Drivers \ {d} /\ awaits'[o] = awaits[o] /\ kind'[o] = kind[o]
        BY <1>1, <1>3, <1>t, <2>2
      <3>2. kind[o] # None /\ Awaits(awaits[o]) /\ Begun(awaits[o])
        BY <3>1, <1>t DEF OwnInv, OwnerInv
      <3> QED
        BY <1>4, <3>1, <3>2 DEF Awaits, Begun
    <2>3. ASSUME NEW e \in Drivers
          PROVE  /\ (pc[e] = "start" => ~Awaits(e))'
                 /\ (pc[e] = "setup" => Awaits(e))'
                 /\ (got[e] # None => Awaits(got[e]))'
                 /\ (verdict[e] = "done" \/ ret[e] = "value" => got[e] # None)'
                 /\ (verdict[e] = "noop" => closed)'
                 /\ (ret[e] = "stuck" => Begun(e))'
      <3>1. (got[e] # None => Awaits(got[e]))'
        BY <1>1, <1>6, <1>t DEF OwnInv, OwnerInv, Awaits
      <3>2. CASE e = d
        BY <1>1, <1>5, <3>1, <3>2 DEF OwnInv, OwnerInv, closed
      <3>3. CASE e # d
        BY <1>1, <1>4, <3>1, <3>3 DEF OwnInv, OwnerInv, closed, Begun
      <3> QED
        BY <3>2, <3>3
    <2> QED
      BY <2>1, <2>2, <2>3 DEF OwnerInv
  <1>8. LookInv'
    <2> SUFFICES ASSUME NEW e \in Drivers
                 PROVE  /\ (engine = e /\ Awaits(e) /\ stage > AgainStage => ~asyncDone)'
                        /\ (Alone(e) => \A o \in settled : awaits[o] = e => asyncDone)'
                        /\ (Alone(e) /\ Awaits(e) /\ (verdict[e] = "idle" \/ ret[e] = "stuck") => Answerless(e))'
      BY DEF LookInv
    <2>1. Answerless(e)' = Answerless(e)
      BY <1>1 DEF Answerless, Kept, closed
    <2>2. CASE e = d
      BY <1>1, <1>3, <1>5, <1>t, <2>2
    <2>3. CASE e # d
      BY <1>1, <1>4, <2>1, <2>3 DEF OwnInv, LookInv
    <2> QED
      BY <2>2, <2>3
  <1> QED
    BY <1>7, <1>8 DEF OwnInv

(* EvalAsync clears the globals and evaluates its code. *)
LEMMA OwnSetup ==
    ASSUME IInv, OwnInv, NEW d \in Drivers, Setup(d)
    PROVE  OwnInv'
  <1>1. UNCHANGED <<life, engine, stage, settled, verdict, got, mode, ret>>
    BY DEF Setup, DriverTo, runtimeVars, closureVars
  <1>t. /\ pc \in [Drivers -> {"start", "setup", "top", "closure", "decide", "sleep", "returned"}]
        /\ kind \in [Ops -> Kinds \cup {None}] /\ None \notin Kinds
        /\ awaits \in [Ops -> Drivers \cup {None}] /\ None \notin Drivers
        /\ got \in [Drivers -> Drivers \cup {None}] /\ settled \subseteq Ops
    BY DEF IInv, TypeOK, AllKinds
  <1>2. /\ pc[d] = "setup" /\ Awaits(d) /\ engine = None /\ ~Begun(d) /\ verdict[d] # "idle" /\ ret[d] # "stuck"
        /\ \A o \in Ops : awaits[o] # d
    <2>1. pc[d] = "setup" /\ engine = None
      BY DEF Setup
    <2> QED
      BY <2>1, <1>t DEF OwnInv, OwnerInv, IInv, EngineInv, Begun
  <1>3. pc'[d] \in {"top", "closure"} /\ \A e \in Drivers \ {d} : pc'[e] = pc[e]
    BY <1>t DEF Setup, DriverTo, Again
  <1>4. \A e \in Drivers : Awaits(e)' = Awaits(e) /\ Alone(e)' = Alone(e)
    BY <1>1 DEF Awaits, Alone
  <1>5. (asyncDone' => asyncResult' # None) /\ (asyncResult' # None => asyncResult' = d)
    BY <1>t DEF Setup
  <1>6. /\ \A o \in Ops : kind[o] # None => kind'[o] = kind[o] /\ awaits'[o] = awaits[o]
        /\ \A o \in Ops : kind[o] = None => \/ awaits'[o] = awaits[o] /\ kind'[o] = kind[o]
                                            \/ awaits'[o] = d /\ kind'[o] # None
    <2>1. CASE UNCHANGED <<kind, awaits>>
      BY <2>1
    <2>2. CASE \E p \in Ops, k \in Kinds : Start(p, k, d)
      <3>1. PICK p \in Ops, k \in Kinds : kind[p] = None /\ kind' = [kind EXCEPT ![p] = k] /\ awaits' = [awaits EXCEPT ![p] = d]
        BY <2>2 DEF Start
      <3> QED
        BY <1>t, <3>1
    <2> QED
      BY <2>1, <2>2 DEF Setup, StartNothing
  <1>7. OwnerInv'
    <2>1. (asyncDone => asyncResult # None)' /\ (asyncResult # None => Awaits(asyncResult))'
      BY <1>1, <1>2, <1>5 DEF Awaits
    <2>2. ASSUME NEW o \in Ops, awaits'[o] # None
          PROVE  kind'[o] # None /\ Awaits(awaits[o])' /\ Begun(awaits[o])'
      <3>1. CASE awaits'[o] = d /\ kind'[o] # None
        BY <1>1, <1>2, <1>3, <3>1 DEF Awaits, Begun
      <3>2. CASE awaits'[o] = awaits[o] /\ kind'[o] = kind[o]
        <4>1. awaits[o] \in Drivers \ {d}
          BY <1>2, <1>t, <2>2, <3>2
        <4>2. kind[o] # None /\ Awaits(awaits[o]) /\ Begun(awaits[o])
          BY <4>1, <1>t DEF OwnInv, OwnerInv
        <4> QED
          BY <1>1, <1>3, <3>2, <4>1, <4>2 DEF Awaits, Begun
      <3> QED
        BY <1>6, <3>1, <3>2
    <2>3. \A e \in Drivers :
            /\ (pc[e] = "start" => ~Awaits(e))'
            /\ (pc[e] = "setup" => Awaits(e))'
            /\ (got[e] # None => Awaits(got[e]))'
            /\ (verdict[e] = "done" \/ ret[e] = "value" => got[e] # None)'
            /\ (verdict[e] = "noop" => closed)'
            /\ (ret[e] = "stuck" => Begun(e))'
      BY <1>1, <1>2, <1>3 DEF OwnInv, OwnerInv, Awaits, Begun, closed
    <2> QED
      BY <2>1, <2>2, <2>3 DEF OwnerInv
  <1>8. LookInv'
    <2> SUFFICES ASSUME NEW e \in Drivers
                 PROVE  /\ (engine = e /\ Awaits(e) /\ stage > AgainStage => ~asyncDone)'
                        /\ (Alone(e) => \A o \in settled : awaits[o] = e => asyncDone)'
                        /\ (Alone(e) /\ Awaits(e) /\ (verdict[e] = "idle" \/ ret[e] = "stuck") => Answerless(e))'
      BY DEF LookInv
    <2>1. engine' # e
      BY <1>1, <1>2, <1>t
    <2>2. CASE e = d
      <3>1. \A o \in settled : kind[o] # None
        BY <1>t DEF IInv, OpInv
      <3>2. \A o \in settled' : awaits'[o] # e
        BY <1>1, <1>2, <1>6, <1>t, <2>2, <3>1
      <3> QED
        BY <1>1, <1>2, <2>1, <2>2, <3>2
    <2>3. CASE e # d
      <3>1. ~Alone(e)'
        BY <1>2, <1>4, <2>3 DEF Alone
      <3> QED
        BY <2>1, <3>1
    <2> QED
      BY <2>2, <2>3
  <1> QED
    BY <1>7, <1>8 DEF OwnInv

(* The other steps of a driver. *)
LEMMA OwnDriver ==
    ASSUME IInv, OwnInv, NEW d \in Drivers,
           \/ SetupClosed(d) \/ Top(d) \/ ClosureBegin(d) \/ ClosureNoop(d) \/ LookDone(d) \/ LookAgain(d)
           \/ Check(d) \/ DecideIdle(d) \/ Decide(d) \/ WakeByToken(d) \/ WakeByTimer(d) \/ WakeByContext(d)
    PROVE  OwnInv'
  <1> DEFINE Others == \A e \in Drivers \ {d} : UNCHANGED <<pc[e], verdict[e], ret[e], got[e]>>
  <1>t. /\ pc \in [Drivers -> {"start", "setup", "top", "closure", "decide", "sleep", "returned"}]
        /\ ret \in [Drivers -> {"none", "nil", "closed", "ctxErr", "timeout", "value", "stuck"}]
        /\ verdict \in [Drivers -> {"none", "pending", "idle", "noop", "done", "recheck"}]
        /\ got \in [Drivers -> Drivers \cup {None}] /\ None \notin Drivers
        /\ asyncResult \in Drivers \cup {None}
    BY DEF IInv, TypeOK
  <1>k. UNCHANGED <<life, kind, awaits, settled, asyncVars, mode>>
    BY DEF SetupClosed, Top, ClosureBegin, ClosureNoop, LookDone, LookAgain, Check, DecideIdle, Decide, WakeByToken, WakeByTimer,
           WakeByContext, runtimeVars, opVars, driverVars
  <1>m. /\ Awaits(d)' = Awaits(d) /\ Alone(d)' = Alone(d) /\ Answerless(d)' = Answerless(d) /\ closed' = closed
        /\ asyncDone' = asyncDone /\ (got'[d] = got[d] => (got[d] # None => Awaits(got[d]))')
    BY <1>k DEF Awaits, Alone, Answerless, Kept, closed, asyncVars, OwnInv, OwnerInv
  <1> DEFINE Fine ==
          /\ Others /\ Begun(d)' /\ \A e \in Drivers \ {d} : engine' = e => engine = e /\ stage' = stage
          /\ \/ /\ got'[d] = got[d]
                /\ verdict'[d] = "done" \/ ret'[d] = "value" => verdict[d] = "done" \/ ret[d] = "value"
             \/ asyncDone /\ got'[d] = asyncResult
          /\ verdict'[d] = "noop" => verdict[d] = "noop" \/ closed
          /\ engine' = d /\ stage' > AgainStage => (engine = d /\ stage > AgainStage) \/ ~(Awaits(d) /\ asyncDone)
          /\ verdict'[d] = "idle" \/ ret'[d] = "stuck" =>
               verdict[d] = "idle" \/ ret[d] = "stuck" \/ (Alone(d) /\ Awaits(d) => Answerless(d))
  <1>f. ASSUME Fine PROVE OwnInv'
    <2>1. Aside(d)
      BY <1>k, <1>f DEF Aside
    <2>2. (pc[d] = "start" => ~Awaits(d))' /\ (pc[d] = "setup" => Awaits(d))' /\ (ret[d] = "stuck" => Begun(d))'
      BY <1>f DEF Begun
    <2>3. (got[d] # None => Awaits(got[d]))' /\ (verdict[d] = "done" \/ ret[d] = "value" => got[d] # None)'
      <3>1. CASE asyncDone /\ got'[d] = asyncResult
        BY <1>k, <3>1 DEF OwnInv, OwnerInv, Awaits
      <3>2. CASE ~(asyncDone /\ got'[d] = asyncResult)
        BY <1>f, <1>m, <3>2 DEF OwnInv, OwnerInv
      <3> QED
        BY <3>1, <3>2
    <2>4. (verdict[d] = "noop" => closed)'
      BY <1>f, <1>m DEF OwnInv, OwnerInv
    <2>5. (engine = d /\ Awaits(d) /\ stage > AgainStage => ~asyncDone)'
      BY <1>f, <1>m DEF OwnInv, LookInv, AgainStage
    <2>6. (Alone(d) /\ Awaits(d) /\ (verdict[d] = "idle" \/ ret[d] = "stuck") => Answerless(d))'
      BY <1>f, <1>m DEF OwnInv, LookInv
    <2> HIDE DEF Fine
    <2> QED
      BY <2>1, <2>2, <2>3, <2>4, <2>5, <2>6, OwnAside
  <1>s. stage \in 1..15 /\ AgainStage = 7 /\ DoneStage = 5 /\ LastStage = 15 /\ CheckAt(1) = 8
    BY Stages DEF IInv, TypeOK
  <1> HIDE DEF Others
  <1>1. ASSUME SetupClosed(d) PROVE Fine
    <2>1. /\ UNCHANGED <<engine, stage, verdict, got>> /\ pc'[d] \in {"returned", "top", "closure"}
          /\ ret'[d] = ret[d] \/ ret'[d] = "closed"
      BY <1>1, <1>t DEF SetupClosed, DriverReturns, DriverTo, Again, closureVars
    <2>2. Others
      BY <1>1, <1>t DEF SetupClosed, DriverReturns, DriverTo, Others
    <2> QED
      BY <2>1, <2>2 DEF Begun
  <1>2. ASSUME Top(d) PROVE Fine
    <2>1. /\ UNCHANGED <<engine, stage, verdict, got>> /\ pc'[d] \in {"returned", "closure"}
          /\ ret'[d] = ret[d] \/ ret'[d] = "ctxErr"
      BY <1>2, <1>t DEF Top, DriverReturns, DriverTo, closureVars
    <2>2. Others
      BY <1>2, <1>t DEF Top, DriverReturns, DriverTo, Others
    <2> QED
      BY <2>1, <2>2 DEF Begun
  <1>3. ASSUME ClosureBegin(d) PROVE Fine
    <2>1. UNCHANGED <<pc, verdict, ret, got>> /\ pc[d] = "closure" /\ engine' = d /\ stage' = 1
      BY <1>3 DEF ClosureBegin, driverVars
    <2>2. Others
      BY <2>1 DEF Others
    <2> QED
      BY <1>s, <2>1, <2>2 DEF Begun
  <1>4. ASSUME ClosureNoop(d) PROVE Fine
    <2>1. /\ UNCHANGED <<engine, stage, ret, got>> /\ pc'[d] = "decide" /\ engine # d /\ verdict'[d] = "noop" /\ closed
      BY <1>4, <1>t DEF ClosureNoop, DriverTo, closureVars
    <2>2. Others
      BY <1>4, <1>t DEF ClosureNoop, DriverTo, Others
    <2> QED
      BY <2>1, <2>2 DEF Begun
  <1>5. ASSUME LookDone(d) PROVE Fine
    <2>0. engine = d /\ stage = 5 /\ pc[d] = "closure"
      BY <1>5, <1>s DEF LookDone, IInv, EngineInv
    <2>1. CASE Awaits(d) /\ asyncDone
      <3>1. /\ engine' = None /\ verdict'[d] = "done" /\ got'[d] = asyncResult /\ pc'[d] = "decide" /\ ret' = ret
        BY <1>5, <1>t, <2>1 DEF LookDone, ClosureEnd, DriverTo
      <3>2. Others
        BY <1>5, <1>t, <2>1 DEF LookDone, ClosureEnd, DriverTo, Others
      <3> QED
        BY <1>t, <2>1, <3>1, <3>2 DEF Begun
    <2>2. CASE ~(Awaits(d) /\ asyncDone)
      <3>1. UNCHANGED <<verdict, pc, ret, got>> /\ engine' = d
        BY <1>5, <2>0, <2>2 DEF LookDone, NextStage
      <3>2. Others
        BY <3>1 DEF Others
      <3> QED
        BY <2>0, <2>2, <3>1, <3>2 DEF Begun
    <2> QED
      BY <2>1, <2>2
  <1>6. ASSUME LookAgain(d) PROVE Fine
    <2>0. engine = d /\ pc[d] = "closure"
      BY <1>6 DEF LookAgain, IInv, EngineInv
    <2>1. CASE Awaits(d) /\ asyncDone
      <3>1. engine' = None /\ verdict'[d] = "recheck" /\ pc'[d] = "decide" /\ ret' = ret /\ got' = got
        BY <1>6, <1>t, <2>1 DEF LookAgain, ClosureEnd, DriverTo
      <3>2. Others
        BY <1>6, <1>t, <2>1 DEF LookAgain, ClosureEnd, DriverTo, Others
      <3> QED
        BY <1>t, <2>1, <3>1, <3>2 DEF Begun
    <2>2. CASE ~(Awaits(d) /\ asyncDone)
      <3>1. UNCHANGED <<verdict, pc, ret, got>> /\ engine' = d
        BY <1>6, <2>0, <2>2 DEF LookAgain, NextStage
      <3>2. Others
        BY <3>1 DEF Others
      <3> QED
        BY <2>0, <2>2, <3>1, <3>2 DEF Begun
    <2> QED
      BY <2>1, <2>2
  <1>7. ASSUME Check(d) PROVE Fine
    <2>0. engine = d /\ stage > AgainStage /\ pc[d] = "closure" /\ verdict[d] # "idle" /\ got' = got
      BY <1>7, <1>s DEF Check, IInv, EngineInv
    <2>1. \/ UNCHANGED <<verdict, pc, ret>> /\ engine' = d
          \/ /\ engine' = None /\ pc' = [pc EXCEPT ![d] = "decide"] /\ ret' = ret
             /\ \E v \in {"pending", "idle"} : verdict' = [verdict EXCEPT ![d] = v]
      BY <1>7, <2>0 DEF Check, ClosureEnd, NextStage, DriverTo
    <2>2. Others
      BY <1>t, <2>0, <2>1 DEF Others
    <2>3. ASSUME verdict'[d] = "idle", Alone(d), Awaits(d) PROVE Answerless(d)
      <3>1. ~asyncDone
        BY <2>0, <2>3 DEF OwnInv, LookInv
      <3>2. LooksRound(d)
        BY <1>7 DEF LooksRound
      <3> SUFFICES ASSUME ~closed, NEW o \in Kept(Ops), awaits[o] = d PROVE FALSE
        BY DEF Answerless
      <3>3. o \in Ops /\ kind[o] \in Keepers
        BY DEF Kept
      <3>4. ~Live(o)
        BY <2>0, <2>3, <3>2, <3>3, IdleFound
      <3>5. o \in settled
        BY <3>3, <3>4 DEF Live
      <3> QED
        BY <2>3, <3>1, <3>5 DEF OwnInv, LookInv
    <2> QED
      BY <1>t, <2>0, <2>1, <2>2, <2>3 DEF Begun
  <1>8. ASSUME DecideIdle(d) PROVE Fine
    <2>1. /\ UNCHANGED <<engine, stage, verdict, got>> /\ pc'[d] = "returned" /\ verdict[d] \in {"idle", "noop"}
          /\ ret'[d] \in {"stuck", "nil"}
      BY <1>8, <1>t DEF DecideIdle, DriverReturns, closureVars
    <2>2. Others
      BY <1>8, <1>t DEF DecideIdle, DriverReturns, Others
    <2>3. verdict[d] = "noop" => Answerless(d)
      BY DEF OwnInv, OwnerInv, Answerless
    <2> QED
      BY <2>1, <2>2, <2>3 DEF Begun
  <1>9. ASSUME Decide(d) PROVE Fine
    <2>1. /\ UNCHANGED <<engine, stage, verdict, got>> /\ pc'[d] \in {"returned", "top", "closure", "sleep"}
          /\ \/ ret'[d] = ret[d]
             \/ ret'[d] \in {"ctxErr", "timeout"}
             \/ ret'[d] = "value" /\ verdict[d] = "done"
      BY <1>9, <1>t DEF Decide, DriverReturns, DriverTo, Again, closureVars
    <2>2. Others
      BY <1>9, <1>t DEF Decide, DriverReturns, DriverTo, Others
    <2> QED
      BY <2>1, <2>2 DEF Begun
  <1>10. ASSUME WakeByToken(d) \/ WakeByTimer(d) \/ WakeByContext(d) PROVE Fine
    <2>1. /\ UNCHANGED <<engine, stage, verdict, got>> /\ pc'[d] \in {"returned", "top", "closure"}
          /\ ret'[d] = ret[d] \/ ret'[d] = "ctxErr"
      BY <1>10, <1>t DEF WakeByToken, WakeByTimer, WakeByContext, DriverReturns, DriverTo, Again, closureVars
    <2>2. Others
      BY <1>10, <1>t DEF WakeByToken, WakeByTimer, WakeByContext, DriverReturns, DriverTo, Others
    <2> QED
      BY <2>1, <2>2 DEF Begun
  <1> HIDE DEF Fine
  <1> QED
    BY <1>f, <1>1, <1>2, <1>3, <1>4, <1>5, <1>6, <1>7, <1>8, <1>9, <1>10

(* Steps of the goroutines of operations and of Close. *)
LEMMA OwnGoroutines ==
    ASSUME IInv, OwnInv,
           \/ \E o \in Ops : Proceed(o) \/ Outside(o)
           \/ CloseBegin \/ CloseManagers \/ CloseEnd
           \/ \E d \in Drivers : Expire(d) \/ Cancel(d)
    PROVE  OwnInv'
  <1> DEFINE Unseen == (closed => closed') /\ UNCHANGED <<closureVars, asyncVars, pc, mode, verdict, ret, got, kind, awaits, settled>>
  <1> USE DEF closed, quiet, runtimeVars, driverVars, opVars
  <1>1. ASSUME NEW o \in Ops, Proceed(o) PROVE Unseen
    BY <1>1 DEF Proceed, FsPost, FetchPost, ReaderWake, WakeFirst, ResolveNoop, Wake, Uncount, At, GoTo
  <1>2. ASSUME NEW o \in Ops, Outside(o) PROVE Unseen
    BY <1>2 DEF Outside, TimerDue, ProcExit, FsUncount, FetchFails, FetchResponds, BodyEnds, Awaited, At, GoTo
  <1>3. ASSUME CloseBegin \/ CloseManagers \/ CloseEnd PROVE Unseen
    BY <1>3 DEF CloseBegin, CloseManagers, CloseEnd
  <1>4. ASSUME NEW d \in Drivers, Expire(d) \/ Cancel(d) PROVE Unseen
    BY <1>4 DEF Expire, Cancel
  <1>5. Unseen
    BY <1>1, <1>2, <1>3, <1>4
  <1> HIDE DEF closed
  <1> QED
    BY <1>5, OwnUnseen

(* Steps in which JavaScript runs, other than the setup script of EvalAsync. *)
LEMMA OwnScripts ==
    ASSUME IInv, OwnInv,
           \/ \E o \in Ops, k \in Kinds : ExecStart(o, k)
           \/ \E o \in Ops : Resolve(o)
           \/ DrainQueue \/ DrainStreams \/ Tick
    PROVE  OwnInv'
  <1>t. /\ kind \in [Ops -> Kinds \cup {None}] /\ DOMAIN awaits = Ops /\ None \notin Kinds
        /\ settled \subseteq Ops /\ events \subseteq Ops /\ due \subseteq Ops
        /\ \A o \in Ops : awaits[o] # None => kind[o] # None
        /\ {} \in SUBSET Ops
    BY DEF IInv, TypeOK, AllKinds, OwnInv, OwnerInv
  <1> DEFINE Spares == /\ \A o \in Ops : kind[o] # None => kind'[o] = kind[o] /\ awaits'[o] = awaits[o]
                       /\ \A o \in Ops : kind[o] = None => awaits'[o] = None
  <1>a. ASSUME UNCHANGED <<kind, awaits>> PROVE Spares
    BY <1>t, <1>a
  <1>b. ASSUME NEW o \in Ops, NEW k \in Kinds, Start(o, k, None) PROVE Spares
    <2>1. kind[o] = None /\ kind' = [kind EXCEPT ![o] = k] /\ awaits' = [awaits EXCEPT ![o] = None]
      BY <1>b DEF Start
    <2> QED
      BY <1>t, <2>1
  <1>c. ASSUME NEW D, NEW gone, Callbacks(D, gone) PROVE Spares
    BY <1>a, <1>b, <1>c DEF Callbacks, StartNothing
  <1>s. stage \in 1..15 /\ AgainStage = 7 /\ TickStage = 6 /\ Drains = 1..4
    BY Stages DEF IInv, TypeOK
  <1>r. ASSUME NEW D \in SUBSET Ops, UNCHANGED <<driverVars, life, engine>>, Settle(D), Spares,
               engine # None => ~(stage' > AgainStage)
        PROVE  OwnInv'
    <2>1. Runs(D)
      BY <1>r DEF Runs, Settle
    <2> QED
      BY <2>1, OwnRuns
  <1>n. ASSUME UNCHANGED <<settled, asyncVars>> PROVE Settle({})
    BY <1>n DEF Settle
  <1> HIDE DEF Spares
  <1>1. ASSUME NEW o \in Ops, NEW k \in Kinds, ExecStart(o, k) PROVE OwnInv'
    <2>1. UNCHANGED <<driverVars, life, engine, settled, asyncVars>> /\ engine = None /\ Start(o, k, None)
      BY <1>1 DEF ExecStart, runtimeVars, closureVars
    <2> QED
      BY <1>b, <1>n, <1>r, <1>t, <2>1
  <1>2. ASSUME NEW o \in Ops, Resolve(o) PROVE OwnInv'
    <2>1. UNCHANGED <<driverVars, life, engine>> /\ engine = None /\ Settle({o})
      BY <1>2 DEF Resolve, runtimeVars, closureVars
    <2>2. /\ UNCHANGED awaits
          /\ UNCHANGED kind \/ \E p \in Ops, k \in Kinds : kind[p] = None /\ kind' = [kind EXCEPT ![p] = k]
      BY <1>2 DEF Resolve, GoTo
    <2>3. Spares
      BY <1>t, <2>2 DEF Spares
    <2> QED
      BY <1>r, <2>1, <2>3
  <1>3. ASSUME DrainQueue PROVE OwnInv'
    <2> DEFINE D == events \cap Of(DrainOrder[stage])
    <2>1. /\ UNCHANGED <<driverVars, life, engine>> /\ stage' = stage + 1 /\ stage \in Drains
          /\ Settle(D) /\ Callbacks(D, IF DrainOrder[stage] = "proc" THEN D ELSE {})
      BY <1>3 DEF DrainQueue, NextStage, runtimeVars
    <2>2. Spares /\ D \in SUBSET Ops /\ ~(stage' > AgainStage)
      BY <1>c, <1>s, <1>t, <2>1
    <2> HIDE DEF D
    <2> QED
      BY <1>r, <2>1, <2>2
  <1>4. ASSUME DrainStreams PROVE OwnInv'
    <2>1. /\ UNCHANGED <<driverVars, life, engine, settled, asyncVars>> /\ stage' = stage + 1 /\ stage \in Drains
          /\ Callbacks(chunks, {})
      BY <1>4 DEF DrainStreams, NextStage, runtimeVars
    <2>2. Spares /\ ~(stage' > AgainStage)
      BY <1>c, <1>s, <2>1
    <2> QED
      BY <1>n, <1>r, <1>t, <2>1, <2>2
  <1>5. ASSUME Tick PROVE OwnInv'
    <2>1. /\ UNCHANGED <<driverVars, life, engine>> /\ stage' = stage + 1 /\ stage = TickStage
          /\ Settle(due) /\ Callbacks(due, due)
      BY <1>5 DEF Tick, NextStage, runtimeVars
    <2>2. Spares /\ ~(stage' > AgainStage) /\ due \in SUBSET Ops
      BY <1>c, <1>s, <1>t, <2>1
    <2> QED
      BY <1>r, <2>1, <2>2
  <1> QED
    BY <1>1, <1>2, <1>3, <1>4, <1>5

LEMMA OwnStep == IInv /\ OwnInv /\ [Next]_vars => OwnInv'
  <1> SUFFICES ASSUME IInv, OwnInv, [Next]_vars PROVE OwnInv'
    OBVIOUS
  <1>1. CASE UNCHANGED vars
    <2>1. closed' = closed /\ UNCHANGED <<closureVars, asyncVars, pc, mode, verdict, ret, got, kind, awaits, settled>>
      BY <1>1 DEF vars, closed, runtimeVars, driverVars, opVars
    <2> QED
      BY <2>1, OwnUnseen
  <1>2. ASSUME NEW d \in Drivers, DriverStep(d) PROVE OwnInv'
    <2>1. CASE Setup(d)
      BY <2>1, OwnSetup
    <2>2. CASE DrainQueue \/ DrainStreams \/ Tick
      BY <2>2, OwnScripts
    <2>3. CASE \/ SetupClosed(d) \/ Top(d) \/ ClosureBegin(d) \/ ClosureNoop(d) \/ LookDone(d) \/ LookAgain(d)
               \/ Check(d) \/ DecideIdle(d) \/ Decide(d) \/ WakeByToken(d) \/ WakeByTimer(d) \/ WakeByContext(d)
      BY <2>3, OwnDriver
    <2> QED
      BY <1>2, <2>1, <2>2, <2>3 DEF DriverStep, InClosure
  <1> QED
    BY <1>1, <1>2, OwnScripts, OwnGoroutines, OwnCall DEF Next

THEOREM Ownership == Spec => []OwnInv
  <1>1. IInv /\ OwnInv /\ [Next]_vars => OwnInv'
    BY OwnStep
  <1> QED
    BY <1>1, OwnInit, Invariance, PTL DEF Spec

(* An EvalAsync that no other one overlaps or follows returns the value of   *)
(* its own promise, and does not give up while an operation can settle it.   *)
THEOREM OwnResults == Spec => []OwnResultAlone
  <1>1. IInv /\ OwnInv => OwnResultAlone
    <2> SUFFICES ASSUME IInv, OwnInv, NEW d \in Drivers, Alone(d)
                 PROVE  /\ ret[d] = "value" => got[d] = d
                        /\ ret[d] = "stuck" /\ ~closed => \A o \in Kept(Ops) : awaits[o] # d
      BY DEF OwnResultAlone
    <2>1. ASSUME ret[d] = "value" PROVE got[d] = d
      <3>1. got[d] \in Drivers /\ Awaits(got[d])
        BY <2>1 DEF OwnInv, OwnerInv, IInv, TypeOK
      <3> QED
        BY <3>1 DEF Alone
    <2>2. ASSUME ret[d] = "stuck", ~closed, NEW o \in Kept(Ops), awaits[o] = d PROVE FALSE
      <3>1. o \in Ops /\ d # None
        BY DEF Kept
      <3>2. Awaits(d)
        BY <2>2, <3>1 DEF OwnInv, OwnerInv
      <3> QED
        BY <2>2, <3>2 DEF OwnInv, LookInv, Answerless
    <2> QED
      BY <2>1, <2>2
  <1> QED
    BY <1>1, Ownership, Invariance, PTL

-----------------------------------------------------------------------------
(* No wake-up is lost, if there is one driver to take the tokens. *)

OneDriver == \A d, e \in Drivers : d = e

Signalled == wakeCh \/ \E o \in Ops : gor[o] = "wake"
BodyHeard == wakeCh \/ \E o \in Ops : reader[o] = "wake"

(* d will not drain the manager at stage i of a closure before it sleeps. *)
Passed(d, i) ==
    \/ pc[d] = "sleep"
    \/ pc[d] = "decide" /\ verdict[d] = "pending"
    \/ engine = d /\ stage > i

(* What is queued when its manager has been passed has a token in wakeCh, or *)
(* a goroutine that is about to send one.                                    *)
WakeInv ==
    \A d \in Drivers :
        /\ \A i \in Drains, o \in events : Passed(d, i) /\ kind[o] = DrainOrder[i] => Signalled
        /\ chunks # {} /\ Passed(d, 4) => BodyHeard

(* The body of a response has no reader before there is a response. *)
ReaderInv == \A o \in Ops : gor[o] \in {"none", "io"} => reader[o] = "none"

LEMMA WakeInit == Init => WakeInv /\ ReaderInv
  BY DEF Init, WakeInv, ReaderInv

LEMMA ReaderStep == IInv /\ ReaderInv /\ [Next]_vars => ReaderInv'
  <1> SUFFICES ASSUME IInv, ReaderInv, [Next]_vars PROVE ReaderInv'
    OBVIOUS
  <1>t. /\ DOMAIN gor = Ops /\ DOMAIN reader = Ops
        /\ \A o \in Ops : kind[o] = None => gor[o] = "none"
    BY DEF IInv, TypeOK, OpInv
  <1> DEFINE Waits(o) == gor[o] \in {"none", "io"}
             Same == UNCHANGED reader /\ \A o \in Ops : Waits(o)' => Waits(o)
  <1>1. ASSUME Same PROVE ReaderInv'
    BY <1>1 DEF ReaderInv
  <1>2. ASSUME NEW o \in Ops, NEW k, NEW d, Start(o, k, d) PROVE \A p \in Ops : Waits(p)' => Waits(p)
    BY <1>2, <1>t DEF Start
  <1>3. ASSUME NEW D, NEW gone, Callbacks(D, gone) PROVE \A p \in Ops : Waits(p)' => Waits(p)
    BY <1>2, <1>3 DEF Callbacks, StartNothing
  <1>4. ASSUME NEW o \in Ops, NEW k \in Kinds, ExecStart(o, k) PROVE ReaderInv'
    BY <1>1, <1>2, <1>4 DEF ExecStart
  <1>5. ASSUME NEW o \in Ops, Proceed(o) PROVE ReaderInv'
    <2>1. CASE ReaderWake(o)
      BY <1>t, <2>1 DEF ReaderWake, ReaderInv
    <2>2. CASE ~ReaderWake(o)
      <3>1. UNCHANGED reader /\ \E l \in {"wake", "resolve", "uncount", "done"} : GoTo(o, l)
        BY <1>5, <2>2 DEF Proceed, FsPost, FetchPost, WakeFirst, ResolveNoop, Wake, Uncount, At, AfterResolve
      <3> QED
        BY <1>1, <1>t, <3>1 DEF GoTo
    <2> QED
      BY <2>1, <2>2
  <1>6. ASSUME NEW o \in Ops, Outside(o) PROVE ReaderInv'
    <2>1. CASE BodyEnds(o)
      BY <1>t, <2>1 DEF BodyEnds, ReaderInv
    <2>2. CASE FetchResponds(o)
      BY <1>t, <2>2 DEF FetchResponds, At, GoTo, ReaderInv
    <2>3. CASE TimerDue(o)
      BY <1>1, <2>3 DEF TimerDue
    <2>4. CASE ProcExit(o) \/ FsUncount(o) \/ FetchFails(o) \/ Awaited(o)
      <3>1. UNCHANGED reader /\ \E l \in {"wake", "post", "resolve", "wakeFirst"} : GoTo(o, l)
        BY <2>4 DEF ProcExit, FsUncount, FetchFails, Awaited, At
      <3> QED
        BY <1>1, <1>t, <3>1 DEF GoTo
    <2> QED
      BY <1>6, <2>1, <2>2, <2>3, <2>4 DEF Outside
  <1>7. ASSUME NEW o \in Ops, Resolve(o) PROVE ReaderInv'
    <2>1. UNCHANGED reader /\ gor[o] = "resolve" /\ AfterResolve(o) \in {"wake", "done"}
      BY <1>7 DEF Resolve, AfterResolve
    <2>2. CASE GoTo(o, AfterResolve(o))
      BY <1>1, <1>t, <2>1, <2>2 DEF GoTo
    <2>3. CASE ~GoTo(o, AfterResolve(o))
      <3>1. PICK p \in Ops, k \in Kinds :
              /\ kind[p] = None
              /\ gor' = [gor EXCEPT ![o] = AfterResolve(o), ![p] = IF k = "timer" THEN "done" ELSE "io"]
        BY <1>7, <2>3 DEF Resolve
      <3> QED
        BY <1>1, <1>t, <2>1, <3>1
    <2> QED
      BY <2>2, <2>3
  <1>8. ASSUME NEW d \in Drivers, DriverStep(d) PROVE ReaderInv'
    <2>1. CASE DrainQueue \/ DrainStreams \/ Tick
      BY <1>1, <1>3, <2>1 DEF DrainQueue, DrainStreams, Tick
    <2>2. CASE Setup(d)
      <3>1. UNCHANGED reader
        BY <2>2 DEF Setup
      <3>2. UNCHANGED gor \/ \E o \in Ops, k \in Kinds : Start(o, k, d)
        BY <2>2 DEF Setup, StartNothing
      <3> QED
        BY <1>1, <1>2, <3>1, <3>2
    <2>3. CASE ~(DrainQueue \/ DrainStreams \/ Tick \/ Setup(d))
      <3>1. UNCHANGED opVars
        BY <1>8, <2>3 DEF DriverStep, InClosure, SetupClosed, Top, ClosureBegin, ClosureNoop, LookDone, LookAgain, Check, DecideIdle,
           Decide, WakeByToken, WakeByTimer, WakeByContext
      <3> QED
        BY <1>1, <3>1 DEF opVars
    <2> QED
      BY <2>1, <2>2, <2>3
  <1>9. ASSUME \/ UNCHANGED vars
               \/ CloseBegin \/ CloseManagers \/ CloseEnd
               \/ \E d \in Drivers : Call(d) \/ Expire(d) \/ Cancel(d)
        PROVE  ReaderInv'
    BY <1>1, <1>9 DEF CloseBegin, CloseManagers, CloseEnd, Call, Expire, Cancel, vars, opVars
  <1> QED
    BY <1>4, <1>5, <1>6, <1>7, <1>8, <1>9 DEF Next

(* Nothing is queued without a signal, no signal is lost, and no driver      *)
(* passes a manager.                                                         *)
NoneMissed ==
    /\ Signalled => Signalled'
    /\ BodyHeard => BodyHeard'
    /\ Signalled' \/ \A o \in events' : o \in events /\ kind'[o] = kind[o]
    /\ BodyHeard' \/ chunks' \subseteq chunks

LEMMA WakeKept ==
    ASSUME WakeInv, NoneMissed, \A d \in Drivers, i \in 1..4 : Passed(d, i)' => Passed(d, i)
    PROVE  WakeInv'
  <1>1. Drains = 1..4 /\ 4 \in 1..4
    BY Stages
  <1> SUFFICES ASSUME NEW d \in Drivers
               PROVE  /\ \A i \in Drains, o \in events' : Passed(d, i)' /\ kind'[o] = DrainOrder[i] => Signalled'
                      /\ chunks' # {} /\ Passed(d, 4)' => BodyHeard'
    BY DEF WakeInv
  <1>2. ASSUME NEW i \in Drains, NEW o \in events', Passed(d, i)', kind'[o] = DrainOrder[i] PROVE Signalled'
    BY <1>1, <1>2 DEF WakeInv, NoneMissed
  <1>3. ASSUME chunks' # {}, Passed(d, 4)' PROVE BodyHeard'
    BY <1>1, <1>3 DEF WakeInv, NoneMissed
  <1> QED
    BY <1>2, <1>3

(* An operation starts: its goroutine has not been one to send a token. *)
LEMMA StartMissesNone ==
    ASSUME IInv, NEW o \in Ops, NEW k \in Kinds, kind[o] = None, kind' = [kind EXCEPT ![o] = k],
           \A p \in Ops \ {o} : gor[p] = "wake" => gor'[p] = "wake"
    PROVE  /\ UNCHANGED wakeCh /\ Signalled => Signalled'
           /\ \A p \in events : kind'[p] = kind[p]
  <1>1. gor[o] # "wake" /\ o \notin events /\ DOMAIN kind = Ops /\ events \subseteq Ops
    BY DEF IInv, OpInv, TypeOK
  <1> QED
    BY <1>1 DEF Signalled

LEMMA CallbacksMissNone ==
    ASSUME IInv, NEW D, NEW gone, Callbacks(D, gone), UNCHANGED wakeCh
    PROVE  /\ Signalled => Signalled'
           /\ \A p \in events : kind'[p] = kind[p]
  <1>1. CASE UNCHANGED <<kind, gor>>
    BY <1>1 DEF Signalled
  <1>2. CASE \E o \in Ops, k \in Kinds : Start(o, k, None)
    <2>1. PICK o \in Ops, k \in Kinds : Start(o, k, None)
      BY <1>2
    <2>2. DOMAIN gor = Ops
      BY DEF IInv, TypeOK
    <2>3. /\ kind[o] = None /\ kind' = [kind EXCEPT ![o] = k]
          /\ \A p \in Ops \ {o} : gor[p] = "wake" => gor'[p] = "wake"
      BY <2>1, <2>2 DEF Start
    <2> QED
      BY <2>3, StartMissesNone
  <1> QED
    BY <1>1, <1>2 DEF Callbacks, StartNothing

(* Steps of the goroutines of operations, and of Close. *)
LEMMA WakeGoroutines ==
    ASSUME IInv, ReaderInv, WakeInv,
           \/ \E o \in Ops : Proceed(o) \/ Resolve(o) \/ Outside(o)
           \/ \E o \in Ops, k \in Kinds : ExecStart(o, k)
           \/ CloseBegin \/ CloseManagers \/ CloseEnd
    PROVE  WakeInv'
  <1>t. /\ DOMAIN gor = Ops /\ DOMAIN reader = Ops /\ kind \in [Ops -> Kinds \cup {None}] /\ None \notin Kinds
        /\ events \subseteq Ops
    BY DEF IInv, TypeOK, AllKinds
  <1>p. /\ UNCHANGED <<pc, verdict, engine, stage>>
        /\ \A d \in Drivers, i \in 1..4 : Passed(d, i)' => Passed(d, i)
    <2>1. UNCHANGED <<pc, verdict, engine, stage>>
      BY DEF Proceed, Outside, FsPost, FetchPost, ReaderWake, WakeFirst, ResolveNoop, Wake, Uncount, Resolve, ExecStart, TimerDue,
             ProcExit, FsUncount, FetchFails, FetchResponds, BodyEnds, Awaited, CloseBegin, CloseManagers, CloseEnd,
             quiet, driverVars, closureVars
    <2> QED
      BY <2>1 DEF Passed
  <1> USE DEF NoneMissed, Signalled, BodyHeard
  <1>1. ASSUME NEW o \in Ops, ProcExit(o) \/ FsPost(o) \/ FetchFails(o) \/ FetchPost(o) PROVE NoneMissed
    <2>1. UNCHANGED <<wakeCh, reader, chunks>> /\ gor' = [gor EXCEPT ![o] = "wake"]
      BY <1>1 DEF ProcExit, FsPost, FetchFails, FetchPost, At, GoTo
    <2>2. gor'[o] = "wake"
      BY <1>t, <2>1
    <2> QED
      BY <2>1, <2>2
  <1>2. ASSUME NEW o \in Ops, FsUncount(o) \/ FetchResponds(o) \/ Awaited(o) \/ ResolveNoop(o) \/ Uncount(o) PROVE NoneMissed
    <2>1. /\ UNCHANGED <<wakeCh, chunks, events, kind>> /\ gor[o] # "wake"
          /\ \E l : gor' = [gor EXCEPT ![o] = l]
          /\ \/ UNCHANGED reader
             \/ reader' = [reader EXCEPT ![o] = "io"] /\ gor[o] = "io"
      BY <1>2 DEF FsUncount, FetchResponds, Awaited, ResolveNoop, Uncount, At, GoTo
    <2>2. Signalled => Signalled'
      BY <1>t, <2>1
    <2>3. BodyHeard => BodyHeard'
      BY <1>t, <2>1 DEF ReaderInv
    <2> QED
      BY <2>1, <2>2, <2>3
  <1>3. ASSUME NEW o \in Ops, ReaderWake(o) \/ WakeFirst(o) \/ Wake(o) PROVE NoneMissed
    BY <1>3 DEF ReaderWake, WakeFirst, Wake
  <1>4. ASSUME NEW o \in Ops, BodyEnds(o) PROVE NoneMissed
    <2>1. UNCHANGED <<wakeCh, gor, events, kind>> /\ reader'[o] = "wake"
      BY <1>4, <1>t DEF BodyEnds
    <2> QED
      BY <2>1
  <1>5. ASSUME NEW o \in Ops, TimerDue(o) PROVE NoneMissed
    BY <1>5 DEF TimerDue
  <1>6. ASSUME NEW o \in Ops, Resolve(o) PROVE NoneMissed
    <2>1. UNCHANGED <<wakeCh, chunks, events, reader>> /\ gor[o] = "resolve"
      BY <1>6 DEF Resolve
    <2>2. CASE GoTo(o, AfterResolve(o))
      BY <1>t, <2>1, <2>2 DEF GoTo
    <2>3. CASE ~GoTo(o, AfterResolve(o))
      <3>1. PICK p \in Ops, k \in Kinds :
              /\ kind[p] = None /\ kind' = [kind EXCEPT ![p] = k]
              /\ gor' = [gor EXCEPT ![o] = AfterResolve(o), ![p] = IF k = "timer" THEN "done" ELSE "io"]
        BY <1>6, <2>3 DEF Resolve
      <3>2. \A q \in Ops \ {p} : gor[q] = "wake" => gor'[q] = "wake"
        BY <1>t, <2>1, <3>1
      <3> QED
        BY <2>1, <3>1, <3>2, StartMissesNone
    <2> QED
      BY <2>2, <2>3
  <1>7. ASSUME NEW o \in Ops, NEW k \in Kinds, ExecStart(o, k) PROVE NoneMissed
    <2>1. UNCHANGED <<wakeCh, chunks, events, reader>> /\ Start(o, k, None)
      BY <1>7 DEF ExecStart
    <2>2. /\ kind[o] = None /\ kind' = [kind EXCEPT ![o] = k]
          /\ \A p \in Ops \ {o} : gor[p] = "wake" => gor'[p] = "wake"
      BY <1>t, <2>1 DEF Start
    <2> QED
      BY <2>1, <2>2, StartMissesNone
  <1>8. ASSUME CloseBegin \/ CloseManagers \/ CloseEnd PROVE NoneMissed
    BY <1>8 DEF CloseBegin, CloseManagers, CloseEnd, opVars
  <1> QED
    BY <1>p, <1>1, <1>2, <1>3, <1>4, <1>5, <1>6, <1>7, <1>8, WakeKept DEF Proceed, Outside

(* Steps of a driver: it drains a manager before it passes it. *)
LEMMA WakeDriver ==
    ASSUME IInv, WakeInv, OneDriver, NEW d \in Drivers, DriverStep(d) \/ Call(d) \/ Expire(d) \/ Cancel(d)
    PROVE  WakeInv'
  <1>t. /\ pc \in [Drivers -> {"start", "setup", "top", "closure", "decide", "sleep", "returned"}]
        /\ verdict \in [Drivers -> {"none", "pending", "idle", "noop", "done", "recheck"}]
        /\ stage \in 1..15 /\ None \notin Drivers /\ DOMAIN gor = Ops /\ events \subseteq Ops
    BY Stages DEF IInv, TypeOK
  <1>e. engine = d => pc[d] = "closure"
    BY DEF IInv, EngineInv
  <1>o. \A e \in Drivers : e = d
    BY DEF OneDriver
  <1>s. Drains = 1..4 /\ DoneStage = 5 /\ TickStage = 6 /\ AgainStage = 7 /\ LastStage = 15 /\ CheckAt(1) = 8
    BY Stages
  <1> DEFINE NoPass == \A e \in Drivers, i \in 1..4 : Passed(e, i)' => Passed(e, i)
             Still  == UNCHANGED <<wakeCh, gor, reader, events, chunks, kind>>
  <1>a. ASSUME Still, NoPass PROVE WakeInv'
    <2>1. NoneMissed
      BY <1>a DEF NoneMissed, Signalled, BodyHeard
    <2> QED
      BY <1>a, <2>1, WakeKept
  <1>1. ASSUME Call(d) PROVE WakeInv'
    <2>1. Still /\ UNCHANGED <<engine, stage, verdict>>
      BY <1>1 DEF Call, opVars, closureVars
    <2>2. pc'[d] \in {"returned", "closure", "top", "setup"}
      BY <1>1, <1>t DEF Call, DriverReturns, DriverTo
    <2>3. NoPass
      BY <1>o, <2>1, <2>2 DEF Passed
    <2> QED
      BY <1>a, <2>1, <2>3
  <1>2. ASSUME Expire(d) \/ Cancel(d) PROVE WakeInv'
    <2>1. Still /\ UNCHANGED <<engine, stage, verdict, pc>>
      BY <1>2 DEF Expire, Cancel, opVars, closureVars
    <2>2. NoPass
      BY <2>1 DEF Passed
    <2> QED
      BY <1>a, <2>1, <2>2
  <1>3. ASSUME Setup(d) PROVE WakeInv'
    <2>1. UNCHANGED <<wakeCh, reader, events, chunks, engine, stage, verdict>>
      BY <1>3 DEF Setup, closureVars
    <2>2. NoPass
      <3>1. pc'[d] \in {"top", "closure"}
        BY <1>3, <1>t DEF Setup, DriverTo, Again
      <3> QED
        BY <1>o, <2>1, <3>1 DEF Passed
    <2>3. (Signalled => Signalled') /\ \A p \in events : kind'[p] = kind[p]
      <3>1. CASE StartNothing
        BY <2>1, <3>1 DEF StartNothing, Signalled
      <3>2. CASE \E o \in Ops, k \in Kinds : Start(o, k, d)
        <4>1. PICK o \in Ops, k \in Kinds : Start(o, k, d)
          BY <3>2
        <4>2. /\ kind[o] = None /\ kind' = [kind EXCEPT ![o] = k]
              /\ \A p \in Ops \ {o} : gor[p] = "wake" => gor'[p] = "wake"
          BY <1>t, <4>1 DEF Start
        <4> QED
          BY <2>1, <4>2, StartMissesNone
      <3> QED
        BY <1>3, <3>1, <3>2 DEF Setup
    <2>4. NoneMissed
      BY <2>1, <2>3 DEF NoneMissed, BodyHeard
    <2> QED
      BY <2>2, <2>4, WakeKept
  <1>4. ASSUME WakeByToken(d) PROVE WakeInv'
    <2>1. engine # d /\ engine' = engine /\ pc'[d] \in {"top", "closure"}
      BY <1>4, <1>t, <1>e DEF WakeByToken, DriverTo, Again, closureVars
    <2>2. \A e \in Drivers, i \in 1..4 : ~Passed(e, i)'
      BY <1>o, <2>1 DEF Passed
    <2> QED
      BY <1>s, <2>2 DEF WakeInv
  <1>5. ASSUME SetupClosed(d) \/ Top(d) \/ DecideIdle(d) \/ Decide(d) \/ WakeByTimer(d) \/ WakeByContext(d) PROVE WakeInv'
    <2>1. Still /\ UNCHANGED <<engine, stage, verdict>>
      BY <1>5 DEF SetupClosed, Top, DecideIdle, Decide, WakeByTimer, WakeByContext, opVars, closureVars
    <2>2. /\ pc'[d] \in {"returned", "top", "closure", "sleep"}
          /\ pc'[d] = "sleep" => pc[d] = "decide" /\ verdict[d] = "pending"
      BY <1>5, <1>t DEF SetupClosed, Top, DecideIdle, Decide, WakeByTimer, WakeByContext, DriverReturns, DriverTo, Again
    <2>3. NoPass
      BY <1>o, <2>1, <2>2 DEF Passed
    <2> QED
      BY <1>a, <2>1, <2>3
  <1>6. ASSUME ClosureBegin(d) PROVE WakeInv'
    <2>1. Still /\ UNCHANGED <<verdict, pc>> /\ pc[d] = "closure" /\ stage' = 1
      BY <1>6 DEF ClosureBegin, opVars, driverVars
    <2>2. NoPass
      BY <1>o, <2>1 DEF Passed
    <2> QED
      BY <1>a, <2>1, <2>2
  <1>7. ASSUME ClosureNoop(d) PROVE WakeInv'
    <2>1. Still /\ engine # d /\ engine' = engine
      BY <1>7 DEF ClosureNoop, opVars, closureVars
    <2>2. pc'[d] = "decide" /\ verdict'[d] = "noop"
      BY <1>7, <1>t DEF ClosureNoop, DriverTo
    <2>3. NoPass
      BY <1>o, <2>1, <2>2 DEF Passed
    <2> QED
      BY <1>a, <2>1, <2>3
  <1>8. ASSUME LookDone(d) \/ LookAgain(d) \/ Check(d) PROVE WakeInv'
    <2>1. Still /\ engine = d /\ stage > 4
      BY <1>8, <1>s DEF LookDone, LookAgain, Check, opVars
    <2>2. \A e \in Drivers, i \in 1..4 : Passed(e, i)
      BY <1>o, <1>t, <2>1 DEF Passed
    <2> QED
      BY <1>a, <2>1, <2>2
  <1>9. ASSUME Tick PROVE WakeInv'
    <2>1. /\ UNCHANGED <<wakeCh, reader, events, chunks, pc, verdict, engine>> /\ Callbacks(due, due)
          /\ engine # None /\ stage = 6 /\ stage' = 7
      BY <1>9, <1>s DEF Tick, NextStage, driverVars
    <2>2. NoneMissed
      BY <2>1, CallbacksMissNone DEF NoneMissed, BodyHeard
    <2>3. NoPass
      BY <2>1 DEF Passed
    <2> QED
      BY <2>2, <2>3, WakeKept
  <1>10. ASSUME DrainQueue, engine = d PROVE WakeInv'
    <2> DEFINE k == DrainOrder[stage]
    <2>1. /\ UNCHANGED <<wakeCh, reader, chunks, pc, verdict>> /\ engine' = d /\ stage' = stage + 1
          /\ stage \in 1..4 /\ k # "stream" /\ events' = events \ Of(k)
          /\ \E gone : Callbacks(events \cap Of(k), gone)
      <3>1. events' = events \ (events \cap Of(k))
        BY <1>10 DEF DrainQueue
      <3>2. events' = events \ Of(k)
        BY <3>1
      <3>3. \E gone : Callbacks(events \cap Of(k), gone)
        BY <1>10 DEF DrainQueue
      <3> QED
        BY <1>10, <1>s, <3>2, <3>3 DEF DrainQueue, NextStage, driverVars
    <2>2. (Signalled => Signalled') /\ \A o \in events : kind'[o] = kind[o]
      BY <2>1, CallbacksMissNone
    <2>3. \A i \in 1..4 : Passed(d, i)' => Passed(d, i) \/ i = stage
      BY <1>10, <1>t, <2>1 DEF Passed
    <2>4. stage # 4
      BY <2>1 DEF DrainOrder
    <2>5. ASSUME NEW i \in Drains, NEW o \in events', Passed(d, i)', kind'[o] = DrainOrder[i] PROVE Signalled'
      <3>1. o \in events /\ o \in Ops /\ kind[o] # k /\ kind'[o] = kind[o]
        BY <1>t, <2>1, <2>2, <2>5 DEF Of
      <3>2. i # stage
        BY <2>5, <3>1
      <3>3. Passed(d, i)
        BY <1>s, <2>3, <2>5, <3>2
      <3> QED
        BY <2>2, <2>5, <3>1, <3>3 DEF WakeInv
    <2>6. ASSUME chunks' # {}, Passed(d, 4)' PROVE BodyHeard'
      <3>1. Passed(d, 4)
        BY <2>3, <2>4, <2>6
      <3> QED
        BY <2>1, <2>6, <3>1 DEF WakeInv, BodyHeard
    <2> QED
      BY <1>o, <2>5, <2>6 DEF WakeInv
  <1>11. ASSUME DrainStreams, engine = d PROVE WakeInv'
    <2>1. /\ UNCHANGED <<wakeCh, reader, events, pc, verdict>> /\ engine' = d /\ stage' = stage + 1
          /\ stage \in 1..4 /\ DrainOrder[stage] = "stream" /\ chunks' = {} /\ Callbacks(chunks, {})
      BY <1>11, <1>s DEF DrainStreams, NextStage, driverVars
    <2>2. (Signalled => Signalled') /\ \A o \in events : kind'[o] = kind[o]
      BY <2>1, CallbacksMissNone
    <2>3. \A i \in 1..4 : Passed(d, i)' => Passed(d, i) \/ i = stage
      BY <1>11, <1>t, <2>1 DEF Passed
    <2>4. ASSUME NEW i \in Drains, NEW o \in events', Passed(d, i)', kind'[o] = DrainOrder[i] PROVE Signalled'
      <3>1. o \in events /\ o \in Ops /\ kind[o] \in {"proc", "fs", "fetch"} /\ kind'[o] = kind[o]
        BY <1>t, <2>1, <2>2 DEF IInv, OpInv
      <3>2. i # stage
        BY <2>1, <2>4, <3>1
      <3>3. Passed(d, i)
        BY <1>s, <2>3, <2>4, <3>2
      <3> QED
        BY <2>2, <2>4, <3>1, <3>3 DEF WakeInv
    <2> QED
      BY <1>o, <2>1, <2>4 DEF WakeInv
  <1> QED
    BY <1>1, <1>2, <1>3, <1>4, <1>5, <1>6, <1>7, <1>8, <1>9, <1>10, <1>11 DEF DriverStep, InClosure

LEMMA WakeStep == IInv /\ ReaderInv /\ (OneDriver => WakeInv) /\ [Next]_vars => (OneDriver => WakeInv')
  <1> SUFFICES ASSUME IInv, ReaderInv, OneDriver, WakeInv, [Next]_vars PROVE WakeInv'
    OBVIOUS
  <1>1. CASE UNCHANGED vars
    BY <1>1 DEF WakeInv, Passed, Signalled, BodyHeard, vars, opVars, driverVars, closureVars
  <1> QED
    BY <1>1, WakeDriver, WakeGoroutines DEF Next

(* A driver that drives the loop alone never sleeps for timers far ahead     *)
(* while an event or a final chunk is queued, unless the token of the Wake   *)
(* behind it is in wakeCh or about to be sent.                               *)
THEOREM WakesArrive == Spec => [](OneDriver => NoLostWake)
  <1>1. IInv /\ (OneDriver => WakeInv) => (OneDriver => NoLostWake)
    <2> SUFFICES ASSUME IInv, WakeInv, DrivenBy # {}, \A d \in DrivenBy : FarAsleep(d)
                 PROVE  /\ events # {} => wakeCh \/ \E o \in Ops : gor[o] = "wake"
                        /\ chunks # {} => wakeCh \/ \E o \in Ops : reader[o] = "wake"
      BY DEF NoLostWake
    <2>1. PICK d \in Drivers : pc[d] = "sleep"
      BY DEF DrivenBy, FarAsleep
    <2>2. \A i \in Drains : Passed(d, i)
      BY <2>1 DEF Passed
    <2>3. Passed(d, 4)
      BY <2>1 DEF Passed
    <2>4. ASSUME NEW o \in events PROVE Signalled
      <3>1. o \in Ops /\ kind[o] \in {"proc", "fs", "fetch"}
        BY DEF IInv, TypeOK, OpInv
      <3>2. PICK i \in Drains : kind[o] = DrainOrder[i]
        <4>1. DrainOrder[1] = "fs" /\ DrainOrder[2] = "proc" /\ DrainOrder[3] = "fetch"
          BY DEF DrainOrder
        <4> QED
          BY <3>1, <4>1, Stages
      <3> QED
        BY <2>2, <3>2 DEF WakeInv
    <2>5. chunks # {} => BodyHeard
      BY <2>3 DEF WakeInv
    <2> QED
      BY <2>4, <2>5 DEF Signalled, BodyHeard
  <1>2. Init => (OneDriver => WakeInv) /\ ReaderInv
    BY WakeInit
  <1>3. IInv /\ ReaderInv /\ (OneDriver => WakeInv) /\ [Next]_vars => (OneDriver => WakeInv)'
    BY WakeStep
  <1>4. IInv /\ ReaderInv /\ [Next]_vars => ReaderInv'
    BY ReaderStep
  <1> QED
    BY <1>1, <1>2, <1>3, <1>4, Invariance, PTL DEF Spec
=============================================================================

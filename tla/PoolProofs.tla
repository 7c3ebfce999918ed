----------------------------- MODULE PoolProofs -----------------------------
(***************************************************************************)
(* Proofs that the properties of PoolProps hold for every set of requests  *)
(* and of stoppers, every number of Runtimes, every capacity, every size   *)
(* of batches and any number of calls of ListenAndServe.                   *)
(***************************************************************************)
EXTENDS PoolProps, ChannelLemmas, TLAPS

LEMMA ModRange == \A n \in Nat, m \in Nat \ {0} : n % m \in 0..(m - 1)
  BY SMT

Whereabouts == {"none", "in", "picked", "waiting", "ready", "answered", "lost", "panicked", "stuck"}

TypeInv == TypeOK /\ (listen # "idle" => calls \in Servers)

LEMMA InitType == Init => TypeInv
  <1> SUFFICES ASSUME Init PROVE TypeInv
    OBVIOUS
  <1> USE PoolAssumption DEF Init, NoResps
  <1>1. /\ \A s : Len(<<>>) = 0 /\ <<>> \in Seq(Requests)
        /\ 0 \in 0..Listens /\ 0 <= Capacity /\ 0 <= BatchSize
    OBVIOUS
  <1> QED
    BY <1>1 DEF TypeInv, TypeOK

LEMMA StepType == TypeInv /\ [Next]_vars => TypeInv'
  <1> SUFFICES ASSUME TypeInv, [Next]_vars PROVE TypeInv'
    OBVIOUS
  <1> USE PoolAssumption DEF TypeInv, TypeOK
  <1>1. CASE UNCHANGED vars
    BY <1>1 DEF vars, serveVars, stopVars, reqVars, loopVars
  <1>2. CASE Listen
    <2>1. calls + 1 \in Servers
      BY <1>2 DEF Listen, Servers
    <2> QED
      BY <1>2, <2>1 DEF Listen, ListenTo, Servers, reqVars, loopVars
  <1>3. CASE MakeChannels
    BY <1>3 DEF MakeChannels, ListenTo, Servers, serverQuiet, stopVars, reqVars, loopVars
  <1>4. CASE StartLoop
    <2>1. ASSUME NEW i \in Runtimes PROVE <<calls, i>> \in Chans
      BY <1>4 DEF StartLoop, Chans
    <2> QED
      BY <1>4, <2>1 DEF StartLoop, ListenTo, serverQuiet, stopVars, reqVars
  <1>5. CASE AssignServer \/ Serve \/ ServeReturns
    BY <1>5 DEF AssignServer, Serve, ServeReturns, ListenTo, Servers, serverQuiet, stopVars, reqVars, loopVars
  <1>6. ASSUME NEW k \in Stoppers, Begin(k) PROVE TypeInv'
    BY <1>6 DEF Begin, StopTo, serveVars, reqVars, loopVars
  <1>7. ASSUME NEW k \in Stoppers, CloseServer(k) PROVE TypeInv'
    BY <1>7 DEF CloseServer, StopTo, stopperQuiet, reqVars, loopVars, Servers
  <1>8. ASSUME NEW k \in Stoppers, CloseChannels(k) PROVE TypeInv'
    BY <1>8 DEF CloseChannels, StopTo, stopperQuiet, reqVars, Made
  <1>9. ASSUME NEW k \in Stoppers, JoinLoops(k) \/ Shut(k) PROVE TypeInv'
    <2>1. CASE JoinLoops(k)
      BY <2>1 DEF JoinLoops, StopTo, stopperQuiet, reqVars, loopVars
    <2>2. CASE Shut(k)
      BY <2>2 DEF Shut, StopTo, stopperQuiet, reqVars, loopVars
    <2> QED
      BY <1>9, <2>1, <2>2
  <1>10. ASSUME NEW r \in Requests, Arrive(r) PROVE TypeInv'
    BY <1>10 DEF Arrive, HandlerTo, runQuiet, serveVars, stopVars, Servers
  <1>11. ASSUME NEW r \in Requests, Pick(r) PROVE TypeInv'
    <2>1. httpNext % Size \in Runtimes
      BY ModRange DEF Runtimes
    <2>2. workerChs # 0 => <<workerChs, httpNext % Size>> \in Chans
      BY <2>1 DEF Chans, Servers
    <2>3. httpNext + 1 \in Nat
      OBVIOUS
    <2> QED
      BY <1>11, <2>2, <2>3 DEF Pick, Returns, HandlerTo, handlerQuiet, runQuiet, serveVars, stopVars
  <1>12. ASSUME NEW r \in Requests, Send(r) PROVE TypeInv'
    <2>1. ASSUME NEW c \in Chans, Len(queue[c]) < Capacity
          PROVE  Append(queue[c], r) \in Seq(Requests) /\ Len(Append(queue[c], r)) <= Capacity
      <3>1. queue[c] \in Seq(Requests)
        OBVIOUS
      <3> QED
        BY <2>1, <3>1
    <2>2. /\ queue' \in [Chans -> Seq(Requests)]
          /\ \A c \in Chans : Len(queue'[c]) <= Capacity
      <3>1. CASE queue' = queue
        BY <3>1
      <3>2. CASE /\ chan[r] \in Chans /\ Len(queue[chan[r]]) < Capacity
                 /\ queue' = [queue EXCEPT ![chan[r]] = Append(queue[chan[r]], r)]
        BY <3>2, <2>1
      <3>3. CASE chan[r] \notin Chans /\ queue' = [queue EXCEPT ![chan[r]] = Append(queue[chan[r]], r)]
        BY <3>3
      <3> QED
        BY <1>12, <3>1, <3>2, <3>3 DEF Send
    <2>3. at' \in [Requests -> Whereabouts] /\ chan' \in [Requests -> Chans \cup {None}]
      BY <1>12 DEF Send, Returns, HandlerTo, Whereabouts
    <2> QED
      BY <1>12, <2>2, <2>3 DEF Send, handlerQuiet, runQuiet, serveVars, stopVars, Whereabouts
  <1>17. ASSUME NEW r \in Requests, Respond(r) PROVE TypeInv'
    BY <1>17 DEF Respond, Returns, HandlerTo, handlerQuiet, runQuiet, serveVars, stopVars
  <1>13. ASSUME NEW c \in Chans, Receive(c) PROVE TypeInv'
    <2> DEFINE n == Least(BatchSize, Len(queue[c]))
    <2>1. queue[c] \in Seq(Requests) /\ Len(queue[c]) \in Nat /\ Len(queue[c]) <= Capacity
      OBVIOUS
    <2>2. n \in 1..Len(queue[c]) /\ n <= BatchSize
      BY <1>13, <2>1 DEF Receive, Least
    <2> HIDE DEF n
    <2>3. /\ SubSeq(queue[c], 1, n) \in Seq(Requests)
          /\ Len(SubSeq(queue[c], 1, n)) <= BatchSize
      BY <2>1, <2>2
    <2>4. SubSeq(queue[c], n + 1, Len(queue[c])) \in Seq(Requests)
      BY <2>1, <2>2
    <2>5. Len(SubSeq(queue[c], n + 1, Len(queue[c]))) <= Capacity
      <3>1. CASE n + 1 <= Len(queue[c])
        BY <3>1, <2>1, <2>2
      <3>2. CASE n + 1 > Len(queue[c])
        BY <3>2, <2>1, <2>2
      <3> QED
        BY <3>1, <3>2, <2>1, <2>2
    <2>6. /\ batch' = [batch EXCEPT ![c] = SubSeq(queue[c], 1, n)]
          /\ queue' = [queue EXCEPT ![c] = SubSeq(queue[c], n + 1, Len(queue[c]))]
      BY <1>13 DEF Receive, n
    <2>7. /\ batch' \in [Chans -> Seq(Requests)] /\ \A d \in Chans : Len(batch'[d]) <= BatchSize
          /\ queue' \in [Chans -> Seq(Requests)] /\ \A d \in Chans : Len(queue'[d]) <= Capacity
      BY <2>3, <2>4, <2>5, <2>6
    <2> QED
      BY <1>13, <2>7 DEF Receive, LoopTo, loopQuiet, serveVars, stopVars
  <1>14. ASSUME NEW c \in Chans, LoopEnds(c) PROVE TypeInv'
    BY <1>14 DEF LoopEnds, NoResps, LoopTo, loopQuiet, serveVars, stopVars
  <1>15. ASSUME NEW c \in Chans, Dispatch(c) PROVE TypeInv'
    <2>1. batch[c] \in Seq(Requests) /\ DOMAIN batch[c] = 1..Len(batch[c]) /\ Len(batch[c]) \in Nat
      OBVIOUS
    <2>2. ASSUME NEW i \in 1..BatchSize, i <= Len(batch[c]) PROVE batch[c][i] \in Requests
      BY <2>1, <2>2
    <2>3. resps' \in [Chans -> [1..BatchSize -> Requests \cup {None}]]
      BY <1>15, <2>2 DEF Dispatch
    <2> QED
      BY <1>15, <2>3 DEF Dispatch, LoopTo, loopQuiet, serveVars, stopVars
  <1>16. ASSUME NEW c \in Chans, Reply(c) PROVE TypeInv'
    <2>1. /\ batch[c] \in Seq(Requests) /\ DOMAIN batch[c] = 1..Len(batch[c])
          /\ Len(batch[c]) \in Nat /\ Len(batch[c]) <= BatchSize
      OBVIOUS
    <2>2. ASSUME NEW r \in Requests, Answered(c, r)
          PROVE  resps[c][CHOOSE i \in DOMAIN batch[c] : batch[c][i] = r] \in Requests \cup {None}
      <3>1. (CHOOSE i \in DOMAIN batch[c] : batch[c][i] = r) \in 1..BatchSize
        BY <2>1, <2>2 DEF Answered
      <3> QED
        BY <3>1
    <2>3. answer' \in [Requests -> Requests \cup {None}]
      BY <1>16, <2>2 DEF Reply
    <2>4. at' \in [Requests -> Whereabouts]
      BY <1>16 DEF Reply, Whereabouts
    <2>5. /\ batch' \in [Chans -> Seq(Requests)] /\ \A d \in Chans : Len(batch'[d]) <= BatchSize
      <3>1. <<>> \in Seq(Requests) /\ Len(<<>>) <= BatchSize
        OBVIOUS
      <3> QED
        BY <1>16, <3>1 DEF Reply
    <2> QED
      BY <1>16, <2>3, <2>4, <2>5 DEF Reply, LoopTo, loopQuiet, serveVars, stopVars, Whereabouts
  <1> QED
    BY <1>1, <1>2, <1>3, <1>4, <1>5, <1>6, <1>7, <1>8, <1>9, <1>10, <1>11, <1>12, <1>13, <1>14, <1>15, <1>16, <1>17
       DEF Next, ListenStep, StopStep, Handler, WorkerLoop

-----------------------------------------------------------------------------
(* Where a request is that waits for its response. *)
HandInv ==
    /\ \A c \in Chans :
         /\ NoRepeat(queue[c]) /\ NoRepeat(batch[c])
         /\ loop[c] \in {"none", "receiving", "ended"} => batch[c] = <<>>
         /\ loop[c] = "ended" => c \in chClosed /\ queue[c] = <<>>
    /\ \A r \in Requests :
         at[r] \in {"picked", "waiting"} => chan[r] \in Chans /\ loop[chan[r]] # "none"
    /\ \A r \in Requests, c \in Chans :
         IF at[r] = "waiting" /\ c = chan[r]
           THEN Holds(queue[c], r) <=> ~Holds(batch[c], r)
           ELSE ~Holds(queue[c], r) /\ ~Holds(batch[c], r)

handVars == <<at, chan, queue, chClosed, loop, batch>>

LEMMA EmptyHolds == NoRepeat(<<>>) /\ \A g : ~Holds(<<>>, g)
  <1>1. DOMAIN <<>> = {}
    OBVIOUS
  <1> QED
    BY <1>1 DEF NoRepeat, Holds

LEMMA InitHand == Init => HandInv
  BY EmptyHolds DEF Init, HandInv

LEMMA StepHand == TypeInv /\ HandInv /\ [Next]_vars => HandInv'
  <1> SUFFICES ASSUME TypeInv, HandInv, [Next]_vars PROVE HandInv'
    OBVIOUS
  <1> USE PoolAssumption DEF TypeInv, TypeOK
  <1>1. CASE UNCHANGED handVars
    BY <1>1 DEF handVars, HandInv, Holds, NoRepeat
  <1>2. CASE UNCHANGED vars
    BY <1>1, <1>2 DEF vars, serveVars, stopVars, reqVars, loopVars, handVars
  <1>3. CASE Listen \/ MakeChannels \/ AssignServer \/ Serve \/ ServeReturns
    BY <1>1, <1>3 DEF Listen, MakeChannels, AssignServer, Serve, ServeReturns, ListenTo, serverQuiet,
                      stopVars, reqVars, loopVars, handVars
  <1>4. CASE StartLoop
    <2>1. CASE loop' = loop
      BY <1>1, <1>4, <2>1 DEF StartLoop, serverQuiet, stopVars, reqVars, handVars
    <2>2. CASE loop' # loop
      <3>0. \A i \in Runtimes : i >= i
        BY DEF Runtimes
      <3>1. PICK i \in Runtimes : loop[<<calls, i>>] = "none" /\ loop' = [loop EXCEPT ![<<calls, i>>] = "receiving"]
        <4>1. PICK i \in Runtimes : /\ \A j \in Runtimes : (loop[<<calls, j>>] = "none") <=> (j >= i)
                                   /\ loop' = [loop EXCEPT ![<<calls, i>>] = "receiving"]
          <5> HIDE DEF TypeInv
          <5> QED
            BY <1>4, <2>2 DEF StartLoop
        <4> QED
          BY <3>0, <4>1, Zenon
      <3>2. UNCHANGED <<at, chan, queue, chClosed, batch>>
        BY <1>4 DEF StartLoop, serverQuiet, reqVars
      <3>3. \A c \in Chans :
              loop'[c] = loop[c] \/ (loop'[c] = "receiving" /\ loop[c] = "none")
        BY <3>1
      <3> QED
        BY <3>2, <3>3 DEF HandInv
    <2> QED
      BY <2>1, <2>2
  <1>5. ASSUME NEW k \in Stoppers, Begin(k) \/ CloseServer(k) \/ JoinLoops(k) \/ Shut(k) PROVE HandInv'
    BY <1>1, <1>5 DEF Begin, CloseServer, JoinLoops, Shut, stopperQuiet, reqVars, loopVars, handVars
  <1>6. ASSUME NEW k \in Stoppers, CloseChannels(k) PROVE HandInv'
    BY <1>6 DEF CloseChannels, stopperQuiet, reqVars, HandInv
  <1>7. ASSUME NEW r \in Requests, Arrive(r) PROVE HandInv'
    <2>1. /\ at[r] = "none" /\ at' = [at EXCEPT ![r] = "in"]
          /\ UNCHANGED <<chan, queue, chClosed, loop, batch>>
      BY <1>7 DEF Arrive, HandlerTo, runQuiet
    <2> QED
      BY <2>1 DEF HandInv
  <1>8. ASSUME NEW r \in Requests, Pick(r) PROVE HandInv'
    <2>1. /\ at[r] = "in"
          /\ \/ at' = [at EXCEPT ![r] = "panicked"] /\ chan' = [chan EXCEPT ![r] = None]
             \/ at' = [at EXCEPT ![r] = "stuck"] /\ chan' = chan
             \/ /\ at' = [at EXCEPT ![r] = "picked"]
                /\ chan' = [chan EXCEPT ![r] = <<workerChs, httpNext % Size>>]
                /\ workerChs # 0
                /\ loop[<<workerChs, httpNext % Size>>] # "none"
          /\ UNCHANGED <<queue, chClosed, loop, batch>>
      BY <1>8 DEF Pick, Returns, HandlerTo, handlerQuiet, runQuiet
    <2>2. workerChs # 0 => <<workerChs, httpNext % Size>> \in Chans
      <3>1. httpNext % Size \in Runtimes
        BY ModRange DEF Runtimes
      <3> QED
        BY <3>1 DEF Chans, Servers
    <2> HIDE DEF TypeInv
    <2>3. /\ at \in [Requests -> Whereabouts]
          /\ chan \in [Requests -> Chans \cup {None}]
      BY DEF TypeInv, Whereabouts
    <2> QED
      BY <2>1, <2>2, <2>3 DEF HandInv
  <1>9. ASSUME NEW r \in Requests, Send(r) PROVE HandInv'
    <2> DEFINE c == chan[r]
    <2>1. c \in Chans /\ loop[c] # "none" /\ at[r] = "picked"
      BY <1>9 DEF Send, HandInv
    <2>0. UNCHANGED <<chClosed, loop, batch>>
      BY <1>9 DEF Send, handlerQuiet, runQuiet
    <2>3. CASE /\ at' = [at EXCEPT ![r] = "panicked"] /\ chan' = [chan EXCEPT ![r] = None]
               /\ queue' = queue
      BY <2>1, <2>0, <2>3 DEF HandInv
    <2>4. CASE c \notin chClosed /\ chan' = chan /\ at' = [at EXCEPT ![r] = "waiting"] /\ queue' = [queue EXCEPT ![c] = Append(queue[c], r)]
      <3>0. UNCHANGED <<chan, chClosed, loop, batch>>
        BY <2>0, <2>4
      <3>1. ~Holds(queue[c], r) /\ ~Holds(batch[c], r) /\ NoRepeat(queue[c]) /\ loop[c] # "ended"
        BY <2>1, <2>4 DEF HandInv
      <3>2. /\ \A g : Holds(queue'[c], g) <=> Holds(queue[c], g) \/ g = r
            /\ NoRepeat(queue'[c])
        <4>1. queue[c] \in Seq(Requests) /\ queue'[c] = Append(queue[c], r)
          BY <2>1, <2>4
        <4> QED
          BY <4>1, <3>1, AppendHolds
      <3>3. \A d \in Chans : d # c => queue'[d] = queue[d]
        BY <2>4
      <3>4. /\ at'[r] = "waiting" /\ \A x \in Requests : x # r => at'[x] = at[x]
        BY <2>4
      <3>5. ASSUME NEW x \in Requests, NEW d \in Chans
            PROVE  IF at'[x] = "waiting" /\ d = chan'[x]
                     THEN Holds(queue'[d], x) <=> ~Holds(batch'[d], x)
                     ELSE ~Holds(queue'[d], x) /\ ~Holds(batch'[d], x)
        <4>1. CASE x = r
          BY <4>1, <2>1, <3>0, <3>1, <3>2, <3>3, <3>4 DEF HandInv
        <4>2. CASE x # r
          BY <4>2, <2>1, <3>0, <3>2, <3>3, <3>4 DEF HandInv
        <4> QED
          BY <4>1, <4>2
      <3>6. \A d \in Chans :
              /\ NoRepeat(queue'[d]) /\ NoRepeat(batch'[d])
              /\ loop'[d] \in {"none", "receiving", "ended"} => batch'[d] = <<>>
              /\ loop'[d] = "ended" => d \in chClosed' /\ queue'[d] = <<>>
        BY <3>0, <3>1, <3>2, <3>3 DEF HandInv
      <3>7. \A x \in Requests :
              at'[x] \in {"picked", "waiting"} => chan'[x] \in Chans /\ loop'[chan'[x]] # "none"
        BY <2>1, <3>0, <3>4 DEF HandInv
      <3> QED
        BY <3>5, <3>6, <3>7 DEF HandInv
    <2> QED
      BY <1>9, <2>3, <2>4 DEF Send, Returns, HandlerTo
  <1>14. ASSUME NEW r \in Requests, Respond(r) PROVE HandInv'
    <2>1. /\ at[r] = "ready" /\ \E l \in {"lost", "answered"} : at' = [at EXCEPT ![r] = l]
          /\ chan' = [chan EXCEPT ![r] = None]
          /\ UNCHANGED <<queue, chClosed, loop, batch>>
      BY <1>14 DEF Respond, Returns, HandlerTo, handlerQuiet, runQuiet
    <2> QED
      BY <2>1 DEF HandInv
  <1>10. ASSUME NEW c \in Chans, Receive(c) PROVE HandInv'
    <2> DEFINE n == Least(BatchSize, Len(queue[c]))
    <2>1. /\ queue[c] \in Seq(Requests) /\ n \in 1..Len(queue[c]) /\ NoRepeat(queue[c])
          /\ loop[c] = "receiving" /\ batch[c] = <<>>
      BY <1>10 DEF Receive, Least, HandInv
    <2>2. /\ batch' = [batch EXCEPT ![c] = SubSeq(queue[c], 1, n)]
          /\ queue' = [queue EXCEPT ![c] = SubSeq(queue[c], n + 1, Len(queue[c]))]
          /\ loop' = [loop EXCEPT ![c] = "batch"]
          /\ UNCHANGED <<at, chan, chClosed>>
      BY <1>10 DEF Receive, LoopTo, loopQuiet
    <2> HIDE DEF n
    <2>3. batch'[c] = SubSeq(queue[c], 1, n) /\ queue'[c] = SubSeq(queue[c], n + 1, Len(queue[c]))
      BY <2>2
    <2>4. /\ NoRepeat(batch'[c]) /\ NoRepeat(queue'[c])
          /\ \A g : Holds(queue[c], g) <=> Holds(batch'[c], g) \/ Holds(queue'[c], g)
          /\ \A g : ~(Holds(batch'[c], g) /\ Holds(queue'[c], g))
      BY <2>1, <2>3, SplitHolds
    <2>5. \A g : ~Holds(batch[c], g)
      BY <2>1, EmptyHolds
    <2>6. /\ \A d \in Chans : d # c => queue'[d] = queue[d] /\ batch'[d] = batch[d] /\ loop'[d] = loop[d]
          /\ loop'[c] = "batch"
      BY <2>2
    <2>7. ASSUME NEW x \in Requests, NEW d \in Chans
          PROVE  IF at'[x] = "waiting" /\ d = chan'[x]
                   THEN Holds(queue'[d], x) <=> ~Holds(batch'[d], x)
                   ELSE ~Holds(queue'[d], x) /\ ~Holds(batch'[d], x)
      <3>1. CASE d = c
        BY <3>1, <2>2, <2>4, <2>5 DEF HandInv
      <3>2. CASE d # c
        BY <3>2, <2>2, <2>6 DEF HandInv
      <3> QED
        BY <3>1, <3>2
    <2>8. /\ \A d \in Chans :
               /\ NoRepeat(queue'[d]) /\ NoRepeat(batch'[d])
               /\ loop'[d] \in {"none", "receiving", "ended"} => batch'[d] = <<>>
               /\ loop'[d] = "ended" => d \in chClosed' /\ queue'[d] = <<>>
      BY <2>2, <2>4, <2>6 DEF HandInv
    <2>9. \A x \in Requests :
            at'[x] \in {"picked", "waiting"} => chan'[x] \in Chans /\ loop'[chan'[x]] # "none"
      BY <2>2, <2>6 DEF HandInv
    <2> QED
      BY <2>7, <2>8, <2>9 DEF HandInv
  <1>11. ASSUME NEW c \in Chans, LoopEnds(c) PROVE HandInv'
    <2>1. /\ loop[c] = "receiving" /\ c \in chClosed /\ queue[c] = <<>>
          /\ loop' = [loop EXCEPT ![c] = "ended"]
          /\ UNCHANGED <<at, chan, chClosed, queue, batch>>
      BY <1>11 DEF LoopEnds, LoopTo, loopQuiet
    <2>2. \A d \in Chans : d # c => loop'[d] = loop[d]
      BY <2>1
    <2> QED
      BY <2>1, <2>2 DEF HandInv
  <1>12. ASSUME NEW c \in Chans, Dispatch(c) PROVE HandInv'
    <2>1. /\ loop[c] = "batch" /\ loop' = [loop EXCEPT ![c] = "answering"]
          /\ UNCHANGED <<at, chan, chClosed, queue, batch>>
      BY <1>12 DEF Dispatch, LoopTo, loopQuiet
    <2> QED
      BY <2>1 DEF HandInv
  <1>13. ASSUME NEW c \in Chans, Reply(c) PROVE HandInv'
    <2>1. /\ loop[c] = "answering"
          /\ at' = [r \in Requests |-> IF Holds(batch[c], r) THEN "ready" ELSE at[r]]
          /\ loop' = [loop EXCEPT ![c] = "receiving"]
          /\ batch' = [batch EXCEPT ![c] = <<>>]
          /\ UNCHANGED <<chan, chClosed, queue>>
      BY <1>13 DEF Reply, LoopTo, loopQuiet, Answered, Holds
    <2>2. /\ \A d \in Chans : d # c => batch'[d] = batch[d] /\ loop'[d] = loop[d]
          /\ loop'[c] = "receiving" /\ batch'[c] = <<>>
      BY <2>1
    <2>3. \A d \in Chans :
            /\ NoRepeat(queue'[d]) /\ NoRepeat(batch'[d])
            /\ loop'[d] \in {"none", "receiving", "ended"} => batch'[d] = <<>>
            /\ loop'[d] = "ended" => d \in chClosed' /\ queue'[d] = <<>>
      BY <2>1, <2>2, EmptyHolds DEF HandInv
    <2>4. \A x \in Requests :
            at'[x] \in {"picked", "waiting"} => chan'[x] \in Chans /\ loop'[chan'[x]] # "none"
      BY <2>1, <2>2 DEF HandInv
    <2>5. ASSUME NEW x \in Requests, NEW d \in Chans
          PROVE  IF at'[x] = "waiting" /\ d = chan'[x]
                   THEN Holds(queue'[d], x) <=> ~Holds(batch'[d], x)
                   ELSE ~Holds(queue'[d], x) /\ ~Holds(batch'[d], x)
      <3>1. CASE Holds(batch[c], x)
        <4>1. at'[x] = "ready" /\ at[x] = "waiting" /\ chan[x] = c
          BY <3>1, <2>1 DEF HandInv
        <4>2. ~Holds(queue[d], x) /\ (d # c => ~Holds(batch[d], x))
          BY <3>1, <4>1 DEF HandInv
        <4> QED
          BY <4>1, <4>2, <2>1, <2>2, EmptyHolds
      <3>2. CASE ~Holds(batch[c], x)
        <4>1. at'[x] = at[x] /\ (d = c => ~Holds(batch'[d], x) /\ ~Holds(batch[d], x))
          BY <3>2, <2>1, <2>2, EmptyHolds
        <4> QED
          BY <4>1, <2>1, <2>2 DEF HandInv
      <3> QED
        BY <3>1, <3>2
    <2> QED
      BY <2>3, <2>4, <2>5 DEF HandInv
  <1> QED
    BY <1>2, <1>3, <1>4, <1>5, <1>6, <1>7, <1>8, <1>9, <1>10, <1>11, <1>12, <1>13, <1>14
       DEF Next, ListenStep, StopStep, Handler, WorkerLoop

LEMMA HandImplies == TypeInv /\ HandInv => AcceptedInHand
  <1> SUFFICES ASSUME TypeInv, HandInv, NEW r \in Requests, NEW c \in Chans
               PROVE  IF at[r] = "waiting" /\ c = chan[r]
                        THEN loop[c] # "ended" /\ \E p \in Places(c, r) : Places(c, r) = {p}
                        ELSE Places(c, r) = {}
    BY DEF AcceptedInHand
  <1>1. CASE ~(at[r] = "waiting" /\ c = chan[r])
    <2>1. ~Holds(queue[c], r) /\ ~Holds(batch[c], r)
      BY <1>1 DEF HandInv
    <2> QED
      BY <2>1, <1>1 DEF Places, Holds
  <1>2. CASE at[r] = "waiting" /\ c = chan[r]
    <2>1. Holds(queue[c], r) <=> ~Holds(batch[c], r)
      BY <1>2 DEF HandInv
    <2>2. loop[c] # "ended"
      BY <2>1, EmptyHolds DEF HandInv
    <2>3. NoRepeat(queue[c]) /\ NoRepeat(batch[c])
      BY DEF HandInv
    <2>4. CASE Holds(queue[c], r)
      <3>1. PICK i \in DOMAIN queue[c] : queue[c][i] = r
        BY <2>4 DEF Holds
      <3>2. {j \in DOMAIN queue[c] : queue[c][j] = r} = {i}
        BY <3>1, <2>3 DEF NoRepeat
      <3>3. {j \in DOMAIN batch[c] : batch[c][j] = r} = {}
        BY <2>1, <2>4 DEF Holds
      <3>4. Places(c, r) = {<<"queue", i>>}
        BY <3>2, <3>3 DEF Places
      <3> QED
        BY <1>2, <2>2, <3>4
    <2>5. CASE Holds(batch[c], r)
      <3>1. PICK i \in DOMAIN batch[c] : batch[c][i] = r
        BY <2>5 DEF Holds
      <3>2. {j \in DOMAIN batch[c] : batch[c][j] = r} = {i}
        BY <3>1, <2>3 DEF NoRepeat
      <3>3. {j \in DOMAIN queue[c] : queue[c][j] = r} = {}
        BY <2>1, <2>5 DEF Holds
      <3>4. Places(c, r) = {<<"batch", i>>}
        BY <3>2, <3>3 DEF Places
      <3> QED
        BY <1>2, <2>2, <3>4
    <2> QED
      BY <2>1, <2>4, <2>5
  <1> QED
    BY <1>1, <1>2

-----------------------------------------------------------------------------
(* What ListenAndServe and the stoppers have made of the fields. *)
ServeInv ==
    /\ isClose # {} => closed
    /\ crashed => raced
    /\ ~raced =>
         /\ stopped \subseteq 1..calls
         /\ \A k, l \in UnderWay : k = l
         /\ UnderWay # {} \/ closed => listen \in {"idle", "serving"}
         /\ listen = "listening" => workerChs = 0
         /\ listen \in {"making", "made", "assigned"} => workerChs = calls
         /\ listen \notin {"idle", "serving"} => calls \notin stopped
         /\ listen = "assigned" => httpServer = calls
         /\ listen = "serving" => httpServer \in {0, calls} /\ open = {httpServer} \ {0}
         /\ listen \notin {"assigned", "serving"} => httpServer = 0
         /\ listen # "serving" => open = {}
         /\ (listen \in {"idle", "serving"} /\ httpServer = 0 /\ workerChs # 0) =>
              \E k \in Stoppers : stop[k] = "chans"
         /\ \A k \in Stoppers : stop[k] \in {"waiting", "shutting"} => workerChs = 0

handlersQuiet == <<closed, shut, crashed, serveVars, workerChs, stopVars>>

LEMMA HandlersQuiet ==
    ASSUME \/ \E r \in Requests : Arrive(r) \/ Pick(r) \/ Send(r) \/ Respond(r)
           \/ \E c \in Chans : WorkerLoop(c)
    PROVE  UNCHANGED handlersQuiet
  BY DEF Arrive, Pick, Send, Respond, handlerQuiet, runQuiet, WorkerLoop, Receive, LoopEnds, Dispatch, Reply, loopQuiet, handlersQuiet

LEMMA InitServe == Init => ServeInv
  BY DEF Init, ServeInv, UnderWay

LEMMA StepServe == TypeInv /\ ServeInv /\ [Next]_vars => ServeInv'
  <1> SUFFICES ASSUME TypeInv, ServeInv, [Next]_vars PROVE ServeInv'
    OBVIOUS
  <1> USE PoolAssumption DEF TypeInv, TypeOK
  <1>1. CASE UNCHANGED handlersQuiet
    BY <1>1 DEF handlersQuiet, serveVars, stopVars, ServeInv, UnderWay
  <1>2. CASE UNCHANGED vars
    BY <1>1, <1>2 DEF vars, serveVars, stopVars, handlersQuiet
  <1>3. CASE Listen
    <2>1. calls' = calls + 1 /\ stopped' = stopped /\ calls' \notin 1..calls /\ 1..calls \subseteq 1..calls'
      BY <1>3 DEF Listen
    <2>2. listen = "idle" /\ listen' = "listening" /\ ~closed /\ raced' = (raced \/ UnderWay # {})
      BY <1>3 DEF Listen, ListenTo
    <2>3. UNCHANGED <<closed, crashed, httpServer, workerChs, open, stopped, stop, isClose>>
      BY <1>3 DEF Listen
    <2>4. UnderWay' = UnderWay
      BY <2>3 DEF UnderWay
    <2>5. ~raced' => workerChs = 0 /\ UnderWay = {}
      BY <2>2 DEF ServeInv, UnderWay
    <2>6. ~raced' => \A k \in Stoppers : stop[k] \notin {"waiting", "shutting"}
      BY <2>5 DEF UnderWay
    <2> QED
      BY <2>1, <2>2, <2>3, <2>4, <2>5, <2>6 DEF ServeInv
  <1>4. CASE MakeChannels
    <2>1. /\ listen = "listening" /\ listen' = "making" /\ workerChs' = calls
          /\ UNCHANGED <<closed, crashed, raced, calls, httpServer, open, stopped, stop, isClose>>
      BY <1>4 DEF MakeChannels, ListenTo, serverQuiet, stopVars
    <2>2. UnderWay' = UnderWay /\ (~raced => UnderWay = {})
      BY <2>1 DEF UnderWay, ServeInv
    <2>3. ~raced => \A k \in Stoppers : stop[k] \notin {"waiting", "shutting"}
      BY <2>2 DEF UnderWay
    <2> QED
      BY <2>1, <2>2, <2>3 DEF ServeInv
  <1>5. CASE StartLoop
    <2>1. /\ listen = "making"
          /\ \/ workerChs = 0 /\ crashed' = TRUE /\ listen' = "idle"
             \/ workerChs # 0 /\ crashed' = crashed /\ listen' \in {"making", "made"}
          /\ UNCHANGED <<closed, raced, calls, httpServer, workerChs, open, stopped, stop, isClose>>
      BY <1>5 DEF StartLoop, ListenTo, serverQuiet, stopVars
    <2>2. ~raced => workerChs # 0 /\ UnderWay = {} /\ ~closed
      BY <2>1 DEF ServeInv, Servers
    <2>3. UnderWay' = UnderWay
      BY <2>1 DEF UnderWay
    <2> QED
      BY <2>1, <2>2, <2>3 DEF ServeInv
  <1>6. CASE AssignServer
    <2>1. /\ listen = "made" /\ listen' = "assigned" /\ httpServer' = calls
          /\ UNCHANGED <<closed, crashed, raced, calls, workerChs, open, stopped, stop, isClose>>
      BY <1>6 DEF AssignServer, ListenTo, serverQuiet, stopVars
    <2>2. UnderWay' = UnderWay
      BY <2>1 DEF UnderWay
    <2> QED
      BY <2>1, <2>2 DEF ServeInv
  <1>7. CASE Serve
    <2>1. /\ listen = "assigned"
          /\ \/ httpServer = 0
             \/ calls \in stopped
             \/ open' = open \cup {calls} /\ listen' = "serving" /\ crashed' = crashed
          /\ crashed' = crashed \/ httpServer = 0
          /\ UNCHANGED <<closed, raced, calls, httpServer, workerChs, stopped, stop, isClose>>
      BY <1>7 DEF Serve, ListenTo, serverQuiet, stopVars
    <2>2. ~raced => httpServer = calls /\ calls # 0 /\ calls \notin stopped /\ open = {}
      BY <2>1 DEF ServeInv, Servers
    <2>3. UnderWay' = UnderWay
      BY <2>1 DEF UnderWay
    <2>4. ~raced => open' = {httpServer} \ {0} /\ listen' = "serving" /\ crashed' = crashed
      BY <2>1, <2>2
    <2> QED
      BY <2>1, <2>2, <2>3, <2>4 DEF ServeInv
  <1>8. CASE ServeReturns
    <2>1. /\ listen = "serving" /\ listen' = "idle" /\ calls \notin open
          /\ UNCHANGED <<closed, raced, crashed, calls, httpServer, workerChs, open, stopped, stop, isClose>>
      BY <1>8 DEF ServeReturns, ListenTo, serverQuiet, stopVars
    <2>2. ~raced => httpServer = 0 /\ open = {}
      BY <2>1 DEF ServeInv, Servers
    <2>3. UnderWay' = UnderWay
      BY <2>1 DEF UnderWay
    <2> QED
      BY <2>1, <2>2, <2>3 DEF ServeInv
  <1>9. ASSUME NEW k \in Stoppers, Begin(k) PROVE ServeInv'
    <2>1. /\ stop[k] = "idle"
          /\ \E l \in {"begun", "done"} : stop' = [stop EXCEPT ![k] = l]
          /\ raced' = (raced \/ UnderWay # {} \/ listen \notin {"idle", "serving"})
          /\ (isClose' = isClose /\ closed' = closed) \/ closed' = TRUE
          /\ UNCHANGED <<crashed, calls, listen, httpServer, open, stopped, workerChs>>
      BY <1>9 DEF Begin, StopTo, serveVars
    <2>2. /\ UnderWay' \subseteq UnderWay \cup {k}
          /\ \A l \in Stoppers : l # k => stop'[l] = stop[l]
          /\ stop'[k] \in {"begun", "done"}
      BY <2>1 DEF UnderWay
    <2>3. ~raced' => UnderWay = {} /\ listen \in {"idle", "serving"} /\ ~raced
      BY <2>1
    <2>4. ~raced' => \A l \in Stoppers : stop'[l] \notin {"waiting", "shutting"}
      BY <2>2, <2>3 DEF UnderWay
    <2>5. ~raced' => \A l \in Stoppers : stop[l] # "chans"
      BY <2>3 DEF UnderWay
    <2>7. (isClose' # {} => closed') /\ (crashed' => raced')
      BY <2>1 DEF ServeInv
    <2>8. ~raced' => \A l, m \in UnderWay' : l = m
      BY <2>2, <2>3
    <2> QED
      BY <2>1, <2>3, <2>4, <2>5, <2>7, <2>8 DEF ServeInv
  <1>10. ASSUME NEW k \in Stoppers, CloseServer(k) PROVE ServeInv'
    <2>1. /\ stop[k] = "begun" /\ stop' = [stop EXCEPT ![k] = "chans"]
          /\ httpServer' = 0 /\ open' = open \ {httpServer} /\ stopped' = stopped \cup ({httpServer} \ {0})
          /\ UNCHANGED <<closed, crashed, raced, calls, listen, workerChs, isClose>>
      BY <1>10 DEF CloseServer, StopTo, stopperQuiet
    <2>2. /\ UnderWay' = UnderWay /\ k \in UnderWay /\ stop'[k] = "chans"
          /\ \A l \in Stoppers : stop'[l] \in {"waiting", "shutting"} => stop[l] \in {"waiting", "shutting"}
      BY <2>1 DEF UnderWay
    <2>3. ~raced => listen \in {"idle", "serving"} /\ open' = {} /\ stopped' \subseteq 1..calls
      BY <2>1, <2>2 DEF ServeInv
    <2> QED
      BY <2>1, <2>2, <2>3 DEF ServeInv
  <1>11. ASSUME NEW k \in Stoppers, CloseChannels(k) PROVE ServeInv'
    <2>1. /\ stop[k] = "chans" /\ stop' = [stop EXCEPT ![k] = "waiting"] /\ workerChs' = 0
          /\ UNCHANGED <<closed, crashed, raced, calls, listen, httpServer, open, stopped, isClose>>
      BY <1>11 DEF CloseChannels, StopTo, stopperQuiet
    <2>2. UnderWay' = UnderWay /\ k \in UnderWay
      BY <2>1 DEF UnderWay
    <2>3. ~raced => listen \in {"idle", "serving"}
      BY <2>2 DEF ServeInv
    <2> QED
      BY <2>1, <2>2, <2>3 DEF ServeInv
  <1>12. ASSUME NEW k \in Stoppers, JoinLoops(k) \/ Shut(k) PROVE ServeInv'
    <2>1. /\ stop[k] \in {"waiting", "shutting"}
          /\ \E l \in {"shutting", "done"} : stop' = [stop EXCEPT ![k] = l]
          /\ UNCHANGED <<closed, crashed, raced, calls, listen, httpServer, open, stopped, workerChs, isClose>>
      BY <1>12 DEF JoinLoops, Shut, StopTo, stopperQuiet
    <2>2. /\ UnderWay' \subseteq UnderWay /\ k \in UnderWay
          /\ \A l \in Stoppers : l # k => stop'[l] = stop[l]
          /\ stop'[k] \in {"shutting", "done"}
      BY <2>1 DEF UnderWay
    <2>3. ~raced => workerChs = 0 /\ listen \in {"idle", "serving"}
      BY <2>1, <2>2 DEF ServeInv
    <2> QED
      BY <2>1, <2>2, <2>3 DEF ServeInv
  <1> QED
    BY <1>1, <1>2, <1>3, <1>4, <1>5, <1>6, <1>7, <1>8, <1>9, <1>10, <1>11, <1>12, HandlersQuiet
       DEF Next, ListenStep, StopStep, Handler

-----------------------------------------------------------------------------
(* Whose channels the loops at work have. *)
Active(c) == loop[c] \notin {"none", "ended"}

LoopInv ==
    ~raced =>
      /\ \A c \in Chans : Active(c) => \/ c[1] = workerChs
                                      \/ \E k \in Stoppers : stop[k] = "waiting" /\ mine[k] = c[1]
      /\ (shut # {} \/ \E k \in Stoppers : stop[k] = "shutting") =>
           closed /\ \A c \in Chans : ~Active(c)

LEMMA ChanServer == \A c \in Chans : c[1] # 0
  BY DEF Chans, Servers

LEMMA InitLoop == Init => LoopInv
  BY DEF Init, LoopInv, Active

LEMMA StepLoop == TypeInv /\ ServeInv /\ ServeInv' /\ LoopInv /\ [Next]_vars => LoopInv'
  <1> SUFFICES ASSUME TypeInv, ServeInv, ServeInv', LoopInv, [Next]_vars, ~raced' PROVE LoopInv'
    BY DEF LoopInv
  <1> USE PoolAssumption DEF TypeInv, TypeOK
  <1> DEFINE Had(c) == \/ c[1] = workerChs
                       \/ \E k \in Stoppers : stop[k] = "waiting" /\ mine[k] = c[1]
             Over   == shut # {} \/ \E k \in Stoppers : stop[k] = "shutting"
  <1>1. CASE UNCHANGED <<closed, shut, raced, workerChs, stop, mine, loop>>
    BY <1>1 DEF LoopInv, Active
  <1>2. CASE UNCHANGED vars
    BY <1>1, <1>2 DEF vars, stopVars, loopVars
  <1>3. CASE Listen
    <2>1. ~raced /\ UNCHANGED <<closed, shut, workerChs, stop, mine, loop>>
      BY <1>3 DEF Listen, loopVars
    <2> QED
      BY <2>1 DEF LoopInv, Active
  <1>4. CASE MakeChannels
    <2>1. listen = "listening" /\ UNCHANGED <<closed, shut, raced, stop, mine, loop>>
      BY <1>4 DEF MakeChannels, serverQuiet, stopVars, loopVars
    <2>2. ~raced /\ workerChs = 0 /\ UnderWay = {}
      BY <2>1 DEF ServeInv
    <2>3. \A c \in Chans : ~Active(c)
      BY <2>2, ChanServer DEF LoopInv, UnderWay
    <2> QED
      BY <2>1, <2>2, <2>3 DEF LoopInv, Active
  <1>5. CASE StartLoop
    <2>1. listen = "making" /\ UNCHANGED <<closed, shut, raced, workerChs, stop, mine>>
      BY <1>5 DEF StartLoop, serverQuiet, stopVars
    <2>2. ~raced /\ workerChs = calls /\ UnderWay = {} /\ ~closed
      BY <2>1 DEF ServeInv
    <2>3. ASSUME NEW c \in Chans, Active(c)' PROVE Active(c) \/ c[1] = calls
      <3>1. CASE loop' = loop
        BY <3>1, <2>3 DEF Active
      <3>2. CASE \E i \in Runtimes : loop' = [loop EXCEPT ![<<calls, i>>] = "receiving"]
        BY <3>2, <2>3 DEF Active
      <3> QED
        BY <1>5, <3>1, <3>2 DEF StartLoop
    <2>4. ~Over
      BY <2>2 DEF LoopInv, UnderWay
    <2> QED
      BY <2>1, <2>2, <2>3, <2>4 DEF LoopInv
  <1>6. CASE AssignServer \/ Serve \/ ServeReturns
    BY <1>1, <1>6 DEF AssignServer, Serve, ServeReturns, serverQuiet, stopVars, loopVars
  <1>7. ASSUME NEW k \in Stoppers, Begin(k) PROVE LoopInv'
    <2>1. /\ stop[k] = "idle" /\ ~raced
          /\ \E l \in {"begun", "done"} : stop' = [stop EXCEPT ![k] = l]
          /\ closed => closed'
          /\ UNCHANGED <<shut, workerChs, mine, loop>>
      BY <1>7 DEF Begin, StopTo, loopVars
    <2>2. \A l \in Stoppers, w \in {"waiting", "shutting"} : stop'[l] = w <=> stop[l] = w
      BY <2>1
    <2> QED
      BY <2>1, <2>2 DEF LoopInv, Active
  <1>8. ASSUME NEW k \in Stoppers, CloseServer(k) PROVE LoopInv'
    <2>1. /\ stop[k] = "begun" /\ stop' = [stop EXCEPT ![k] = "chans"]
          /\ UNCHANGED <<raced, closed, shut, workerChs, mine, loop>>
      BY <1>8 DEF CloseServer, StopTo, loopVars
    <2>2. \A l \in Stoppers, w \in {"waiting", "shutting"} : stop'[l] = w <=> stop[l] = w
      BY <2>1
    <2> QED
      BY <2>1, <2>2 DEF LoopInv, Active
  <1>9. ASSUME NEW k \in Stoppers, CloseChannels(k) PROVE LoopInv'
    <2>1. /\ stop[k] = "chans" /\ stop' = [stop EXCEPT ![k] = "waiting"]
          /\ mine' = [mine EXCEPT ![k] = workerChs]
          /\ UNCHANGED <<raced, closed, shut, loop>>
      BY <1>9 DEF CloseChannels, StopTo
    <2>2. /\ stop'[k] = "waiting" /\ mine'[k] = workerChs
          /\ \A l \in Stoppers : l # k => stop'[l] = stop[l] /\ mine'[l] = mine[l]
      BY <2>1
    <2>3. \A c \in Chans : Active(c)' => \E l \in Stoppers : stop'[l] = "waiting" /\ mine'[l] = c[1]
      BY <2>1, <2>2 DEF LoopInv, Active
    <2> QED
      BY <2>1, <2>2, <2>3 DEF LoopInv, Active
  <1>10. ASSUME NEW k \in Stoppers, JoinLoops(k) PROVE LoopInv'
    <2>1. /\ stop[k] = "waiting" /\ stop' = [stop EXCEPT ![k] = IF k \in isClose THEN "shutting" ELSE "done"]
          /\ \A c \in Chans : c[1] = mine[k] => ~Active(c)
          /\ UNCHANGED <<raced, closed, shut, workerChs, loop>>
      BY <1>10 DEF JoinLoops, StopTo, Made, Active, loopVars
    <2>2. /\ workerChs = 0
          /\ \A l \in Stoppers : stop[l] = "waiting" => l = k
      BY <2>1 DEF ServeInv, UnderWay
    <2>3. \A c \in Chans : ~Active(c)
      BY <2>1, <2>2, ChanServer DEF LoopInv
    <2>4. stop'[k] = "shutting" => closed
      BY <2>1 DEF ServeInv
    <2>5. \A l \in Stoppers : l # k => stop'[l] = stop[l]
      BY <2>1
    <2> QED
      BY <2>1, <2>3, <2>4, <2>5 DEF LoopInv, Active
  <1>11. ASSUME NEW k \in Stoppers, Shut(k) PROVE LoopInv'
    <2>1. /\ stop[k] = "shutting" /\ UNCHANGED <<raced, closed, loop>>
      BY <1>11 DEF Shut, loopVars
    <2> QED
      BY <2>1 DEF LoopInv, Active
  <1>12. ASSUME NEW r \in Requests, Arrive(r) \/ Handler(r) PROVE LoopInv'
    BY <1>1, <1>12 DEF Arrive, Handler, Pick, Send, Respond, handlerQuiet, runQuiet, stopVars
  <1>13. ASSUME NEW c \in Chans, WorkerLoop(c) PROVE LoopInv'
    <2>1. /\ loop[c] \in {"receiving", "batch", "answering"}
          /\ \E l \in {"receiving", "batch", "answering", "ended"} : loop' = [loop EXCEPT ![c] = l]
          /\ UNCHANGED <<raced, closed, shut, workerChs, stop, mine>>
      BY <1>13 DEF WorkerLoop, Receive, LoopEnds, Dispatch, Reply, LoopTo, loopQuiet, stopVars
    <2>2. \A d \in Chans : Active(d)' => Active(d)
      BY <2>1 DEF Active
    <2> QED
      BY <2>1, <2>2 DEF LoopInv
  <1> QED
    BY <1>2, <1>3, <1>4, <1>5, <1>6, <1>7, <1>8, <1>9, <1>10, <1>11, <1>12, <1>13
       DEF Next, ListenStep, StopStep

-----------------------------------------------------------------------------
(* What a loop is about to answer, and what has been answered. *)
AnswerInv ==
    ~raced =>
      /\ \A c \in Chans : loop[c] = "answering" =>
           \A i \in DOMAIN batch[c] : resps[c][i] = batch[c][i]
      /\ \A r \in Requests : at[r] \in {"ready", "answered"} => answer[r] = r

LEMMA InitAnswer == Init => AnswerInv
  BY DEF Init, AnswerInv

LEMMA StepAnswer == TypeInv /\ LoopInv /\ AnswerInv /\ [Next]_vars => AnswerInv'
  <1> SUFFICES ASSUME TypeInv, LoopInv, AnswerInv, [Next]_vars, ~raced' PROVE AnswerInv'
    BY DEF AnswerInv
  <1> USE PoolAssumption DEF TypeInv, TypeOK
  <1>1. ASSUME ~raced, UNCHANGED <<loop, batch, resps, at, answer>> PROVE AnswerInv'
    BY <1>1 DEF AnswerInv
  <1>2. CASE UNCHANGED vars
    BY <1>1, <1>2 DEF vars, stopVars, reqVars, loopVars
  <1>3. CASE Listen \/ MakeChannels \/ AssignServer \/ Serve \/ ServeReturns
    BY <1>1, <1>3 DEF Listen, MakeChannels, AssignServer, Serve, ServeReturns, serverQuiet,
                      stopVars, reqVars, loopVars
  <1>4. CASE StartLoop
    <2>1. UNCHANGED <<raced, batch, resps, at, answer>>
      BY <1>4 DEF StartLoop, serverQuiet, stopVars, reqVars
    <2>2. \A c \in Chans : loop'[c] = "answering" => loop[c] = "answering"
      BY <1>4 DEF StartLoop
    <2> QED
      BY <2>1, <2>2 DEF AnswerInv
  <1>5. ASSUME NEW k \in Stoppers, Begin(k) \/ StopStep(k) PROVE AnswerInv'
    <2>1. ~raced /\ UNCHANGED <<loop, batch, resps, at, answer>>
      BY <1>5 DEF Begin, StopStep, CloseServer, CloseChannels, JoinLoops, Shut, stopperQuiet, reqVars, loopVars
    <2> QED
      BY <1>1, <2>1
  <1>6. ASSUME NEW r \in Requests, Arrive(r) \/ Handler(r) PROVE AnswerInv'
    <2>1. /\ UNCHANGED <<raced, loop, batch, resps, answer>>
          /\ \/ \E l \in {"in", "panicked", "stuck", "picked", "waiting"} : at' = [at EXCEPT ![r] = l]
             \/ at[r] = "ready" /\ \E l \in {"lost", "answered"} : at' = [at EXCEPT ![r] = l]
      BY <1>6 DEF Arrive, Handler, Pick, Send, Respond, Returns, HandlerTo, handlerQuiet, runQuiet, stopVars
    <2>2. \A x \in Requests : at'[x] \in {"ready", "answered"} => at[x] \in {"ready", "answered"}
      BY <2>1
    <2> QED
      BY <2>1, <2>2 DEF AnswerInv
  <1>7. ASSUME NEW c \in Chans, Receive(c) \/ LoopEnds(c) PROVE AnswerInv'
    <2>1. /\ UNCHANGED <<raced, at, answer>>
          /\ \A d \in Chans : loop'[d] = "answering" =>
               loop[d] = "answering" /\ batch'[d] = batch[d] /\ resps'[d] = resps[d]
      BY <1>7 DEF Receive, LoopEnds, LoopTo, loopQuiet, stopVars
    <2> QED
      BY <2>1 DEF AnswerInv
  <1>8. ASSUME NEW c \in Chans, Dispatch(c) PROVE AnswerInv'
    <2>1. /\ loop[c] = "batch" /\ ~raced /\ UNCHANGED <<batch, at, answer>>
      BY <1>8 DEF Dispatch, loopQuiet, stopVars
    <2>2. c[2] \notin shut
      BY <2>1 DEF LoopInv, Active
    <2>3. /\ DOMAIN batch[c] = 1..Len(batch[c]) /\ Len(batch[c]) \in Nat /\ Len(batch[c]) <= BatchSize
      <3>1. batch[c] \in Seq(Requests) /\ Len(batch[c]) <= BatchSize
        OBVIOUS
      <3> QED
        BY <3>1
    <2>4. resps' = [resps EXCEPT ![c] = [i \in 1..BatchSize |-> IF i <= Len(batch[c]) THEN batch[c][i] ELSE @[i]]]
      BY <1>8, <2>2 DEF Dispatch
    <2>5. \A i \in DOMAIN batch[c] : resps'[c][i] = batch[c][i]
      BY <2>3, <2>4
    <2>6. \A d \in Chans : d # c => resps'[d] = resps[d] /\ loop'[d] = loop[d]
      BY <1>8, <2>4 DEF Dispatch, LoopTo
    <2>7. \A d \in Chans : loop'[d] = "answering" => \A i \in DOMAIN batch'[d] : resps'[d][i] = batch'[d][i]
      <3> HIDE DEF TypeInv
      <3> QED
        BY <2>1, <2>5, <2>6 DEF AnswerInv
    <2>8. \A r \in Requests : at'[r] \in {"ready", "answered"} => answer'[r] = r
      BY <2>1 DEF AnswerInv
    <2> QED
      BY <2>7, <2>8 DEF AnswerInv
  <1>9. ASSUME NEW c \in Chans, Reply(c) PROVE AnswerInv'
    <2>1. loop[c] = "answering" /\ ~raced /\ UNCHANGED resps
      BY <1>9 DEF Reply, loopQuiet, stopVars
    <2>2. \A d \in Chans : loop'[d] = "answering" => loop[d] = "answering" /\ batch'[d] = batch[d]
      BY <1>9 DEF Reply, LoopTo
    <2>3. ASSUME NEW r \in Requests, at'[r] \in {"ready", "answered"} PROVE answer'[r] = r
      <3>1. CASE Answered(c, r)
        <4>1. (CHOOSE i \in DOMAIN batch[c] : batch[c][i] = r) \in {i \in DOMAIN batch[c] : batch[c][i] = r}
          BY <3>1 DEF Answered
        <4>2. resps[c][CHOOSE i \in DOMAIN batch[c] : batch[c][i] = r] = r
          BY <2>1, <4>1 DEF AnswerInv
        <4> QED
          BY <1>9, <3>1, <4>2 DEF Reply
      <3>2. CASE ~Answered(c, r)
        BY <1>9, <2>1, <2>3, <3>2 DEF Reply, AnswerInv
      <3> QED
        BY <3>1, <3>2
    <2> QED
      BY <2>1, <2>2, <2>3 DEF AnswerInv
  <1> QED
    BY <1>2, <1>3, <1>4, <1>5, <1>6, <1>7, <1>8, <1>9 DEF Next, ListenStep, WorkerLoop

-----------------------------------------------------------------------------
(* Nothing can race before anybody calls StopHTTP or Close. *)
Begun == \E k \in Stoppers : stop[k] # "idle"

BegunInv == raced => Begun

LEMMA StepBegun == TypeInv /\ BegunInv /\ [Next]_vars => BegunInv'
  <1> SUFFICES ASSUME TypeInv, BegunInv, [Next]_vars, raced' PROVE Begun'
    BY DEF BegunInv
  <1>1. ASSUME NEW k \in Stoppers, Begin(k) \/ StopStep(k) PROVE Begun'
    <2>1. \E l \in {"begun", "chans", "waiting", "shutting", "done"} : stop' = [stop EXCEPT ![k] = l]
      BY <1>1 DEF Begin, StopStep, CloseServer, CloseChannels, JoinLoops, Shut, StopTo
    <2> QED
      BY <2>1 DEF Begun, TypeInv, TypeOK
  <1>2. CASE Listen
    <2>1. stop' = stop /\ (raced \/ UnderWay # {})
      BY <1>2 DEF Listen
    <2> QED
      BY <2>1 DEF BegunInv, Begun, UnderWay
  <1>3. CASE UNCHANGED <<raced, stop>>
    BY <1>3 DEF BegunInv, Begun
  <1>4. CASE ListenStep
    BY <1>3, <1>4 DEF ListenStep, MakeChannels, StartLoop, AssignServer, Serve, ServeReturns, serverQuiet, stopVars
  <1>5. CASE UNCHANGED handlersQuiet
    BY <1>3, <1>5 DEF handlersQuiet, stopVars
  <1>6. CASE UNCHANGED vars
    BY <1>3, <1>6 DEF vars, stopVars
  <1> QED
    BY <1>1, <1>2, <1>4, <1>5, <1>6, HandlersQuiet DEF Next, Handler

-----------------------------------------------------------------------------
(* Whose requests are cut: a server that is in front of a handler is open or *)
(* stopped, and without a race a handler finds the channels of the server    *)
(* that called it, open, until that server is stopped.                       *)
CutInv ==
    /\ open \cap stopped = {}
    /\ \A r \in Requests : at[r] = "none" => via[r] = 0
    /\ \A r \in Requests : at[r] # "none" => via[r] \in open \cup stopped
    /\ ~raced =>
         /\ \A k \in Stoppers : stop[k] \in {"chans", "waiting", "shutting"} => httpServer = 0
         /\ \A k \in Stoppers : stop[k] = "chans" => workerChs \in stopped \cup {0}
         /\ listen = "serving" /\ httpServer # 0 => workerChs = calls
         /\ \A c \in chClosed : c[1] \in stopped
         /\ \A r \in Requests : at[r] = "picked" => via[r] \in stopped \/ chan[r][1] = via[r]
         /\ \A r \in Requests : at[r] = "panicked" => via[r] \in stopped

LEMMA InitCut == Init => CutInv
  BY DEF Init, CutInv

LEMMA OpenIsCurrent ==
    ASSUME TypeInv, ServeInv, CutInv, ~raced, NEW r \in Requests, at[r] # "none", via[r] \notin stopped
    PROVE  via[r] = calls /\ workerChs = calls /\ calls # 0
  <1>1. via[r] \in open /\ via[r] \in Servers
    BY DEF CutInv, TypeInv, TypeOK
  <1>2. listen = "serving" /\ open = {httpServer} \ {0} /\ httpServer \in {0, calls}
    BY <1>1 DEF ServeInv
  <1> QED
    BY <1>1, <1>2 DEF CutInv, Servers

LEMMA StepCut == TypeInv /\ HandInv /\ ServeInv /\ CutInv /\ [Next]_vars => CutInv'
  <1> SUFFICES ASSUME TypeInv, HandInv, ServeInv, CutInv, [Next]_vars PROVE CutInv'
    OBVIOUS
  <1> USE PoolAssumption DEF TypeInv, TypeOK
  <1>1. CASE UNCHANGED <<raced, calls, listen, httpServer, workerChs, open, stopped, stop, chClosed, via, at, chan>>
    BY <1>1 DEF CutInv
  <1>2. CASE UNCHANGED vars
    BY <1>1, <1>2 DEF vars, serveVars, stopVars, reqVars, loopVars
  <1>3. CASE Listen \/ ListenStep
    <2>1. /\ UNCHANGED <<stopped, stop, chClosed, via, at, chan>> /\ open \subseteq open'
          /\ raced => raced'
      <3>1. CASE Listen
        BY <3>1, Zenon DEF Listen, reqVars, loopVars
      <3>2. CASE MakeChannels \/ StartLoop \/ AssignServer \/ ServeReturns
        BY <3>2 DEF MakeChannels, StartLoop, AssignServer, ServeReturns, serverQuiet, stopVars, reqVars, loopVars
      <3>3. CASE Serve
        BY <3>3 DEF Serve, serverQuiet, stopVars, reqVars, loopVars
      <3> QED
        BY <1>3, <3>1, <3>2, <3>3 DEF ListenStep
    <2>2. ASSUME ~raced
          PROVE  /\ \A k \in Stoppers : stop[k] \in {"chans", "waiting", "shutting"} => httpServer' = 0
                 /\ \A k \in Stoppers : stop[k] = "chans" => workerChs' \in stopped \cup {0}
      <3>1. CASE UNCHANGED <<httpServer, workerChs>>
        BY <2>2, <3>1 DEF CutInv
      <3>2. CASE MakeChannels \/ AssignServer
        BY <2>2, <3>2 DEF MakeChannels, AssignServer, ServeInv, UnderWay
      <3> QED
        BY <1>3, <3>1, <3>2 DEF Listen, ListenStep, StartLoop, Serve, ServeReturns
    <2>3. ~raced /\ listen' = "serving" /\ httpServer' # 0 => workerChs' = calls'
      BY <1>3 DEF Listen, ListenStep, MakeChannels, StartLoop, AssignServer, Serve, ServeReturns, ListenTo, ServeInv
    <2>4. open' \cap stopped' = {}
      <3>1. CASE open' = open
        BY <2>1, <3>1 DEF CutInv
      <3>2. CASE open' = open \cup {calls} /\ calls \notin stopped
        BY <2>1, <3>2 DEF CutInv
      <3> QED
        BY <1>3, <3>1, <3>2 DEF Listen, ListenStep, MakeChannels, StartLoop, AssignServer, Serve, ServeReturns
    <2> QED
      BY <2>1, <2>2, <2>3, <2>4 DEF CutInv
  <1>4. ASSUME NEW k \in Stoppers, Begin(k) PROVE CutInv'
    <2>1. /\ \E l \in {"begun", "done"} : stop' = [stop EXCEPT ![k] = l]
          /\ raced' = (raced \/ UnderWay # {} \/ listen \notin {"idle", "serving"})
          /\ UNCHANGED <<calls, listen, httpServer, open, stopped, workerChs, chClosed, via, at, chan>>
      BY <1>4 DEF Begin, StopTo, serveVars, reqVars, loopVars
    <2>2. \A l \in Stoppers, w \in {"chans", "waiting", "shutting"} : stop'[l] = w => stop[l] = w
      BY <2>1
    <2>3. raced => raced'
      BY <2>1, Zenon
    <2> QED
      BY <2>1, <2>2, <2>3 DEF CutInv
  <1>5. ASSUME NEW k \in Stoppers, CloseServer(k) PROVE CutInv'
    <2>1. /\ stop[k] = "begun" /\ stop' = [stop EXCEPT ![k] = "chans"]
          /\ httpServer' = 0 /\ open' = open \ {httpServer} /\ stopped' = stopped \cup ({httpServer} \ {0})
          /\ UNCHANGED <<raced, calls, listen, workerChs, chClosed, via, at, chan>>
      BY <1>5 DEF CloseServer, StopTo, stopperQuiet, reqVars, loopVars
    <2>2. open \cup stopped \subseteq open' \cup stopped' /\ stopped \subseteq stopped'
      BY <2>1 DEF Servers
    <2>3. ASSUME ~raced, workerChs # 0 PROVE workerChs \in stopped'
      <3>1. listen \in {"idle", "serving"} /\ \A l \in Stoppers : stop[l] # "chans"
        <4>1. k \in UnderWay /\ \A l \in Stoppers : stop[l] = "chans" => l \in UnderWay /\ l # k
          BY <2>1 DEF UnderWay
        <4> QED
          BY <2>3, <4>1 DEF ServeInv
      <3>2. httpServer # 0
        BY <2>3, <3>1 DEF ServeInv
      <3>3. workerChs = calls /\ httpServer = calls
        BY <2>3, <3>1, <3>2 DEF ServeInv, CutInv
      <3> QED
        BY <2>1, <3>2, <3>3
    <2> QED
      BY <2>1, <2>2, <2>3 DEF CutInv
  <1>6. ASSUME NEW k \in Stoppers, CloseChannels(k) PROVE CutInv'
    <2>1. /\ stop[k] = "chans" /\ stop' = [stop EXCEPT ![k] = "waiting"] /\ workerChs' = 0
          /\ chClosed' = chClosed \cup Made(workerChs)
          /\ UNCHANGED <<raced, calls, listen, httpServer, open, stopped, via, at, chan>>
      BY <1>6 DEF CloseChannels, StopTo, stopperQuiet, reqVars
    <2>2. ~raced => httpServer = 0 /\ workerChs \in stopped \cup {0}
      BY <2>1 DEF CutInv
    <2>3. \A c \in Made(workerChs) : c[1] = workerChs /\ c[1] # 0
      BY ChanServer DEF Made
    <2> QED
      BY <2>1, <2>2, <2>3 DEF CutInv
  <1>7. ASSUME NEW k \in Stoppers, JoinLoops(k) \/ Shut(k) PROVE CutInv'
    <2>1. /\ stop[k] \in {"waiting", "shutting"}
          /\ \E l \in {"shutting", "done"} : stop' = [stop EXCEPT ![k] = l]
          /\ UNCHANGED <<raced, calls, listen, httpServer, open, stopped, workerChs, chClosed, via, at, chan>>
      BY <1>7 DEF JoinLoops, Shut, StopTo, stopperQuiet, reqVars, loopVars
    <2> QED
      BY <2>1 DEF CutInv
  <1>8. ASSUME NEW r \in Requests, Arrive(r) PROVE CutInv'
    <2>1. /\ at' = [at EXCEPT ![r] = "in"] /\ \E s \in open : via' = [via EXCEPT ![r] = s]
          /\ at[r] = "none"
          /\ UNCHANGED <<raced, calls, listen, httpServer, open, stopped, workerChs, stop, chClosed, chan>>
      BY <1>8 DEF Arrive, HandlerTo, runQuiet, serveVars, stopVars
    <2> QED
      BY <2>1 DEF CutInv
  <1>9. ASSUME NEW r \in Requests, Handler(r) PROVE CutInv'
    <2>1. /\ UNCHANGED <<raced, calls, listen, httpServer, open, stopped, workerChs, stop, chClosed, via>>
          /\ at[r] \in {"in", "picked", "ready"}
      BY <1>9 DEF Handler, Pick, Send, Respond, handlerQuiet, runQuiet, serveVars, stopVars
    <2>2. PICK l \in {"panicked", "stuck", "picked", "waiting", "lost", "answered"} : at' = [at EXCEPT ![r] = l]
      BY <1>9 DEF Handler, Pick, Send, Respond, Returns, HandlerTo
    <2>3. \A x \in Requests \ {r} : chan'[x] = chan[x] /\ at'[x] = at[x]
      BY <1>9, <2>2 DEF Handler, Pick, Send, Respond, Returns
    <2>4. ASSUME ~raced, l = "picked", via[r] \notin stopped PROVE chan'[r][1] = via[r]
      <3>1. via[r] = calls /\ workerChs = calls
        BY <2>1, <2>4, OpenIsCurrent
      <3>2. chan'[r] = <<workerChs, httpNext % Size>>
        BY <1>9, <2>2, <2>4 DEF Handler, Pick, Send, Respond, Returns, HandlerTo
      <3> QED
        BY <3>1, <3>2
    <2>5. ASSUME ~raced, l = "panicked", via[r] \notin stopped PROVE FALSE
      <3>1. via[r] = calls /\ workerChs = calls /\ calls # 0
        BY <2>1, <2>5, OpenIsCurrent
      <3>2. at'[r] = "panicked"
        BY <2>2, <2>5
      <3>3. at[r] = "picked" /\ chan[r] \in chClosed
        BY <1>9, <3>1, <3>2 DEF Handler, Pick, Send, Respond, Returns, HandlerTo
      <3> QED
        BY <2>5, <3>3 DEF CutInv
    <2>6. at'[r] = l
      BY <2>2
    <2> QED
      BY <2>1, <2>3, <2>4, <2>5, <2>6 DEF CutInv
  <1>10. ASSUME NEW c \in Chans, Receive(c) \/ LoopEnds(c) \/ Dispatch(c) PROVE CutInv'
    BY <1>1, <1>10 DEF Receive, LoopEnds, Dispatch, loopQuiet, serveVars, stopVars
  <1>11. ASSUME NEW c \in Chans, Reply(c) PROVE CutInv'
    <2>1. /\ at' = [r \in Requests |-> IF Answered(c, r) THEN "ready" ELSE at[r]]
          /\ UNCHANGED <<raced, calls, listen, httpServer, open, stopped, workerChs, stop, chClosed, via, chan>>
      BY <1>11 DEF Reply, loopQuiet, serveVars, stopVars
    <2>2. \A r \in Requests : Answered(c, r) => at[r] = "waiting"
      BY DEF HandInv, Holds, Answered
    <2> QED
      BY <2>1, <2>2 DEF CutInv
  <1> QED
    BY <1>2, <1>3, <1>4, <1>5, <1>6, <1>7, <1>8, <1>9, <1>10, <1>11 DEF Next, StopStep, WorkerLoop

-----------------------------------------------------------------------------
IInv == TypeInv /\ HandInv /\ ServeInv /\ LoopInv /\ AnswerInv /\ BegunInv /\ CutInv

LEMMA InitIInv == Init => IInv
  BY InitType, InitHand, InitServe, InitLoop, InitAnswer, InitCut DEF IInv, Init, BegunInv

LEMMA StepIInv == IInv /\ [Next]_vars => IInv'
  BY StepType, StepHand, StepServe, StepLoop, StepAnswer, StepBegun, StepCut DEF IInv

(* The inductive invariant of Pool. *)
THEOREM Invariance == Spec => []IInv
  BY InitIInv, StepIInv, PTL DEF Spec

(* Type correctness of Pool. *)
THEOREM TypeCorrect == Spec => []TypeOK
  <1>1. IInv => TypeOK
    BY DEF IInv, TypeInv
  <1> QED
    BY <1>1, Invariance, PTL

(* A request that waits is in one place, and its loop has not ended (the     *)
(* drain of StopHTTP).                                                       *)
THEOREM InHand == Spec => []AcceptedInHand
  <1>1. IInv => AcceptedInHand
    BY HandImplies DEF IInv
  <1> QED
    BY <1>1, Invariance, PTL

(* Each request gets its own response (Dispatch and Reply of workerLoop), if *)
(* the server's methods are called one after the other.                      *)
THEOREM OwnAnswers == Spec => []OwnAnswer
  <1>1. IInv => OwnAnswer
    BY DEF IInv, AnswerInv, OwnAnswer
  <1> QED
    BY <1>1, Invariance, PTL

(* When StopHTTP or Close has returned, nothing of the server is left.       *)
THEOREM StopCompletes == Spec => []StopIsComplete
  <1>1. IInv => StopIsComplete
    <2> SUFFICES ASSUME IInv, ~raced, listen = "idle", UnderWay = {}
                 PROVE  open = {} /\ \A c \in Chans : loop[c] \in {"none", "ended"}
      BY DEF StopIsComplete
    <2>1. open = {} /\ workerChs = 0
      BY DEF IInv, ServeInv, UnderWay
    <2>2. \A c \in Chans : ~Active(c)
      BY <2>1, ChanServer DEF IInv, LoopInv, UnderWay
    <2> QED
      BY <2>1, <2>2 DEF Active
  <1> QED
    BY <1>1, Invariance, PTL

(* ListenAndServe panics only in a race with StopHTTP or Close; without one  *)
(* a handler panics only once the server that called it has been stopped.    *)
THEOREM PanicsOnlyOfStop == Spec => []OnlyStopPanics
  <1>1. IInv => OnlyStopPanics
    BY DEF IInv, ServeInv, CutInv, OnlyStopPanics
  <1> QED
    BY <1>1, Invariance, PTL
-----------------------------------------------------------------------------
(* Pool implements HttpServer. *)

LEMMA FateCases ==
    ASSUME NEW r, NEW s
    PROVE  /\ Fate(r, "none", s) = "none"
           /\ Fate(r, "in", s) = "arrived" /\ Fate(r, "picked", s) = "arrived"
           /\ Fate(r, "stuck", s) = "arrived" /\ Fate(r, "waiting", s) = "accepted"
           /\ Fate(r, "panicked", s) = "dropped" /\ Fate(r, "lost", s) = "dropped"
           /\ Fate(r, "ready", s) = IF s = r THEN "ready" ELSE "spoiled"
           /\ Fate(r, "answered", s) = IF s = r THEN "answered" ELSE "wrong"
  <1>1. /\ Fate(r, "none", s) = "none"
        /\ Fate(r, "in", s) = "arrived" /\ Fate(r, "picked", s) = "arrived"
        /\ Fate(r, "stuck", s) = "arrived" /\ Fate(r, "waiting", s) = "accepted"
        /\ Fate(r, "panicked", s) = "dropped" /\ Fate(r, "lost", s) = "dropped"
    BY Zenon DEF Fate
  <1>2. CASE s = r
    BY <1>1, <1>2, Zenon DEF Fate
  <1>3. CASE s # r
    BY <1>1, <1>3, Zenon DEF Fate
  <1> QED
    BY <1>1, <1>2, <1>3

(* What the users of the server see of a state: the refinement mapping. *)
Resting == listen = "idle" /\ UnderWay = {}
Fates   == [r \in Requests |-> Fate(r, at[r], answer[r])]
Cut     == {r \in Requests : via[r] \in stopped}

LEMMA FatePlaces ==
    TypeOK => \A r \in Requests : /\ Fates[r] = "accepted" <=> at[r] = "waiting"
                                  /\ Fates[r] = "none" <=> at[r] = "none"
  <1> SUFFICES ASSUME TypeOK, NEW r \in Requests
               PROVE  (Fates[r] = "accepted" <=> at[r] = "waiting") /\ (Fates[r] = "none" <=> at[r] = "none")
    OBVIOUS
  <1>1. at[r] \in Whereabouts
    BY DEF TypeOK, Whereabouts
  <1>2. Fates[r] = Fate(r, at[r], answer[r])
    BY DEF Fates
  <1>3. CASE answer[r] = r
    BY <1>1, <1>2, <1>3, FateCases DEF Whereabouts
  <1>4. CASE answer[r] # r
    BY <1>1, <1>2, <1>4, FateCases DEF Whereabouts
  <1> QED
    BY <1>3, <1>4

(* In a server that rests and whose methods did not race nothing is going on *)
(* but the return of handlers whose clients have been cut.                   *)
LEMMA RestInv ==
    IInv /\ ~raced /\ Resting =>
        /\ open = {}
        /\ \A c \in Chans : loop[c] \in {"none", "ended"}
        /\ \A r \in Requests : at[r] # "waiting" /\ (at[r] # "none" => via[r] \in stopped)
  <1> SUFFICES ASSUME IInv, ~raced, Resting
               PROVE  /\ open = {}
                      /\ \A c \in Chans : loop[c] \in {"none", "ended"}
                      /\ \A r \in Requests : at[r] # "waiting" /\ (at[r] # "none" => via[r] \in stopped)
    OBVIOUS
  <1>1. open = {} /\ workerChs = 0
    BY DEF IInv, ServeInv, Resting, UnderWay
  <1>2. \A c \in Chans : ~Active(c)
    BY <1>1, ChanServer DEF IInv, LoopInv, Resting, UnderWay
  <1>3. ASSUME NEW r \in Requests, at[r] = "waiting" PROVE FALSE
    <2>1. chan[r] \in Chans /\ loop[chan[r]] = "ended"
      BY <1>2, <1>3 DEF IInv, HandInv, Active
    <2>2. queue[chan[r]] = <<>> /\ batch[chan[r]] = <<>>
      BY <2>1 DEF IInv, HandInv
    <2> QED
      BY <1>3, <2>1, <2>2, EmptyHolds DEF IInv, HandInv
  <1>4. \A r \in Requests : at[r] # "none" => via[r] \in stopped
    BY <1>1 DEF IInv, CutInv
  <1> QED
    BY <1>1, <1>2, <1>3, <1>4 DEF Active

AllCut == \A r \in Requests : Fates[r] # "accepted" /\ (Fates[r] # "none" => r \in Cut)

LEMMA RestDrained == IInv /\ ~raced /\ Resting => AllCut
  BY RestInv, FatePlaces DEF AllCut, Cut, IInv, TypeInv

LEMMA FatesStep ==
    ASSUME TypeOK, NEW r \in Requests, UNCHANGED answer,
           NEW l \in Whereabouts, at' = [at EXCEPT ![r] = l]
    PROVE  Fates' = [Fates EXCEPT ![r] = Fate(r, l, answer[r])]
  <1>1. at'[r] = l /\ \A x \in Requests : x # r => at'[x] = at[x]
    BY DEF TypeOK
  <1>2. Fates' = [x \in Requests |-> Fate(x, at'[x], answer[x])]
    BY DEF Fates
  <1>3. [Fates EXCEPT ![r] = Fate(r, l, answer[r])]
           = [x \in Requests |-> IF x = r THEN Fate(r, l, answer[r]) ELSE Fate(x, at[x], answer[x])]
    BY DEF Fates
  <1>4. \A x \in Requests : Fate(x, at'[x], answer[x])
                               = IF x = r THEN Fate(r, l, answer[r]) ELSE Fate(x, at[x], answer[x])
    BY <1>1
  <1> QED
    BY <1>2, <1>3, <1>4

manageVars == <<raced, listen, stop, stopped>>

LEMMA StepImplements == IInv /\ IInv' /\ [Next]_vars => [S!Next]_(S!vars)
  <1> SUFFICES ASSUME IInv, IInv', [Next]_vars PROVE S!Next \/ UNCHANGED S!vars
    OBVIOUS
  <1>a. TypeOK /\ TypeOK'
    BY DEF IInv, TypeInv
  <1>1. ASSUME UNCHANGED <<raced, listen, stop, stopped, via, at, answer>> PROVE UNCHANGED S!vars
    BY <1>1 DEF S!vars, UnderWay
  <1>2. ASSUME UNCHANGED <<via, at, answer>>, raced => raced', Begun => Begun',
               stopped \subseteq stopped', stopped' # stopped => Begun'
        PROVE  S!Next
    <2>1. Fates' = Fates
      BY <1>2 DEF Fates
    <2>2. ~raced' /\ Resting' => AllCut'
      BY RestDrained, PTL
    <2>3. Cut \subseteq Cut' /\ (Cut' # Cut => Begun')
      BY <1>2 DEF Cut
    <2>4. \A r \in Cut' : Fates[r] # "none"
      <3>1. ASSUME NEW r \in Requests, via[r] \in stopped' PROVE at[r] # "none"
        <4>1. via[r] # 0
          BY <1>a, <3>1 DEF TypeOK, Servers
        <4> QED
          BY <4>1 DEF IInv, CutInv
      <3> QED
        BY <1>a, <1>2, <3>1, FatePlaces DEF Cut
    <2>5. S!Manage
      <3>1. (~raced') \in {~raced, FALSE} /\ Resting' \in BOOLEAN /\ Begun' \in {Begun, TRUE}
        BY <1>2 DEF Resting, Begun
      <3>2. ~raced' /\ Resting' => S!Accepted = {} /\ S!InFlight \subseteq Cut'
        BY <2>1, <2>2 DEF S!Accepted, S!InFlight, AllCut, Fates
      <3> QED
        BY <2>1, <2>3, <2>4, <3>1, <3>2 DEF S!Manage, Resting, Begun, Fates, Cut
    <2> QED
      BY <2>5 DEF S!Next
  <1>3. CASE Listen \/ ListenStep
    <2>1. UNCHANGED <<via, at, answer, stop, stopped>>
      BY <1>3 DEF Listen, ListenStep, MakeChannels, StartLoop, AssignServer, Serve, ServeReturns,
                  serverQuiet, stopVars, reqVars
    <2>2. raced => raced'
      <3>1. CASE Listen
        BY <3>1, Zenon DEF Listen
      <3>2. CASE ListenStep
        <4>1. raced' = raced
          BY <3>2 DEF ListenStep, MakeChannels, StartLoop, AssignServer, Serve, ServeReturns, serverQuiet, stopVars
        <4> QED
          BY <4>1
      <3> QED
        BY <1>3, <3>1, <3>2
    <2> QED
      BY <2>1, <2>2, <1>2 DEF Begun
  <1>4. ASSUME NEW k \in Stoppers, Begin(k) \/ StopStep(k) PROVE S!Next
    <2>1. UNCHANGED <<via, at, answer>> /\ stopped \subseteq stopped'
      BY <1>4 DEF Begin, StopStep, CloseServer, CloseChannels, JoinLoops, Shut, stopperQuiet, reqVars, serveVars
    <2>4. raced => raced'
      <3>1. CASE Begin(k)
        BY <3>1, Zenon DEF Begin
      <3>2. CASE StopStep(k)
        <4>1. raced' = raced
          BY <3>2 DEF StopStep, CloseServer, CloseChannels, JoinLoops, Shut
        <4> QED
          BY <4>1
      <3> QED
        BY <1>4, <3>1, <3>2
    <2>2. \E l \in {"begun", "chans", "waiting", "shutting", "done"} : stop' = [stop EXCEPT ![k] = l]
      BY <1>4 DEF Begin, StopStep, CloseServer, CloseChannels, JoinLoops, Shut, StopTo
    <2>3. Begun'
      BY <1>a, <2>2 DEF Begun, TypeOK
    <2> QED
      BY <2>1, <2>3, <2>4, <1>2
  <1>5. ASSUME NEW r \in Requests, Arrive(r) PROVE S!Next
    <2>1. /\ at[r] = "none" /\ at' = [at EXCEPT ![r] = "in"] /\ UNCHANGED answer
          /\ UNCHANGED manageVars
      BY <1>5 DEF Arrive, HandlerTo, runQuiet, serveVars, stopVars, manageVars
    <2>2. PICK s \in open : via' = [via EXCEPT ![r] = s]
      BY <1>5 DEF Arrive
    <2>3. Fates[r] = "none" /\ Fates' = [Fates EXCEPT ![r] = "arrived"]
      <3>1. Fate(r, "none", answer[r]) = "none" /\ Fate(r, "in", answer[r]) = "arrived"
        BY FateCases
      <3> QED
        BY <1>a, <2>1, <3>1, FatesStep DEF Fates, Whereabouts
    <2>4. ~(~raced /\ Resting)
      BY <2>2, RestInv
    <2>5. S!Arrive(r)
      <3>1. 0 \notin stopped /\ via[r] = 0 /\ s \notin stopped
        BY <1>a, <2>1 DEF IInv, CutInv, TypeOK, Servers
      <3>2. r \notin Cut /\ Cut' = Cut
        <4>1. \A x \in Requests : x # r => via'[x] = via[x]
          BY <2>2
        <4>2. via'[r] = s
          BY <1>a, <2>2 DEF TypeOK
        <4> QED
          BY <2>1, <3>1, <4>1, <4>2 DEF Cut, manageVars
      <3> QED
        BY <2>1, <2>3, <2>4, <3>2 DEF S!Arrive, S!AtRest, S!Becomes, Fates, Cut, Resting, UnderWay, manageVars
    <2> QED
      BY <2>5 DEF S!Next
  <1>6. ASSUME NEW r \in Requests, NEW a \in {"in", "picked", "ready"}, at[r] = a,
               NEW l \in {"panicked", "lost"}, at' = [at EXCEPT ![r] = l],
               l = "lost" => via[r] \in stopped, UNCHANGED manageVars, UNCHANGED <<via, answer>>
        PROVE  S!Next
    <2>1. PICK from \in {"arrived", "ready", "spoiled"} :
            Fates[r] = from /\ Fates' = [Fates EXCEPT ![r] = "dropped"]
      <3>1. Fate(r, a, answer[r]) \in {"arrived", "ready", "spoiled"} /\ Fate(r, l, answer[r]) = "dropped"
        <4>1. CASE answer[r] = r
          BY <4>1, FateCases
        <4>2. CASE answer[r] # r
          BY <4>2, FateCases
        <4> QED
          BY <4>1, <4>2
      <3> QED
        BY <1>a, <1>6, <3>1, FatesStep DEF Fates, Whereabouts
    <2>2. at'[r] = l
      BY <1>a, <1>6 DEF TypeOK
    <2>3. r \in Cut \/ (raced /\ Begun)
      <3>1. CASE via[r] \in stopped
        BY <3>1 DEF Cut
      <3>2. CASE via[r] \notin stopped
        <4>1. at'[r] = "panicked" /\ via'[r] \notin stopped'
          BY <1>6, <2>2, <3>2 DEF manageVars
        <4>2. raced'
          BY <4>1 DEF IInv, CutInv
        <4> QED
          BY <1>6, <4>2 DEF IInv, BegunInv, manageVars
      <3> QED
        BY <3>1, <3>2
    <2>4. S!Becomes(r, from, "dropped")
      BY <1>6, <2>1 DEF S!Becomes, Fates, UnderWay, manageVars
    <2>5. S!Drop(r)
      BY <2>3, <2>4 DEF S!Drop, Cut, Begun
    <2> QED
      BY <2>5 DEF S!Next
  <1>7. ASSUME NEW r \in Requests, Pick(r) PROVE S!Next \/ UNCHANGED S!vars
    <2>1. /\ at[r] = "in" /\ UNCHANGED manageVars /\ UNCHANGED <<via, answer>>
          /\ \E l \in {"panicked", "stuck", "picked"} : at' = [at EXCEPT ![r] = l]
      BY <1>7 DEF Pick, Returns, HandlerTo, handlerQuiet, runQuiet, serveVars, stopVars, manageVars
    <2>2. CASE at' = [at EXCEPT ![r] = "panicked"]
      BY <2>1, <2>2, <1>6
    <2>3. ASSUME NEW l \in {"stuck", "picked"}, at' = [at EXCEPT ![r] = l] PROVE UNCHANGED S!vars
      <3>1. Fates' = [Fates EXCEPT ![r] = "arrived"] /\ Fates[r] = "arrived"
        <4>1. Fate(r, "in", answer[r]) = "arrived" /\ Fate(r, l, answer[r]) = "arrived"
          BY FateCases
        <4>2. l \in Whereabouts
          BY DEF Whereabouts
        <4>3. Fates' = [Fates EXCEPT ![r] = Fate(r, l, answer[r])]
          BY <1>a, <2>1, <2>3, <4>2, FatesStep
        <4>4. Fates[r] = Fate(r, "in", answer[r])
          BY <2>1 DEF Fates
        <4> QED
          BY <4>1, <4>3, <4>4
      <3>2. Fates' = Fates
        BY <3>1 DEF Fates
      <3> QED
        BY <2>1, <3>2 DEF S!vars, UnderWay, Fates, manageVars
    <2> QED
      BY <2>1, <2>2, <2>3
  <1>8. ASSUME NEW r \in Requests, Send(r) PROVE S!Next
    <2>1. /\ at[r] = "picked" /\ UNCHANGED manageVars /\ UNCHANGED <<via, answer, loop, chClosed>>
          /\ \/ at' = [at EXCEPT ![r] = "panicked"]
             \/ at' = [at EXCEPT ![r] = "waiting"] /\ chan[r] \notin chClosed
      BY <1>8 DEF Send, Returns, HandlerTo, handlerQuiet, runQuiet, serveVars, stopVars, manageVars
    <2>2. CASE at' = [at EXCEPT ![r] = "panicked"]
      BY <2>1, <2>2, <1>6
    <2>3. CASE at' = [at EXCEPT ![r] = "waiting"] /\ chan[r] \notin chClosed
      <3>1. Fates[r] = "arrived" /\ Fates' = [Fates EXCEPT ![r] = "accepted"]
        <4>1. Fate(r, "picked", answer[r]) = "arrived" /\ Fate(r, "waiting", answer[r]) = "accepted"
          BY FateCases
        <4> QED
          BY <1>a, <2>1, <2>3, <4>1, FatesStep DEF Fates, Whereabouts
      <3>2. chan[r] \in Chans /\ loop[chan[r]] \notin {"none", "ended"}
        BY <2>1, <2>3 DEF IInv, HandInv
      <3>3. ~(~raced /\ Resting)
        BY <3>2, RestInv
      <3>4. S!Accept(r)
        BY <2>1, <3>1, <3>3 DEF S!Accept, S!AtRest, S!Becomes, Fates, Resting, UnderWay, manageVars
      <3> QED
        BY <3>4 DEF S!Next
    <2> QED
      BY <2>1, <2>2, <2>3
  <1>12. ASSUME NEW r \in Requests, Respond(r) PROVE S!Next
    <2>1. /\ at[r] = "ready" /\ UNCHANGED manageVars /\ UNCHANGED <<via, answer>>
          /\ at' = [at EXCEPT ![r] = IF via[r] \in stopped THEN "lost" ELSE "answered"]
      BY <1>12 DEF Respond, Returns, HandlerTo, handlerQuiet, runQuiet, serveVars, stopVars, manageVars
    <2>2. CASE via[r] \in stopped
      BY <2>1, <2>2, <1>6
    <2>3. CASE via[r] \notin stopped
      <3>1. /\ Fates[r] = IF answer[r] = r THEN "ready" ELSE "spoiled"
            /\ Fates' = [Fates EXCEPT ![r] = IF answer[r] = r THEN "answered" ELSE "wrong"]
        <4>1. at' = [at EXCEPT ![r] = "answered"]
          BY <2>1, <2>3
        <4>2. Fates' = [Fates EXCEPT ![r] = Fate(r, "answered", answer[r])]
          BY <1>a, <2>1, <4>1, FatesStep DEF Whereabouts
        <4>3. /\ Fate(r, "ready", answer[r]) = IF answer[r] = r THEN "ready" ELSE "spoiled"
              /\ Fate(r, "answered", answer[r]) = IF answer[r] = r THEN "answered" ELSE "wrong"
          BY FateCases
        <4>4. Fates[r] = Fate(r, "ready", answer[r])
          BY <2>1 DEF Fates
        <4> QED
          BY <4>2, <4>3, <4>4
      <3>2. S!Becomes(r, "ready", "answered") \/ S!Becomes(r, "spoiled", "wrong")
        <4>1. CASE answer[r] = r
          BY <2>1, <3>1, <4>1 DEF S!Becomes, Fates, UnderWay, manageVars
        <4>2. CASE answer[r] # r
          BY <2>1, <3>1, <4>2 DEF S!Becomes, Fates, UnderWay, manageVars
        <4> QED
          BY <4>1, <4>2
      <3>3. S!Respond(r)
        BY <2>3, <3>2 DEF S!Respond
      <3> QED
        BY <3>3 DEF S!Next
    <2> QED
      BY <2>2, <2>3
  <1>9. ASSUME NEW c \in Chans, Receive(c) \/ LoopEnds(c) \/ Dispatch(c) PROVE UNCHANGED S!vars
    BY <1>1, <1>9 DEF Receive, LoopEnds, Dispatch, loopQuiet, serveVars, stopVars
  <1>10. ASSUME NEW c \in Chans, Reply(c) PROVE S!Next
    <2> DEFINE R == {r \in Requests : Answered(c, r)}
               W == {r \in R : answer'[r] # r}
    <2>1. /\ loop[c] = "answering" /\ UNCHANGED manageVars /\ UNCHANGED via
          /\ \A r \in Requests : at'[r] = IF r \in R THEN "ready" ELSE at[r]
          /\ \A r \in Requests \ R : answer'[r] = answer[r]
      BY <1>10 DEF Reply, loopQuiet, serveVars, stopVars, manageVars
    <2>2. \A r \in R : at[r] = "waiting"
      BY DEF IInv, HandInv, Holds, Answered
    <2>3. ~raced => W = {}
      <3>1. ~raced' => \A r \in Requests : at'[r] = "ready" => answer'[r] = r
        BY DEF IInv, AnswerInv
      <3> QED
        BY <2>1, <3>1 DEF manageVars
    <2>4. ~(~raced /\ Resting)
      BY <2>1, RestInv
    <2>5. Fates' = [r \in Requests |-> IF r \in W THEN "spoiled" ELSE IF r \in R THEN "ready" ELSE Fates[r]]
      <3>1. ASSUME NEW r \in Requests
            PROVE  Fate(r, at'[r], answer'[r]) =
                     IF r \in W THEN "spoiled" ELSE IF r \in R THEN "ready" ELSE Fates[r]
        <4>1. CASE r \in R
          BY <2>1, <4>1, FateCases
        <4>2. CASE r \notin R
          BY <2>1, <4>2 DEF Fates
        <4> QED
          BY <4>1, <4>2
      <3> QED
        BY <3>1, Zenon DEF Fates
    <2>6. R \in SUBSET Requests /\ W \in SUBSET Requests /\ W \subseteq R
      OBVIOUS
    <2>7. R \subseteq S!Accepted
      BY <1>a, <2>2, FatePlaces DEF S!Accepted, Fates
    <2> HIDE DEF R, W
    <2>8. S!Compute(R, W)
      BY <2>1, <2>3, <2>4, <2>5, <2>6, <2>7 DEF S!Compute, S!AtRest, Fates, Resting, UnderWay, manageVars
    <2> QED
      BY <2>6, <2>8 DEF S!Next
  <1>11. CASE UNCHANGED vars
    BY <1>1, <1>11 DEF vars, serveVars, stopVars, reqVars
  <1> QED
    BY <1>3, <1>4, <1>5, <1>7, <1>8, <1>9, <1>10, <1>11, <1>12 DEF Next, Handler, WorkerLoop

(* Whoever talks to the server of a pool sees HttpServer: a request is       *)
(* answered once, with its own response, or is still in flight, or a stop of *)
(* its server has cut its connection; and when a stop has returned no work   *)
(* goes on.  All that unless ListenAndServe, StopHTTP and Close were called  *)
(* at the same time.                                                         *)
THEOREM Refinement == Spec => ImplementsHttpServer
  <1>1. Init => S!Init
    <2> SUFFICES ASSUME Init PROVE S!Init
      OBVIOUS
    <2>1. \A r \in Requests : Fate(r, at[r], answer[r]) = "none"
      <3>1. \A r \in Requests : Fate(r, "none", answer[r]) = "none"
        BY FateCases
      <3> QED
        BY <3>1 DEF Init
    <2> QED
      BY <2>1 DEF Init, S!Init, UnderWay
  <1>2. IInv /\ [Next]_vars => [S!Next]_(S!vars)
    BY StepIInv, StepImplements
  <1> QED
    BY <1>1, <1>2, Invariance, PTL DEF Spec, ImplementsHttpServer, S!Spec
=============================================================================

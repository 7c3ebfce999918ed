---------------------------- MODULE StreamsProofs ----------------------------
(***************************************************************************)
(* Proofs that the safety properties of StreamsProps hold, and that        *)
(* Streams implements Pipe, for any streams, chunks and capacities.        *)
(***************************************************************************)
EXTENDS StreamsProps, SequenceTheorems, TLAPS

(* Chunk number i of a source that has n; behind the last one comes the end. *)
Item(i, n) == IF i <= n THEN i ELSE End

(* A sequence holds chunks k + 1, k + 2 ... of such a source. *)
Slice(q, k, n) == \A i \in DOMAIN q : q[i] = Item(k + i, n)

LEMMA EmptyFacts == Len(<<>>) = 0 /\ <<>> \in Seq(Nat) /\ DOMAIN <<>> = {} /\ \A k, n : Slice(<<>>, k, n)
  <1>1. Len(<<>>) = 0 /\ <<>> \in Seq(Nat) /\ DOMAIN <<>> = {}
    OBVIOUS
  <1> QED
    BY <1>1 DEF Slice

LEMMA AppendSlice ==
    ASSUME NEW q \in Seq(Nat), NEW x \in Nat
    PROVE  /\ Append(q, x) \in Seq(Nat) /\ Len(Append(q, x)) = Len(q) + 1 /\ Append(q, x) # <<>>
           /\ \A k, n, m \in Nat : Slice(q, k, n) /\ k + Len(q) <= n /\ n <= m /\ x = Item(k + Len(q) + 1, m)
                => Slice(Append(q, x), k, m)
  <1> DEFINE t == Append(q, x)
  <1>1. /\ Len(q) \in Nat /\ DOMAIN q = 1..Len(q)
        /\ t \in Seq(Nat) /\ Len(t) = Len(q) + 1 /\ DOMAIN t = 1..(Len(q) + 1) /\ t # <<>>
        /\ \A i \in 1..Len(q) : t[i] = q[i]
        /\ t[Len(q) + 1] = x
    OBVIOUS
  <1> HIDE DEF t
  <1>2. ASSUME NEW k \in Nat, NEW n \in Nat, NEW m \in Nat, Slice(q, k, n), k + Len(q) <= n, n <= m,
               x = Item(k + Len(q) + 1, m), NEW i \in DOMAIN t
        PROVE  t[i] = Item(k + i, m)
    <2>1. CASE i = Len(q) + 1
      <3>1. k + i = k + Len(q) + 1
        BY <2>1, <1>1
      <3> QED
        BY <2>1, <3>1, <1>1, <1>2
    <2>2. CASE i \in 1..Len(q)
      <3>1. k + i <= n /\ k + i <= m
        BY <2>2, <1>1, <1>2
      <3>2. t[i] = q[i] /\ q[i] = Item(k + i, n)
        BY <2>2, <1>1, <1>2 DEF Slice
      <3> QED
        BY <3>1, <3>2 DEF Item
    <2> QED
      BY <2>1, <2>2, <1>1
  <1> QED
    BY <1>1, <1>2 DEF t, Slice

LEMMA ConcatSlice ==
    ASSUME NEW a \in Seq(Nat), NEW b \in Seq(Nat)
    PROVE  /\ a \o b \in Seq(Nat) /\ Len(a \o b) = Len(a) + Len(b)
           /\ \A n \in Nat : Slice(a, 0, n) /\ Slice(b, Len(a), n) => Slice(a \o b, 0, n)
  <1>1. /\ a \o b \in Seq(Nat) /\ Len(a \o b) = Len(a) + Len(b)
        /\ \A i \in 1..(Len(a) + Len(b)) : (a \o b)[i] = IF i <= Len(a) THEN a[i] ELSE b[i - Len(a)]
    BY ConcatProperties
  <1>2. Len(a) \in Nat /\ Len(b) \in Nat /\ DOMAIN a = 1..Len(a) /\ DOMAIN b = 1..Len(b)
    OBVIOUS
  <1>3. DOMAIN (a \o b) = 1..(Len(a) + Len(b))
    BY <1>1, LenProperties
  <1>4. ASSUME NEW n \in Nat, Slice(a, 0, n), Slice(b, Len(a), n), NEW i \in 1..(Len(a) + Len(b))
        PROVE  (a \o b)[i] = Item(0 + i, n)
    <2>1. CASE i <= Len(a)
      <3>1. i \in DOMAIN a /\ (a \o b)[i] = a[i]
        BY <2>1, <1>1, <1>2
      <3> QED
        BY <3>1, <1>4 DEF Slice
    <2>2. CASE i > Len(a)
      <3>1. i - Len(a) \in DOMAIN b /\ Len(a) + (i - Len(a)) = 0 + i
        BY <2>2, <1>2
      <3>2. (a \o b)[i] = b[i - Len(a)]
        BY <2>2, <1>1, <1>2
      <3>3. b[i - Len(a)] = Item(Len(a) + (i - Len(a)), n)
        BY <3>1, <1>4 DEF Slice
      <3> QED
        BY <3>1, <3>2, <3>3
    <2> QED
      BY <2>1, <2>2, <1>2
  <1> QED
    BY <1>1, <1>3, <1>4 DEF Slice

LEMMA TailSlice ==
    ASSUME NEW q \in Seq(Nat), q # <<>>
    PROVE  /\ Head(q) \in Nat /\ Tail(q) \in Seq(Nat) /\ Len(Tail(q)) = Len(q) - 1 /\ Len(q) \in Nat \ {0}
           /\ \A k, n \in Nat : Slice(q, k, n) => Head(q) = Item(k + 1, n) /\ Slice(Tail(q), k + 1, n)
  <1>1. /\ Head(q) \in Nat /\ Tail(q) \in Seq(Nat) /\ Len(Tail(q)) = Len(q) - 1 /\ Len(q) \in Nat \ {0}
        /\ 1 \in DOMAIN q /\ Head(q) = q[1]
        /\ \A i \in DOMAIN Tail(q) : i + 1 \in DOMAIN q /\ Tail(q)[i] = q[i + 1] /\ i \in Nat
    OBVIOUS
  <1>2. ASSUME NEW k \in Nat, NEW n \in Nat, Slice(q, k, n), NEW i \in DOMAIN Tail(q)
        PROVE  Tail(q)[i] = Item((k + 1) + i, n)
    <2>1. (k + 1) + i = k + (i + 1)
      BY <1>1
    <2>2. q[i + 1] = Item(k + (i + 1), n)
      BY <1>1, <1>2 DEF Slice
    <2> QED
      BY <2>1, <2>2, <1>1
  <1> QED
    BY <1>1, <1>2 DEF Slice

(* Of chunks in order, a controller takes all, and the end only if it is there. *)
LEMMA CutSlice ==
    ASSUME NEW q \in Seq(Nat), NEW k \in Nat, NEW n \in Nat, Slice(q, k, n), k + Len(q) <= n + 1
    PROVE  /\ Cut(q) = q
           /\ HasEnd(q) <=> (q # <<>> /\ k + Len(q) = n + 1)
  <1>1. Len(q) \in Nat /\ DOMAIN q = 1..Len(q) /\ (q = <<>> <=> Len(q) = 0)
    OBVIOUS
  <1>2. ASSUME NEW i \in DOMAIN q PROVE q[i] = End <=> (i = Len(q) /\ k + Len(q) = n + 1)
    <2>1. i \in Nat \ {0} /\ i <= Len(q) /\ q[i] = Item(k + i, n)
      BY <1>1 DEF Slice
    <2>2. CASE k + i <= n
      BY <2>1, <2>2, <1>1 DEF Item, End
    <2>3. CASE ~(k + i <= n)
      <3>1. i = Len(q) /\ k + Len(q) = n + 1
        BY <2>1, <2>3, <1>1
      <3> QED
        BY <2>1, <2>3, <3>1 DEF Item
    <2> QED
      BY <2>2, <2>3
  <1>3. HasEnd(q) <=> (q # <<>> /\ k + Len(q) = n + 1)
    <2>1. q # <<>> => Len(q) \in DOMAIN q
      BY <1>1
    <2>2. q = <<>> => DOMAIN q = {}
      BY <1>1
    <2> QED
      BY <1>2, <2>1, <2>2 DEF HasEnd
  <1>4. Cut(q) = q
    <2>1. CASE ~HasEnd(q)
      BY <2>1 DEF Cut
    <2>2. CASE HasEnd(q)
      <3> DEFINE P(i) == q[i] = End /\ \A j \in 1..(i - 1) : q[j] # End
      <3>1. Len(q) \in DOMAIN q /\ k + Len(q) = n + 1
        BY <2>2, <1>1, <1>3
      <3>2. \A i \in DOMAIN q : P(i) => i = Len(q)
        BY <1>2
      <3>3. P(Len(q))
        <4>1. \A m \in Nat : \A j \in 1..(m - 1) : j \in 1..m /\ j # m
          OBVIOUS
        <4>2. ASSUME NEW j \in 1..(Len(q) - 1) PROVE q[j] # End
          <5>1. j \in DOMAIN q /\ j # Len(q)
            BY <4>1, <1>1
          <5> QED
            BY <5>1, <1>2
        <4> QED
          BY <3>1, <4>2, <1>2
      <3>4. (CHOOSE i \in DOMAIN q : P(i)) = Len(q)
        BY <3>1, <3>2, <3>3
      <3>5. Cut(q) = SubSeq(q, 1, Len(q))
        BY <2>2, <3>4 DEF Cut
      <3> QED
        BY <3>5, SubSeqFull
    <2> QED
      BY <2>1, <2>2
  <1> QED
    BY <1>3, <1>4

-----------------------------------------------------------------------------
(* What the receiving side has, and what is in Go's buffer behind it, are the *)
(* first items of the body, all that has been read as long as it is read.     *)
Chain(s, a, b) ==
    /\ Slice(a, 0, nread[s]) /\ Slice(b, Len(a), nread[s])
    /\ Len(a) + Len(b) <= nread[s] + 1
    /\ reader[s] # "exit" => Len(a) + Len(b) = nread[s]

InInv(s) ==
    /\ headers[s] = "none" => reader[s] = "none"
    /\ s \in pending => s \notin controllers /\ given[s] = <<>> /\ Chain(s, buffered[s], chunks[s])
    /\ s \in controllers => Chain(s, given[s], chunks[s]) /\ Len(given[s]) <= nread[s]
    /\ Slice(given[s], 0, nread[s]) /\ Len(given[s]) <= nread[s] + 1
    /\ Len(given[s]) = nread[s] + 1 => reader[s] = "exit"
    /\ reader[s] = "read" => Len(chunks[s]) < HighWater
    /\ reader[s] # "exit" => Len(chunks[s]) <= HighWater
    /\ Len(chunks[s]) <= HighWater + 1
    /\ reader[s] = "ending" => s \in cancelled
    /\ reader[s] = "exit" /\ s \in inMap => s \in cancelled \/ (s \in closed /\ chunks[s] # <<>>)

(* The handler has not lost a chunk. *)
Flowing == {"none", "unserved", "handed", "loop", "writing", "drain"}

(* What is on the connection, and what is in dataCh behind it, are the chunks *)
(* the pump has written, until the connection breaks.                         *)
FlowInv(s) ==
    /\ Slice(out[s], 0, nwritten[s]) /\ Len(out[s]) <= nwritten[s]
    /\ consumer[s] \in Flowing =>
         Slice(dataCh[s], Len(out[s]), nwritten[s]) /\ Len(out[s]) + Len(dataCh[s]) = nwritten[s]

(* Who may close the stream, and when it is listed. *)
EndInv(s) ==
    /\ engine = [op |-> "write", on |-> s] => pump[s] = "pumping" /\ nwritten[s] < Bound
    /\ engine = [op |-> "close", on |-> s] => pump[s] = "ended"
    /\ s \in closed => pump[s] = "ended" \/ consumer[s] \in {"closing", "failed"}
    /\ pump[s] = "none" => consumer[s] = "none"
    /\ handling = s => pump[s] # "none" /\ consumer[s] = "none"
    /\ consumer[s] \in {"done", "lost"} => s \notin inMap
    /\ consumer[s] \in {"cancel", "closing", "failed"} => s \in cancelled \/ s \notin inMap
    /\ consumer[s] = "done" /\ (s \in closed \/ engine = [op |-> "close", on |-> s]) =>
         Len(out[s]) = nwritten[s]

(* doneCh is closed once as long as closeAll has not run. *)
DoneInv(s) ==
    /\ life = "open" /\ s \in doneCh => s \in closed
    /\ consumer[s] = "closing" => s \in closed /\ (life = "open" => s \notin doneCh)

OutInv(s) == FlowInv(s) /\ EndInv(s) /\ DoneInv(s)

CancelsInbound == engine.op = "cancel" => engine.on \in Inbound

(* The doneCh that closeAll is about to close is that of a stream it has cancelled. *)
CloserInv == closer # None => life = "closing" /\ closer \in cancelled /\ closer \in Outbound

IInv ==
    /\ TypeOK /\ CancelsInbound /\ CloserInv /\ OnlyCloseCrashes
    /\ \A s \in Inbound : InInv(s)
    /\ \A s \in Outbound : OutInv(s)

-----------------------------------------------------------------------------
USE DEF runtimeVars, inVars, jsVars, outVars, managerVars, quiet, outQuiet, handlerQuiet, closeQuiet, NotBusy

TypeInv == TypeOK /\ CancelsInbound

LEMMA InitType == Init => TypeInv
  <1> SUFFICES ASSUME Init PROVE TypeInv
    OBVIOUS
  <1>1. TypeOK
    <2>1. /\ chunks \in [Inbound -> Seq(Nat)] /\ buffered \in [Inbound -> Seq(Nat)]
          /\ given \in [Inbound -> Seq(Nat)]
          /\ dataCh \in [Outbound -> Seq(Nat)] /\ out \in [Outbound -> Seq(Nat)]
      BY EmptyFacts DEF Init
    <2>2. \A s \in Outbound : Len(dataCh[s]) <= DataCap
      <3>1. DataCap \in Nat /\ 0 <= DataCap
        BY StreamsAssumption
      <3>2. \A s \in Outbound : dataCh[s] = <<>>
        BY DEF Init
      <3> QED
        BY <3>1, <3>2, EmptyFacts
    <2>3. 0 \in 0..Bound
      BY StreamsAssumption
    <2>4. nread \in [Inbound -> 0..Bound] /\ nwritten \in [Outbound -> 0..Bound]
      BY <2>3 DEF Init
    <2> QED
      BY <2>1, <2>2, <2>4 DEF Init, TypeOK
  <1>2. CancelsInbound
    BY DEF Init, CancelsInbound
  <1> QED
    BY <1>1, <1>2 DEF TypeInv

LEMMA InTypes ==
    ASSUME TypeOK, NEW s \in Inbound
    PROVE  /\ reader[s] \in {"none", "top", "read", "eof", "blocked", "ending", "exit"}
           /\ nread[s] \in Nat /\ nread[s] <= Bound
           /\ chunks[s] \in Seq(Nat) /\ buffered[s] \in Seq(Nat) /\ given[s] \in Seq(Nat)
           /\ Len(chunks[s]) \in Nat /\ Len(buffered[s]) \in Nat /\ Len(given[s]) \in Nat
  <1>1. \A q \in Seq(Nat) : Len(q) \in Nat
    OBVIOUS
  <1> QED
    BY <1>1, StreamsAssumption DEF TypeOK

LEMMA OutTypes ==
    ASSUME TypeOK, NEW s \in Outbound
    PROVE  /\ pump[s] \in {"none", "pumping", "ended"}
           /\ nwritten[s] \in Nat /\ nwritten[s] <= Bound
           /\ dataCh[s] \in Seq(Nat) /\ out[s] \in Seq(Nat)
           /\ Len(dataCh[s]) \in Nat /\ Len(out[s]) \in Nat /\ Len(dataCh[s]) <= DataCap
  <1>1. \A q \in Seq(Nat) : Len(q) \in Nat
    OBVIOUS
  <1> QED
    BY <1>1, StreamsAssumption DEF TypeOK

(* What a delivery gives to a controller is all there is. *)
LEMMA CutAll ==
    ASSUME TypeOK, NEW s \in Inbound, InInv(s)
    PROVE  /\ s \in pending => /\ Cut(buffered[s]) = buffered[s]
                               /\ HasEnd(buffered[s]) <=> (buffered[s] # <<>> /\ Len(buffered[s]) = nread[s] + 1)
           /\ s \in controllers => /\ Cut(chunks[s]) = chunks[s]
                                   /\ HasEnd(chunks[s]) <=>
                                        (chunks[s] # <<>> /\ Len(given[s]) + Len(chunks[s]) = nread[s] + 1)
  <1>1. /\ nread[s] \in Nat /\ chunks[s] \in Seq(Nat) /\ buffered[s] \in Seq(Nat)
        /\ Len(chunks[s]) \in Nat /\ Len(buffered[s]) \in Nat /\ Len(given[s]) \in Nat
    BY InTypes
  <1>2. ASSUME s \in pending
        PROVE  /\ Cut(buffered[s]) = buffered[s]
               /\ HasEnd(buffered[s]) <=> (buffered[s] # <<>> /\ Len(buffered[s]) = nread[s] + 1)
    <2>1. Slice(buffered[s], 0, nread[s]) /\ 0 + Len(buffered[s]) <= nread[s] + 1
      <3>1. Slice(buffered[s], 0, nread[s]) /\ Len(buffered[s]) + Len(chunks[s]) <= nread[s] + 1
        BY <1>2 DEF InInv, Chain
      <3>2. \A a, b, n \in Nat : a + b <= n + 1 => 0 + a <= n + 1
        OBVIOUS
      <3>3. 0 + Len(buffered[s]) <= nread[s] + 1
        BY <1>1, <3>1, <3>2
      <3> QED
        BY <3>1, <3>3
    <2>2. /\ Cut(buffered[s]) = buffered[s]
          /\ HasEnd(buffered[s]) <=> (buffered[s] # <<>> /\ 0 + Len(buffered[s]) = nread[s] + 1)
      BY <1>1, <2>1, CutSlice
    <2> QED
      BY <2>2, <1>1
  <1>3. ASSUME s \in controllers
        PROVE  /\ Cut(chunks[s]) = chunks[s]
               /\ HasEnd(chunks[s]) <=> (chunks[s] # <<>> /\ Len(given[s]) + Len(chunks[s]) = nread[s] + 1)
    <2>1. Slice(chunks[s], Len(given[s]), nread[s]) /\ Len(given[s]) + Len(chunks[s]) <= nread[s] + 1
      BY <1>1, <1>3 DEF InInv, Chain
    <2> QED
      BY <1>1, <2>1, CutSlice
  <1> QED
    BY <1>2, <1>3

LEMMA StepTypeIn ==
    ASSUME TypeInv, \A s \in Inbound : InInv(s)
    PROVE  /\ \A s \in Inbound : Responds(s) \/ QueueHeaders(s) \/ Reader(s) \/ Abort(s) \/ CancelBody(s) => TypeInv'
           /\ DeliverHeaders \/ ProcessEvents \/ CancelLock => TypeInv'
  <1> USE StreamsAssumption
  <1>0. TypeOK /\ CancelsInbound
    BY DEF TypeInv
  <1>1. ASSUME NEW s \in Inbound, Responds(s) PROVE TypeInv'
    BY <1>0, <1>1 DEF Responds, TypeInv, TypeOK, CancelsInbound
  <1>2. ASSUME NEW s \in Inbound, QueueHeaders(s) PROVE TypeInv'
    BY <1>0, <1>2 DEF QueueHeaders, TypeInv, TypeOK, CancelsInbound
  <1>3. ASSUME NEW s \in Inbound, ReaderTop(s) PROVE TypeInv'
    BY <1>0, <1>3 DEF ReaderTop, ReaderTo, TypeInv, TypeOK, CancelsInbound
  <1>4. ASSUME NEW s \in Inbound, ReaderEnding(s) PROVE TypeInv'
    <2>1. End \in Nat /\ chunks[s] \in Seq(Nat)
      BY <1>0, InTypes DEF End
    <2>2. Append(chunks[s], End) \in Seq(Nat)
      BY <2>1, AppendSlice
    <2>3. chunks' \in [Inbound -> Seq(Nat)]
      BY <1>0, <1>4, <2>2 DEF ReaderEnding, TypeOK
    <2> QED
      BY <1>0, <1>4, <2>3 DEF ReaderEnding, ReaderTo, TypeInv, TypeOK, CancelsInbound
  <1>5. ASSUME NEW s \in Inbound, Drained(s) PROVE TypeInv'
    BY <1>0, <1>5 DEF Drained, ReaderTo, TypeInv, TypeOK, CancelsInbound
  <1>6. ASSUME NEW s \in Inbound, BlockedCancelled(s) PROVE TypeInv'
    BY <1>0, <1>6 DEF BlockedCancelled, ReaderTo, TypeInv, TypeOK, CancelsInbound
  <1>7. ASSUME NEW s \in Inbound, ReadChunk(s) PROVE TypeInv'
    <2>1. nread' \in [Inbound -> 0..Bound] /\ nread'[s] \in Nat /\ chunks[s] \in Seq(Nat)
      BY <1>0, <1>7, InTypes DEF ReadChunk, TypeOK
    <2>2. Append(chunks[s], nread'[s]) \in Seq(Nat)
      BY <2>1, AppendSlice
    <2>3. chunks' \in [Inbound -> Seq(Nat)]
      BY <1>0, <1>7, <2>2 DEF ReadChunk, TypeOK
    <2> QED
      BY <1>0, <1>7, <2>1, <2>3 DEF ReadChunk, ReaderTo, TypeInv, TypeOK, CancelsInbound
  <1>8. ASSUME NEW s \in Inbound, ReadEnd(s) PROVE TypeInv'
    <2>1. End \in Nat /\ chunks[s] \in Seq(Nat)
      BY <1>0, InTypes DEF End
    <2>2. Append(chunks[s], End) \in Seq(Nat)
      BY <2>1, AppendSlice
    <2>3. chunks' \in [Inbound -> Seq(Nat)]
      BY <1>0, <1>8, <2>2 DEF ReadEnd, TypeOK
    <2> QED
      BY <1>0, <1>8, <2>3 DEF ReadEnd, ReaderTo, TypeInv, TypeOK, CancelsInbound
  <1>9. ASSUME NEW s \in Inbound, Abort(s) PROVE TypeInv'
    BY <1>0, <1>9 DEF Abort, TypeInv, TypeOK, CancelsInbound
  <1>10. ASSUME NEW s \in Inbound, CancelBody(s) PROVE TypeInv'
    <2>1. buffered' \in [Inbound -> Seq(Nat)]
      BY <1>0, <1>10, EmptyFacts DEF CancelBody, TypeOK
    <2>2. /\ cancelled' \subseteq Inbound \cup Outbound
          /\ engine' \in [op : Ops, on : Inbound \cup Outbound] \cup {NotBusy}
          /\ CancelsInbound'
      BY <1>0, <1>10 DEF CancelBody, TypeOK, CancelsInbound, Ops
    <2> QED
      BY <1>0, <1>10, <2>1, <2>2 DEF CancelBody, TypeInv, TypeOK
  <1>11. ASSUME DeliverHeaders PROVE TypeInv'
    <2>1. given' \in [Inbound -> Seq(Nat)]
      <3>1. ASSUME NEW s \in Inbound
            PROVE  given[s] \in Seq(Nat) /\ (s \in pending => given[s] \o Cut(buffered[s]) \in Seq(Nat))
        BY <1>0, InTypes, CutAll, ConcatSlice
      <3> QED
        BY <1>11, <3>1 DEF DeliverHeaders
    <2>2. buffered' \in [Inbound -> Seq(Nat)]
      BY <1>0, <1>11, EmptyFacts DEF DeliverHeaders, TypeOK
    <2>3. headers' \in [Inbound -> {"none", "due", "queued", "delivered"}]
      BY <1>0, <1>11 DEF DeliverHeaders, TypeOK
    <2>4. pending' \subseteq Inbound /\ controllers' \subseteq Inbound
      BY <1>0, <1>11 DEF DeliverHeaders, TypeOK
    <2> QED
      BY <1>0, <1>11, <2>1, <2>2, <2>3, <2>4 DEF DeliverHeaders, TypeInv, TypeOK, CancelsInbound
  <1>12. ASSUME ProcessEvents PROVE TypeInv'
    <2>1. given' \in [Inbound -> Seq(Nat)]
      <3>1. ASSUME NEW s \in Inbound
            PROVE  given[s] \in Seq(Nat) /\ (s \in controllers => given[s] \o Cut(chunks[s]) \in Seq(Nat))
        BY <1>0, InTypes, CutAll, ConcatSlice
      <3> QED
        BY <1>12, <3>1 DEF ProcessEvents
    <2>2. buffered' \in [Inbound -> Seq(Nat)]
      <3>1. ASSUME NEW s \in Inbound PROVE buffered[s] \o chunks[s] \in Seq(Nat) /\ buffered[s] \in Seq(Nat)
        BY <1>0, InTypes, ConcatSlice
      <3> QED
        BY <1>12, <3>1 DEF ProcessEvents
    <2>3. chunks' \in [Inbound -> Seq(Nat)]
      BY <1>0, <1>12, EmptyFacts DEF ProcessEvents, TypeOK
    <2>4. drain' \subseteq Inbound /\ inMap' \subseteq Inbound \cup Outbound /\ controllers' \subseteq Inbound
      BY <1>0, <1>12 DEF ProcessEvents, TypeOK
    <2> QED
      BY <1>0, <1>12, <2>1, <2>2, <2>3, <2>4 DEF ProcessEvents, TypeInv, TypeOK, CancelsInbound
  <1>13. ASSUME CancelLock PROVE TypeInv'
    BY <1>0, <1>13 DEF CancelLock, TypeInv, TypeOK, CancelsInbound
  <1> QED
    BY <1>1, <1>2, <1>3, <1>4, <1>5, <1>6, <1>7, <1>8, <1>9, <1>10, <1>11, <1>12, <1>13 DEF Reader, Reads

-----------------------------------------------------------------------------
(* Inbound streams. *)

(* A step that does not work on stream s; it may be given up, or cancelled. *)
InFrame(s) ==
    /\ reader'[s] = reader[s] /\ nread'[s] = nread[s] /\ chunks'[s] = chunks[s] /\ given'[s] = given[s]
    /\ headers'[s] = "none" => headers[s] = "none"
    /\ s \in pending' => s \in pending /\ buffered'[s] = buffered[s]
    /\ s \in controllers' => s \in controllers
    /\ s \in cancelled => s \in cancelled'
    /\ s \in closed => s \in closed'
    /\ s \in inMap' => s \in inMap

LEMMA InFrameKeeps ==
    ASSUME NEW s \in Inbound, InInv(s), InFrame(s)
    PROVE  InInv(s)'
  BY DEF InFrame, InInv, Chain

LEMMA InitIn == Init => \A s \in Inbound : InInv(s)
  <1> SUFFICES ASSUME Init, NEW s \in Inbound PROVE InInv(s)
    OBVIOUS
  <1>1. /\ headers[s] = "none" /\ reader[s] = "none" /\ nread[s] = 0
        /\ chunks[s] = <<>> /\ buffered[s] = <<>> /\ given[s] = <<>> /\ controllers = {}
    BY DEF Init
  <1>2. Chain(s, <<>>, <<>>)
    BY <1>1, EmptyFacts DEF Chain
  <1> QED
    BY <1>1, <1>2, EmptyFacts, StreamsAssumption DEF InInv

LEMMA WidenSlice ==
    ASSUME NEW q \in Seq(Nat), NEW n \in Nat, Slice(q, 0, n), Len(q) <= n
    PROVE  Slice(q, 0, n + 1)
  <1>1. DOMAIN q = 1..Len(q) /\ Len(q) \in Nat
    OBVIOUS
  <1>2. ASSUME NEW i \in DOMAIN q PROVE q[i] = Item(0 + i, n + 1)
    <2>1. i \in Nat /\ 0 + i <= n /\ 0 + i <= n + 1
      BY <1>1
    <2>2. q[i] = Item(0 + i, n)
      BY DEF Slice
    <2> QED
      BY <2>1, <2>2 DEF Item
  <1> QED
    BY <1>2 DEF Slice

(* Behind all that has been read comes the end, or the next chunk. *)
LEMMA ExtendChain ==
    ASSUME NEW a \in Seq(Nat), NEW b \in Seq(Nat), NEW n \in Nat,
           Slice(a, 0, n), Slice(b, Len(a), n), Len(a) + Len(b) = n
    PROVE  /\ Slice(Append(b, End), Len(a), n) /\ Len(a) + Len(Append(b, End)) = n + 1
           /\ Slice(a, 0, n + 1)
           /\ Slice(Append(b, n + 1), Len(a), n + 1) /\ Len(a) + Len(Append(b, n + 1)) = n + 1
  <1>1. Len(a) \in Nat /\ Len(b) \in Nat /\ End \in Nat /\ n + 1 \in Nat
    BY DEF End
  <1>2. Len(a) <= n /\ Len(a) + Len(b) <= n /\ n <= n /\ n <= n + 1 /\ Len(a) + Len(b) + 1 = n + 1
    BY <1>1
  <1>3. Item(Len(a) + Len(b) + 1, n) = End /\ Item(Len(a) + Len(b) + 1, n + 1) = n + 1
    BY <1>1, <1>2 DEF Item
  <1>4. Slice(Append(b, End), Len(a), n) /\ Len(Append(b, End)) = Len(b) + 1
    BY <1>1, <1>2, <1>3, AppendSlice
  <1>5. Slice(Append(b, n + 1), Len(a), n + 1) /\ Len(Append(b, n + 1)) = Len(b) + 1
    BY <1>1, <1>2, <1>3, AppendSlice
  <1>6. Slice(a, 0, n + 1)
    BY <1>2, WidenSlice
  <1> QED
    BY <1>1, <1>4, <1>5, <1>6

(* The reader has read to the end: what Chain says of it. *)
LEMMA ChainGrows ==
    ASSUME TypeOK, NEW s \in Inbound, InInv(s), reader[s] # "exit"
    PROVE  /\ Append(chunks[s], End) # <<>> /\ Len(Append(chunks[s], End)) = Len(chunks[s]) + 1
           /\ Len(Append(chunks[s], nread[s] + 1)) = Len(chunks[s]) + 1
           /\ Len(given[s]) <= nread[s] /\ Slice(given[s], 0, nread[s] + 1)
           /\ \A a \in {buffered[s], given[s]} : Chain(s, a, chunks[s]) =>
                /\ Slice(Append(chunks[s], End), Len(a), nread[s])
                /\ Len(a) + Len(Append(chunks[s], End)) = nread[s] + 1
                /\ Slice(a, 0, nread[s] + 1)
                /\ Slice(Append(chunks[s], nread[s] + 1), Len(a), nread[s] + 1)
                /\ Len(a) + Len(Append(chunks[s], nread[s] + 1)) = nread[s] + 1
  <1>1. /\ nread[s] \in Nat /\ chunks[s] \in Seq(Nat) /\ buffered[s] \in Seq(Nat) /\ given[s] \in Seq(Nat)
        /\ Len(given[s]) \in Nat /\ End \in Nat /\ nread[s] + 1 \in Nat
    BY InTypes DEF End
  <1>2. /\ Append(chunks[s], End) # <<>> /\ Len(Append(chunks[s], End)) = Len(chunks[s]) + 1
        /\ Len(Append(chunks[s], nread[s] + 1)) = Len(chunks[s]) + 1
    BY <1>1, AppendSlice
  <1>3. Slice(given[s], 0, nread[s]) /\ Len(given[s]) <= nread[s]
    <2>1. Slice(given[s], 0, nread[s]) /\ Len(given[s]) <= nread[s] + 1 /\ Len(given[s]) # nread[s] + 1
      BY DEF InInv
    <2> QED
      BY <1>1, <2>1
  <1>4. Slice(given[s], 0, nread[s] + 1)
    BY <1>1, <1>3, WidenSlice
  <1>5. ASSUME NEW a \in {buffered[s], given[s]}, Chain(s, a, chunks[s])
        PROVE  /\ Slice(Append(chunks[s], End), Len(a), nread[s])
               /\ Len(a) + Len(Append(chunks[s], End)) = nread[s] + 1
               /\ Slice(a, 0, nread[s] + 1)
               /\ Slice(Append(chunks[s], nread[s] + 1), Len(a), nread[s] + 1)
               /\ Len(a) + Len(Append(chunks[s], nread[s] + 1)) = nread[s] + 1
    <2>1. a \in Seq(Nat)
      BY <1>1
    <2>2. Slice(a, 0, nread[s]) /\ Slice(chunks[s], Len(a), nread[s]) /\ Len(a) + Len(chunks[s]) = nread[s]
      BY <1>5 DEF Chain
    <2> QED
      BY <1>1, <2>1, <2>2, ExtendChain
  <1> QED
    BY <1>2, <1>3, <1>4, <1>5

(* The steps of the reader and of the request. *)
LEMMA StepReader ==
    ASSUME TypeInv, \A s \in Inbound : InInv(s), NEW r \in Inbound, NEW s \in Inbound,
           Responds(r) \/ QueueHeaders(r) \/ Reader(r)
    PROVE  InInv(s)'
  <1>0. TypeOK /\ InInv(s) /\ InInv(r) /\ HighWater \in Nat /\ HighWater >= 1
    BY StreamsAssumption DEF TypeInv
  <1>1. CASE s # r
    <2>1. InFrame(s)
      BY <1>0, <1>1 DEF Responds, QueueHeaders, Reader, ReaderTop, ReaderEnding, Drained, BlockedCancelled,
                        Reads, ReadChunk, ReadEnd, ReaderTo, InFrame, TypeOK
    <2> QED
      BY <1>0, <2>1, InFrameKeeps
  <1>2. CASE s = r /\ QueueHeaders(r)
    <2>1. InFrame(s)
      BY <1>0, <1>2 DEF QueueHeaders, InFrame, TypeOK
    <2> QED
      BY <1>0, <2>1, InFrameKeeps
  <1>3. CASE s = r /\ (Responds(r) \/ ReaderTop(r) \/ Drained(r) \/ BlockedCancelled(r))
    <2>1. /\ headers'[s] = "none" => headers[s] = "none"
          /\ nread'[s] = nread[s] /\ chunks'[s] = chunks[s] /\ given'[s] = given[s] /\ buffered'[s] = buffered[s]
          /\ pending' = pending /\ controllers' = controllers /\ cancelled' = cancelled /\ closed' = closed
      BY <1>0, <1>3 DEF Responds, ReaderTop, Drained, BlockedCancelled, ReaderTo, InInv, TypeOK
    <2>2. /\ reader[s] # "exit"
          /\ headers'[s] # "none" \/ reader[s] # "none"
          /\ \/ reader'[s] = "top"
             \/ reader'[s] = "ending" /\ s \in cancelled
             \/ reader'[s] = "read" /\ Len(chunks[s]) < HighWater
             \/ reader'[s] = "blocked"
             \/ reader'[s] = "exit" /\ s \in cancelled
      BY <1>0, <1>3 DEF Responds, ReaderTop, Drained, BlockedCancelled, ReaderTo, InInv, TypeOK
    <2>3. /\ Len(chunks[s]) <= HighWater /\ Len(chunks[s]) \in Nat
          /\ Len(given[s]) # nread[s] + 1
      BY <1>0, <2>2, InTypes DEF InInv
    <2>4. \A a, b : Chain(s, a, b) => Chain(s, a, b)'
      BY <2>1, <2>2 DEF Chain
    <2>5. headers'[s] = "none" => reader'[s] = "none"
      BY <1>0, <2>1, <2>2 DEF InInv
    <2>6. /\ reader'[s] = "read" => Len(chunks'[s]) < HighWater
          /\ Len(chunks'[s]) <= HighWater /\ Len(chunks'[s]) <= HighWater + 1
      BY <1>0, <2>1, <2>2, <2>3
    <2> QED
      BY <1>0, <2>1, <2>2, <2>3, <2>4, <2>5, <2>6 DEF InInv
  <1>4. CASE s = r /\ (ReaderEnding(r) \/ ReadEnd(r))
    <2>1. /\ headers'[s] = headers[s] /\ nread'[s] = nread[s] /\ given'[s] = given[s] /\ buffered'[s] = buffered[s]
          /\ pending' = pending /\ controllers' = controllers /\ cancelled' = cancelled
          /\ reader[s] \in {"ending", "read", "eof"} /\ reader'[s] = "exit" /\ s \in closed'
          /\ reader[s] = "ending" => s \in cancelled
          /\ \/ chunks'[s] = chunks[s] /\ s \in cancelled
             \/ chunks'[s] = Append(chunks[s], End)
      BY <1>0, <1>4 DEF ReaderEnding, ReadEnd, ReaderTo, InInv, TypeOK
    <2>2. /\ Len(chunks[s]) <= HighWater /\ Len(chunks[s]) \in Nat /\ Len(given[s]) # nread[s] + 1
          /\ headers[s] # "none"
      BY <1>0, <2>1, InTypes DEF InInv
    <2>3. CASE chunks'[s] = chunks[s] /\ s \in cancelled
      <3>1. \A a : Chain(s, a, chunks[s]) => Chain(s, a, chunks[s])'
        BY <2>1, <2>3 DEF Chain
      <3>2. Len(chunks'[s]) <= HighWater + 1
        BY <1>0, <2>2, <2>3
      <3> QED
        BY <1>0, <2>1, <2>2, <2>3, <3>1, <3>2 DEF InInv
    <2>4. CASE chunks'[s] = Append(chunks[s], End)
      <3>1. chunks'[s] # <<>> /\ Len(chunks'[s]) <= HighWater + 1
        <4>1. reader[s] # "exit"
          BY <2>1
        <4>2. chunks'[s] # <<>> /\ Len(chunks'[s]) = Len(chunks[s]) + 1
          BY <1>0, <4>1, <2>4, ChainGrows
        <4> QED
          BY <1>0, <2>2, <4>2
      <3>2. \A a \in {buffered[s], given[s]} : Chain(s, a, chunks[s]) =>
              /\ Slice(a, 0, nread'[s]) /\ Slice(chunks'[s], Len(a), nread'[s])
              /\ Len(a) + Len(chunks'[s]) = nread'[s] + 1
        BY <1>0, <2>1, <2>4, ChainGrows DEF Chain
      <3>3. nread'[s] + 1 <= nread'[s] + 1
        BY <1>0, <2>1, InTypes
      <3>4. \A a \in {buffered[s], given[s]} : Chain(s, a, chunks[s]) =>
              /\ Slice(a, 0, nread'[s]) /\ Slice(chunks'[s], Len(a), nread'[s])
              /\ Len(a) + Len(chunks'[s]) <= nread'[s] + 1
        BY <3>2, <3>3
      <3> QED
        BY <1>0, <2>1, <2>2, <3>1, <3>4 DEF InInv, Chain
    <2> QED
      BY <2>1, <2>3, <2>4
  <1>5. CASE s = r /\ ReadChunk(r)
    <2>1. /\ headers'[s] = headers[s] /\ nread'[s] = nread[s] + 1 /\ given'[s] = given[s] /\ buffered'[s] = buffered[s]
          /\ pending' = pending /\ controllers' = controllers /\ cancelled' = cancelled
          /\ reader[s] = "read" /\ reader'[s] \in {"top", "eof"}
          /\ chunks'[s] = Append(chunks[s], nread[s] + 1)
      BY <1>0, <1>5 DEF ReadChunk, ReaderTo, TypeOK
    <2>2. /\ Len(chunks[s]) < HighWater /\ Len(chunks[s]) \in Nat /\ nread[s] \in Nat /\ Len(given[s]) \in Nat
          /\ headers[s] # "none"
      BY <1>0, <2>1, InTypes DEF InInv
    <2>3. /\ Len(chunks'[s]) = Len(chunks[s]) + 1 /\ Len(given[s]) <= nread[s] /\ Slice(given[s], 0, nread'[s])
          /\ \A a \in {buffered[s], given[s]} : Chain(s, a, chunks[s]) =>
               /\ Slice(a, 0, nread'[s]) /\ Slice(chunks'[s], Len(a), nread'[s])
               /\ Len(a) + Len(chunks'[s]) = nread'[s]
      BY <1>0, <2>1, ChainGrows
    <2>4. /\ Len(chunks'[s]) <= HighWater /\ Len(given[s]) <= nread'[s] /\ Len(given[s]) <= nread'[s] + 1
          /\ Len(given[s]) # nread'[s] + 1 /\ nread'[s] <= nread'[s] + 1
      BY <1>0, <2>1, <2>2, <2>3
    <2>5. \A a \in {buffered[s], given[s]} : Chain(s, a, chunks[s]) =>
            /\ Slice(a, 0, nread'[s]) /\ Slice(chunks'[s], Len(a), nread'[s])
            /\ Len(a) + Len(chunks'[s]) = nread'[s]
            /\ Len(a) + Len(chunks'[s]) <= nread'[s] + 1
      BY <2>3, <2>4
    <2>6. Len(chunks'[s]) <= HighWater + 1
      BY <1>0, <2>1, <2>2, <2>3, <2>4
    <2> QED
      BY <1>0, <2>1, <2>2, <2>3, <2>4, <2>5, <2>6 DEF InInv, Chain
  <1> QED
    BY <1>1, <1>2, <1>3, <1>4, <1>5 DEF Reader, Reads

LEMMA Sums ==
    \A a, b, n \in Nat :
      /\ a + b \in Nat /\ a + 0 = a
      /\ a + b <= n + 1 => a <= n + 1
      /\ a + b = n => a # n + 1
      /\ a <= n + 1 /\ a # n + 1 => a <= n
  OBVIOUS

LEMMA StepDelivery ==
    ASSUME TypeInv, NEW s \in Inbound, InInv(s), DeliverHeaders \/ ProcessEvents
    PROVE  InInv(s)'
  <1>0. TypeOK /\ HighWater \in Nat /\ HighWater >= 1
    BY StreamsAssumption DEF TypeInv
  <1>1. /\ nread[s] \in Nat /\ chunks[s] \in Seq(Nat) /\ buffered[s] \in Seq(Nat) /\ given[s] \in Seq(Nat)
        /\ Len(chunks[s]) \in Nat /\ Len(buffered[s]) \in Nat /\ Len(given[s]) \in Nat
    BY <1>0, InTypes
  <1>2. CASE DeliverHeaders /\ headers[s] = "queued" /\ s \in pending
    <2>1. /\ reader'[s] = reader[s] /\ nread'[s] = nread[s] /\ chunks'[s] = chunks[s]
          /\ headers'[s] = "delivered" /\ s \notin pending'
          /\ s \in controllers' <=> s \in controllers \/ ~HasEnd(buffered[s])
          /\ given'[s] = given[s] \o Cut(buffered[s])
          /\ cancelled' = cancelled /\ closed' = closed /\ inMap' = inMap
      BY <1>0, <1>2 DEF DeliverHeaders, TypeOK
    <2>2. s \notin controllers /\ given[s] = <<>> /\ Chain(s, buffered[s], chunks[s])
      BY <1>2 DEF InInv
    <2>3. /\ Cut(buffered[s]) = buffered[s]
          /\ HasEnd(buffered[s]) <=> (buffered[s] # <<>> /\ Len(buffered[s]) = nread[s] + 1)
      BY <1>0, <1>2, CutAll
    <2>4. given'[s] = buffered[s]
      BY <1>1, <2>1, <2>2, <2>3
    <2>5. /\ Slice(given'[s], 0, nread'[s]) /\ Len(given'[s]) + Len(chunks[s]) <= nread[s] + 1
          /\ reader[s] # "exit" => Len(given'[s]) + Len(chunks[s]) = nread[s]
          /\ Chain(s, given[s], chunks[s])' 
      BY <2>1, <2>2, <2>4 DEF Chain
    <2>6. /\ Len(given'[s]) <= nread'[s] + 1
          /\ Len(given'[s]) = nread'[s] + 1 => reader'[s] = "exit"
      <3>1. /\ Len(buffered[s]) + Len(chunks[s]) <= nread[s] + 1
            /\ reader[s] # "exit" => Len(buffered[s]) + Len(chunks[s]) = nread[s]
        BY <2>2 DEF Chain
      <3>2. /\ Len(buffered[s]) <= nread[s] + 1
            /\ Len(buffered[s]) = nread[s] + 1 => reader[s] = "exit"
        BY <1>1, <3>1, Sums
      <3> QED
        BY <2>1, <2>4, <3>2
    <2>7. s \in controllers' => Len(given'[s]) <= nread'[s]
      <3>1. buffered[s] = <<>> => Len(buffered[s]) = 0
        BY EmptyFacts
      <3> QED
        BY <1>1, <2>1, <2>2, <2>3, <2>4, <2>6, <3>1
    <2> QED
      BY <2>1, <2>5, <2>6, <2>7 DEF InInv
  <1>3. CASE DeliverHeaders /\ ~(headers[s] = "queued" /\ s \in pending)
    <2>1. InFrame(s)
      BY <1>0, <1>3 DEF DeliverHeaders, InFrame, TypeOK
    <2> QED
      BY <2>1, InFrameKeeps
  <1>4. CASE ProcessEvents /\ ~(s \in inMap /\ chunks[s] # <<>>)
    <2>1. InFrame(s)
      BY <1>0, <1>4 DEF ProcessEvents, InFrame, TypeOK
    <2> QED
      BY <2>1, InFrameKeeps
  <1>5. CASE ProcessEvents /\ s \in inMap /\ chunks[s] # <<>>
    <2>1. /\ reader'[s] = reader[s] /\ nread'[s] = nread[s] /\ chunks'[s] = <<>>
          /\ headers'[s] = headers[s] /\ pending' = pending
          /\ s \in controllers' <=> s \in controllers /\ ~HasEnd(chunks[s])
          /\ given'[s] = IF s \in controllers THEN given[s] \o Cut(chunks[s]) ELSE given[s]
          /\ s \notin controllers => buffered'[s] = buffered[s] \o chunks[s]
          /\ cancelled' = cancelled /\ closed' = closed /\ (s \in inMap' => s \notin closed)
      BY <1>0, <1>5 DEF ProcessEvents, TypeOK
    <2>2. /\ s \in inMap' /\ reader'[s] = "exit" => s \in cancelled'
          /\ headers'[s] = "none" => reader'[s] = "none"
          /\ reader'[s] = "read" => Len(chunks'[s]) < HighWater
          /\ Len(chunks'[s]) <= HighWater /\ Len(chunks'[s]) <= HighWater + 1
          /\ reader'[s] = "ending" => s \in cancelled'
      BY <1>0, <1>5, <2>1, EmptyFacts DEF InInv
    <2>3. CASE s \in controllers
      <3>1. /\ Slice(given[s], 0, nread[s]) /\ Slice(chunks[s], Len(given[s]), nread[s])
            /\ Len(given[s]) + Len(chunks[s]) <= nread[s] + 1
            /\ reader[s] # "exit" => Len(given[s]) + Len(chunks[s]) = nread[s]
        BY <2>3 DEF InInv, Chain
      <3>2. /\ Cut(chunks[s]) = chunks[s]
            /\ HasEnd(chunks[s]) <=> Len(given[s]) + Len(chunks[s]) = nread[s] + 1
        BY <1>0, <1>5, <2>3, CutAll
      <3>3. given'[s] = given[s] \o chunks[s]
        BY <2>1, <2>3, <3>2
      <3>4. /\ Slice(given'[s], 0, nread'[s]) /\ Len(given'[s]) = Len(given[s]) + Len(chunks[s])
        BY <1>1, <2>1, <3>1, <3>3, ConcatSlice
      <3>5. /\ Len(given'[s]) <= nread'[s] + 1
            /\ Len(given'[s]) = nread'[s] + 1 => reader'[s] = "exit"
            /\ s \in controllers' => Len(given'[s]) <= nread'[s]
            /\ Len(given'[s]) + 0 <= nread'[s] + 1
            /\ reader'[s] # "exit" => Len(given'[s]) + 0 = nread'[s]
        <4> DEFINE m == Len(given[s]) + Len(chunks[s])
        <4>1. m \in Nat /\ Len(given'[s]) = m
          BY <1>1, <3>4, Sums
        <4>2. /\ m <= nread[s] + 1
              /\ reader[s] # "exit" => m = nread[s]
              /\ HasEnd(chunks[s]) <=> m = nread[s] + 1
          BY <3>1, <3>2
        <4> HIDE DEF m
        <4>3. /\ m + 0 = m
              /\ m = nread[s] => m # nread[s] + 1
              /\ m # nread[s] + 1 => m <= nread[s]
          BY <1>1, <4>1, <4>2
        <4> QED
          BY <2>1, <4>1, <4>2, <4>3
      <3>6. Chain(s, given[s], chunks[s])'
        BY <2>1, <3>4, <3>5, EmptyFacts DEF Chain
      <3>7. s \notin pending'
        BY <2>1, <2>3 DEF InInv
      <3> QED
        BY <2>2, <3>4, <3>5, <3>6, <3>7 DEF InInv
    <2>4. CASE s \notin controllers
      <3>1. given'[s] = given[s] /\ s \notin controllers'
        BY <2>1, <2>4
      <3>2. s \in pending => Chain(s, buffered[s], chunks[s])'
        <4> SUFFICES ASSUME s \in pending PROVE Chain(s, buffered[s], chunks[s])'
          OBVIOUS
        <4>1. /\ Slice(buffered[s], 0, nread[s]) /\ Slice(chunks[s], Len(buffered[s]), nread[s])
              /\ Len(buffered[s]) + Len(chunks[s]) <= nread[s] + 1
              /\ reader[s] # "exit" => Len(buffered[s]) + Len(chunks[s]) = nread[s]
          BY DEF InInv, Chain
        <4>2. Slice(buffered'[s], 0, nread'[s]) /\ Len(buffered'[s]) = Len(buffered[s]) + Len(chunks[s])
          <5>1. buffered'[s] = buffered[s] \o chunks[s] /\ nread'[s] = nread[s]
            BY <2>1, <2>4
          <5> QED
            BY <1>1, <5>1, <4>1, ConcatSlice
        <4>3. /\ Len(buffered'[s]) + 0 <= nread'[s] + 1
              /\ reader'[s] # "exit" => Len(buffered'[s]) + 0 = nread'[s]
          <5> DEFINE m == Len(buffered[s]) + Len(chunks[s])
          <5>1. m + 0 = m /\ Len(buffered'[s]) = m
            BY <1>1, <4>2, Sums
          <5>2. /\ m <= nread[s] + 1
                /\ reader[s] # "exit" => m = nread[s]
            BY <4>1
          <5> HIDE DEF m
          <5> QED
            BY <2>1, <5>1, <5>2
        <4> QED
          BY <2>1, <4>2, <4>3, EmptyFacts DEF Chain
      <3> QED
        BY <2>1, <2>2, <3>1, <3>2 DEF InInv
    <2> QED
      BY <2>3, <2>4
  <1> QED
    BY <1>2, <1>3, <1>4, <1>5

OutStep(s) ==
    Handles(s) \/ HandOver(s) \/ PumpWrite(s) \/ PumpEnds(s) \/ InGo(s) \/ Consumer(s) \/ Connection(s)

(* What closeAll does: it cancels whatever it takes out or closes. *)
LEMMA CloseAllMarks ==
    ASSUME TypeInv, CloserInv, CloseAll
    PROVE  /\ UNCHANGED <<engine, handling, closed, inVars, jsVars, pump, nwritten, dataCh, consumer, out>>
           /\ cancelled \subseteq cancelled' /\ inMap' \subseteq inMap /\ inMap \ inMap' \subseteq cancelled'
           /\ doneCh' \subseteq doneCh \cup cancelled'
           /\ life' # "open" /\ TypeInv' /\ CloserInv'
  <1> USE StreamsAssumption
  <1>0. TypeOK /\ CancelsInbound
    BY DEF TypeInv
  <1>1. CASE CloseAllBegins
    BY <1>0, <1>1 DEF CloseAllBegins, TypeInv, TypeOK, CancelsInbound, CloserInv
  <1>2. ASSUME NEW s \in Inbound \cup Outbound, CloseAllCancels(s)
        PROVE  /\ cancelled \subseteq cancelled' /\ inMap' \subseteq inMap /\ inMap \ inMap' \subseteq cancelled'
               /\ doneCh' = doneCh /\ life' # "open" /\ TypeInv' /\ CloserInv'
    <2>1. closer' \in Outbound \cup {None} /\ CloserInv'
      BY <1>0, <1>2 DEF CloseAllCancels, TypeOK, CloserInv
    <2>2. inMap' \subseteq inMap /\ inMap \ inMap' \subseteq cancelled'
      BY <1>2 DEF CloseAllCancels
    <2> QED
      BY <1>0, <1>2, <2>1, <2>2 DEF CloseAllCancels, TypeInv, TypeOK, CancelsInbound
  <1>3. CASE CloseAllCloses
    BY <1>0, <1>3 DEF CloseAllCloses, TypeInv, TypeOK, CancelsInbound, CloserInv
  <1>4. CASE CloseAllEnds
    BY <1>0, <1>4 DEF CloseAllEnds, TypeInv, TypeOK, CancelsInbound, CloserInv
  <1>5. UNCHANGED <<engine, handling, closed, inVars, jsVars, pump, nwritten, dataCh, consumer, out>>
    BY DEF CloseAll, CloseAllBegins, CloseAllCancels, CloseAllCloses, CloseAllEnds
  <1> QED
    BY <1>1, <1>2, <1>3, <1>4, <1>5 DEF CloseAll

LEMMA StepIn ==
    ASSUME TypeInv, CloserInv, \A r \in Inbound : InInv(r), NEW s \in Inbound, [Next]_vars
    PROVE  InInv(s)'
  <1>0. TypeOK /\ InInv(s)
    BY DEF TypeInv
  <1>1. ASSUME NEW r \in Inbound, Responds(r) \/ QueueHeaders(r) \/ Reader(r) PROVE InInv(s)'
    BY <1>1, StepReader
  <1>2. ASSUME NEW r \in Inbound, Abort(r) PROVE InInv(s)'
    <2>1. InFrame(s)
      BY <1>0, <1>2 DEF Abort, InFrame
    <2> QED
      BY <1>0, <2>1, InFrameKeeps
  <1>3. ASSUME NEW r \in Inbound, CancelBody(r) PROVE InInv(s)'
    <2>1. InFrame(s)
      BY <1>0, <1>3 DEF CancelBody, InFrame, TypeOK, InInv
    <2> QED
      BY <1>0, <2>1, InFrameKeeps
  <1>4. ASSUME DeliverHeaders \/ ProcessEvents PROVE InInv(s)'
    BY <1>0, <1>4, StepDelivery
  <1>5. ASSUME NEW r \in Outbound, OutStep(r) PROVE InInv(s)'
    <2>1. s # r /\ <<inVars, jsVars>>' = <<inVars, jsVars>> /\ cancelled \subseteq cancelled' /\ closed \subseteq closed'
      BY <1>5, StreamsAssumption
         DEF OutStep, Handles, HandOver, PumpWrite, PumpEnds, InGo, WriteDone, WriteFails, CloseLock,
             Consumer, Connection, GetStream, Takes, Written, WriteBreaks, ConsumerLock, ConsumerCloses, SeesDone, Drains, Removes
    <2>2. inMap' \subseteq inMap \cup {r}
      BY <1>5
         DEF OutStep, Handles, HandOver, PumpWrite, PumpEnds, InGo, WriteDone, WriteFails, CloseLock,
             Consumer, Connection, GetStream, Takes, Written, WriteBreaks, ConsumerLock, ConsumerCloses, SeesDone, Drains, Removes
    <2>3. InFrame(s)
      BY <2>1, <2>2 DEF InFrame
    <2> QED
      BY <1>0, <2>3, InFrameKeeps
  <1>6. ASSUME CancelLock \/ CloseAll \/ Down \/ UNCHANGED vars PROVE InInv(s)'
    <2>1. ASSUME CloseAll PROVE InFrame(s)
      BY <2>1, CloseAllMarks DEF InFrame
    <2>2. ASSUME CancelLock \/ Down \/ UNCHANGED vars PROVE InFrame(s)
      BY <2>2 DEF CancelLock, Down, vars, InFrame
    <2> QED
      BY <1>0, <1>6, <2>1, <2>2, InFrameKeeps
  <1> QED
    BY <1>1, <1>2, <1>3, <1>4, <1>5, <1>6 DEF Next, OutStep

-----------------------------------------------------------------------------
(* Outbound streams. *)

LEMMA StepTypeOut ==
    ASSUME TypeInv, NEW s \in Outbound, EndInv(s), OutStep(s)
    PROVE  TypeInv'
  <1> USE StreamsAssumption
  <1>0. TypeOK /\ CancelsInbound
    BY DEF TypeInv
  <1>1. /\ nwritten[s] \in 0..Bound /\ dataCh[s] \in Seq(Nat) /\ out[s] \in Seq(Nat)
        /\ Len(dataCh[s]) \in Nat /\ Len(dataCh[s]) <= DataCap /\ Bound \in Nat /\ DataCap \in Nat
    BY <1>0, OutTypes DEF TypeOK
  <1>2. ASSUME Put(s), nwritten[s] < Bound, Len(dataCh[s]) < DataCap
        PROVE  /\ nwritten' \in [Outbound -> 0..Bound] /\ dataCh' \in [Outbound -> Seq(Nat)]
               /\ \A j \in Outbound : Len(dataCh'[j]) <= DataCap
    <2>1. nwritten' \in [Outbound -> 0..Bound] /\ nwritten'[s] \in Nat
      <3>1. nwritten[s] + 1 \in 0..Bound /\ nwritten[s] + 1 \in Nat
        BY <1>1, <1>2
      <3> QED
        BY <1>0, <1>2, <3>1 DEF Put, TypeOK
    <2>2. /\ Append(dataCh[s], nwritten'[s]) \in Seq(Nat)
          /\ Len(Append(dataCh[s], nwritten'[s])) = Len(dataCh[s]) + 1
      BY <1>1, <2>1, AppendSlice
    <2>3. Len(Append(dataCh[s], nwritten'[s])) <= DataCap
      BY <1>1, <1>2, <2>2
    <2> QED
      BY <1>0, <1>2, <2>1, <2>2, <2>3 DEF Put, TypeOK
  <1>3. ASSUME Take(s)
        PROVE  /\ dataCh' \in [Outbound -> Seq(Nat)] /\ Head(dataCh[s]) \in Nat
               /\ \A j \in Outbound : Len(dataCh'[j]) <= DataCap
    <2>1. /\ Head(dataCh[s]) \in Nat /\ Tail(dataCh[s]) \in Seq(Nat) /\ Len(Tail(dataCh[s])) = Len(dataCh[s]) - 1
      BY <1>1, <1>3, TailSlice DEF Take
    <2>2. Len(Tail(dataCh[s])) <= DataCap
      BY <1>1, <2>1
    <2> QED
      BY <1>0, <1>3, <2>1, <2>2 DEF Take, TypeOK
  <1>4. ASSUME NEW x \in Nat, out' = [out EXCEPT ![s] = Append(@, x)]
        PROVE  out' \in [Outbound -> Seq(Nat)]
    <2>1. Append(out[s], x) \in Seq(Nat)
      BY <1>1, AppendSlice
    <2> QED
      BY <1>0, <1>4, <2>1 DEF TypeOK
  <1>5. [op |-> "write", on |-> s] \in [op : Ops, on : Inbound \cup Outbound]
        /\ [op |-> "close", on |-> s] \in [op : Ops, on : Inbound \cup Outbound]
        /\ [op |-> "write", on |-> s].op # "cancel" /\ [op |-> "close", on |-> s].op # "cancel"
        /\ NotBusy.op # "cancel"
    BY DEF Ops
  <1>6. ASSUME Closes(s)
        PROVE  /\ pump' \in [Outbound -> {"none", "pumping", "ended"}]
               /\ engine' \in [op : Ops, on : Inbound \cup Outbound] \cup {NotBusy}
               /\ CancelsInbound'
    BY <1>0, <1>5, <1>6 DEF Closes, TypeOK, CancelsInbound
  <1>7. CASE Handles(s)
    BY <1>0, <1>7 DEF Handles, TypeInv, TypeOK, CancelsInbound
  <1>8. CASE HandOver(s)
    <2>1. consumer' = [consumer EXCEPT ![s] = "handed"] \/ consumer' = [consumer EXCEPT ![s] = "unserved"]
      BY <1>8 DEF HandOver
    <2>2. consumer' \in [Outbound -> {"none", "unserved", "handed", "loop", "writing", "cancel", "closing",
                                      "failed", "drain", "drainLost", "done", "lost"}]
      BY <1>0, <2>1 DEF TypeOK
    <2>3. handling' = None
      BY <1>8 DEF HandOver
    <2> QED
      BY <1>0, <1>8, <2>2, <2>3 DEF HandOver, TypeInv, TypeOK, CancelsInbound
  <1>9. CASE PumpWrite(s)
    <2>1. CASE s \notin inMap /\ Closes(s) /\ UNCHANGED <<nwritten, dataCh>>
      BY <1>0, <1>6, <1>9, <2>1 DEF PumpWrite, TypeInv, TypeOK
    <2>2. CASE s \in inMap /\ Len(dataCh[s]) < DataCap /\ Put(s) /\ UNCHANGED <<engine, pump>>
      <3>1. nwritten[s] < Bound
        BY <1>9 DEF PumpWrite
      <3> QED
        BY <1>0, <1>2, <1>9, <2>2, <3>1 DEF PumpWrite, TypeInv, TypeOK, CancelsInbound
    <2>3. CASE s \in inMap /\ s \in cancelled /\ Closes(s) /\ UNCHANGED <<nwritten, dataCh>>
      BY <1>0, <1>6, <1>9, <2>3 DEF PumpWrite, TypeInv, TypeOK
    <2>4. CASE engine' = [op |-> "write", on |-> s] /\ UNCHANGED <<pump, nwritten, dataCh>>
      BY <1>0, <1>5, <1>9, <2>4 DEF PumpWrite, TypeInv, TypeOK, CancelsInbound
    <2> QED
      BY <1>9, <2>1, <2>2, <2>3, <2>4 DEF PumpWrite
  <1>10. CASE PumpEnds(s)
    BY <1>0, <1>6, <1>10 DEF PumpEnds, TypeInv, TypeOK
  <1>11. CASE WriteDone(s)
    <2>1. nwritten[s] < Bound
      BY <1>11 DEF WriteDone, EndInv
    <2> QED
      BY <1>0, <1>2, <1>5, <1>11, <2>1 DEF WriteDone, TypeInv, TypeOK, CancelsInbound
  <1>12. CASE WriteFails(s)
    BY <1>0, <1>6, <1>12 DEF WriteFails, TypeInv, TypeOK
  <1>13. CASE CloseLock(s)
    BY <1>0, <1>5, <1>13 DEF CloseLock, TypeInv, TypeOK, CancelsInbound
  <1>14. CASE GetStream(s)
    BY <1>0, <1>14 DEF GetStream, ConsumerTo, TypeInv, TypeOK, CancelsInbound
  <1>15. CASE Takes(s) \/ Written(s) \/ WriteBreaks(s)
    BY <1>0, <1>3, <1>4, <1>15 DEF Takes, Written, WriteBreaks, ConsumerTo, TypeInv, TypeOK, CancelsInbound
  <1>16. CASE ConsumerLock(s)
    BY <1>0, <1>16 DEF ConsumerLock, ConsumerTo, TypeInv, TypeOK, CancelsInbound
  <1>17. CASE ConsumerCloses(s)
    BY <1>0, <1>17 DEF ConsumerCloses, ConsumerTo, TypeInv, TypeOK, CancelsInbound
  <1>18. CASE SeesDone(s)
    BY <1>0, <1>18 DEF SeesDone, ConsumerTo, TypeInv, TypeOK, CancelsInbound
  <1>19. CASE Drains(s)
    <2>1. /\ dataCh' \in [Outbound -> Seq(Nat)] /\ Head(dataCh[s]) \in Nat
          /\ \A j \in Outbound : Len(dataCh'[j]) <= DataCap
      BY <1>3, <1>19 DEF Drains
    <2>2. out' \in [Outbound -> Seq(Nat)]
      BY <1>0, <1>4, <1>19, <2>1 DEF Drains, TypeOK
    <2>3. consumer' = consumer \/ consumer' = [consumer EXCEPT ![s] = "drainLost"]
      BY <1>19 DEF Drains, ConsumerTo
    <2>4. consumer' \in [Outbound -> {"none", "unserved", "handed", "loop", "writing", "cancel", "closing",
                                      "failed", "drain", "drainLost", "done", "lost"}]
      BY <1>0, <2>3 DEF TypeOK
    <2> QED
      BY <1>0, <1>19, <2>1, <2>2, <2>4 DEF Drains, TypeInv, TypeOK, CancelsInbound
  <1>20. CASE Removes(s)
    BY <1>0, <1>20 DEF Removes, ConsumerTo, TypeInv, TypeOK, CancelsInbound
  <1> QED
    BY <1>7, <1>8, <1>9, <1>10, <1>11, <1>12, <1>13, <1>14, <1>15, <1>16, <1>17, <1>18, <1>19, <1>20
       DEF OutStep, InGo, Consumer, Connection

LEMMA StepType ==
    ASSUME TypeInv, CloserInv, \A s \in Inbound : InInv(s), \A s \in Outbound : EndInv(s), [Next]_vars
    PROVE  TypeInv'
  <1>0. TypeOK /\ CancelsInbound
    BY DEF TypeInv
  <1>1. ASSUME NEW s \in Outbound, OutStep(s) PROVE TypeInv'
    BY <1>1, StepTypeOut
  <1>2. CASE CloseAll
    BY <1>2, CloseAllMarks
  <1>3. CASE Down
    BY <1>0, <1>3 DEF Down, TypeInv, TypeOK, CancelsInbound
  <1>4. CASE UNCHANGED vars
    BY <1>0, <1>4 DEF vars, TypeInv, TypeOK, CancelsInbound
  <1> QED
    BY <1>1, <1>2, <1>3, <1>4, StepTypeIn DEF Next, OutStep

(* A step that does not work on stream s. *)
OutFrame(s) ==
    /\ pump'[s] = pump[s] /\ nwritten'[s] = nwritten[s] /\ dataCh'[s] = dataCh[s]
    /\ consumer'[s] = consumer[s] /\ out'[s] = out[s]
    /\ \A op \in {"write", "close"} : engine' = [op |-> op, on |-> s] => engine' = engine
    /\ handling' = s => handling = s
    /\ s \in closed' <=> s \in closed
    /\ s \in cancelled => s \in cancelled'
    /\ s \in inMap' => s \in inMap
    /\ life' = "open" => life = "open" /\ (s \in doneCh' => s \in doneCh)

LEMMA OutFrameKeeps ==
    ASSUME NEW s \in Outbound, OutInv(s), OutFrame(s)
    PROVE  OutInv(s)'
  <1>1. FlowInv(s)'
    BY DEF OutInv, OutFrame, FlowInv
  <1>2. EndInv(s)'
    BY DEF OutInv, OutFrame, EndInv
  <1>3. DoneInv(s)'
    BY DEF OutInv, OutFrame, DoneInv
  <1> QED
    BY <1>1, <1>2, <1>3 DEF OutInv

LEMMA InitOut == Init => \A s \in Outbound : OutInv(s)
  <1> SUFFICES ASSUME Init, NEW s \in Outbound PROVE OutInv(s)
    OBVIOUS
  <1>1. /\ engine = NotBusy /\ handling = None /\ s \notin inMap /\ s \notin closed /\ s \notin doneCh
        /\ pump[s] = "none" /\ nwritten[s] = 0 /\ dataCh[s] = <<>> /\ consumer[s] = "none" /\ out[s] = <<>>
    BY DEF Init
  <1>2. FlowInv(s)
    BY <1>1, EmptyFacts DEF FlowInv
  <1>3. EndInv(s)
    BY <1>1, StreamsAssumption DEF EndInv
  <1>4. DoneInv(s)
    BY <1>1 DEF DoneInv
  <1> QED
    BY <1>2, <1>3, <1>4 DEF OutInv

(* What the pump and the handler do to the chunks. *)
LEMMA StepFlow ==
    ASSUME TypeInv, NEW s \in Outbound, OutInv(s), OutStep(s)
    PROVE  FlowInv(s)'
  <1>0. TypeOK /\ FlowInv(s)
    BY DEF TypeInv, OutInv
  <1>1. /\ nwritten[s] \in Nat /\ dataCh[s] \in Seq(Nat) /\ out[s] \in Seq(Nat)
        /\ Len(dataCh[s]) \in Nat /\ Len(out[s]) \in Nat
    BY <1>0, OutTypes
  <1>2. Slice(out[s], 0, nwritten[s]) /\ Len(out[s]) <= nwritten[s]
    BY <1>0 DEF FlowInv
  <1>3. ASSUME Put(s), out' = out, consumer' = consumer
        PROVE  FlowInv(s)'
    <2>1. nwritten'[s] = nwritten[s] + 1 /\ dataCh'[s] = Append(dataCh[s], nwritten[s] + 1)
      BY <1>0, <1>3 DEF Put, TypeOK
    <2>2. Slice(out[s], 0, nwritten[s] + 1)
      BY <1>1, <1>2, WidenSlice
    <2>3. Len(out[s]) <= nwritten[s] + 1
      BY <1>1, <1>2
    <2>4. ASSUME consumer[s] \in Flowing
          PROVE  /\ Slice(dataCh'[s], Len(out[s]), nwritten[s] + 1)
                 /\ Len(out[s]) + Len(dataCh'[s]) = nwritten[s] + 1
      <3>1. Slice(dataCh[s], Len(out[s]), nwritten[s]) /\ Len(out[s]) + Len(dataCh[s]) = nwritten[s]
        BY <1>0, <2>4 DEF FlowInv
      <3>2. /\ Slice(Append(dataCh[s], nwritten[s] + 1), Len(out[s]), nwritten[s] + 1)
            /\ Len(out[s]) + Len(Append(dataCh[s], nwritten[s] + 1)) = nwritten[s] + 1
        BY <1>1, <1>2, <3>1, ExtendChain
      <3> QED
        BY <2>1, <3>2
    <2> QED
      BY <1>3, <2>1, <2>2, <2>3, <2>4 DEF FlowInv
  <1>4. ASSUME UNCHANGED <<nwritten, dataCh, out>>,
               consumer'[s] \in Flowing => consumer[s] \in Flowing
        PROVE  FlowInv(s)'
    BY <1>0, <1>4 DEF FlowInv
  <1>5. ASSUME Take(s), consumer[s] \in {"loop", "drain"},
               out' = [out EXCEPT ![s] = Append(@, Head(dataCh[s]))], nwritten' = nwritten
        PROVE  FlowInv(s)'
    <2>1. /\ out'[s] = Append(out[s], Head(dataCh[s])) /\ nwritten'[s] = nwritten[s]
          /\ dataCh'[s] = Tail(dataCh[s]) /\ dataCh[s] # <<>>
      BY <1>0, <1>5 DEF Take, TypeOK
    <2>2. Slice(dataCh[s], Len(out[s]), nwritten[s]) /\ Len(out[s]) + Len(dataCh[s]) = nwritten[s]
      BY <1>0, <1>5 DEF FlowInv, Flowing
    <2>3. /\ Head(dataCh[s]) \in Nat /\ Len(Tail(dataCh[s])) = Len(dataCh[s]) - 1 /\ Len(dataCh[s]) \in Nat \ {0}
          /\ Head(dataCh[s]) = Item(Len(out[s]) + 1, nwritten[s])
          /\ Slice(Tail(dataCh[s]), Len(out[s]) + 1, nwritten[s])
      BY <1>1, <2>1, <2>2, TailSlice
    <2>4. 0 + Len(out[s]) <= nwritten[s] /\ nwritten[s] <= nwritten[s] /\ 0 + Len(out[s]) + 1 = Len(out[s]) + 1
      BY <1>1, <1>2
    <2>5. Slice(out'[s], 0, nwritten[s]) /\ Len(out'[s]) = Len(out[s]) + 1
      BY <1>1, <1>2, <2>1, <2>3, <2>4, AppendSlice
    <2>6. \A a, b, n \in Nat : a + b = n /\ b \in Nat \ {0} => a + 1 <= n /\ (a + 1) + (b - 1) = n
      OBVIOUS
    <2>7. /\ Len(out[s]) + 1 <= nwritten[s]
          /\ (Len(out[s]) + 1) + (Len(dataCh[s]) - 1) = nwritten[s]
      BY <1>1, <2>2, <2>3, <2>6
    <2> QED
      BY <2>1, <2>3, <2>5, <2>7 DEF FlowInv
  <1>6. ASSUME Take(s), consumer'[s] \in {"cancel", "failed", "drainLost"}, out' = out, nwritten' = nwritten
        PROVE  FlowInv(s)'
    BY <1>0, <1>6 DEF FlowInv, Flowing
  <1>7. CASE Handles(s) \/ PumpEnds(s) \/ WriteFails(s) \/ CloseLock(s)
    BY <1>4, <1>7 DEF Handles, PumpEnds, WriteFails, CloseLock
  <1>8. CASE HandOver(s)
    <2>1. consumer' = [consumer EXCEPT ![s] = "handed"] \/ consumer' = [consumer EXCEPT ![s] = "unserved"]
      BY <1>8 DEF HandOver
    <2>2. consumer[s] = "none"
      BY <1>8 DEF HandOver, OutInv, EndInv
    <2> QED
      BY <1>4, <1>8, <2>1, <2>2 DEF HandOver, Flowing
  <1>9. CASE PumpWrite(s)
    BY <1>3, <1>4, <1>9 DEF PumpWrite
  <1>10. CASE WriteDone(s)
    BY <1>3, <1>10 DEF WriteDone
  <1>11. CASE \/ GetStream(s) \/ Written(s) \/ WriteBreaks(s) \/ ConsumerLock(s) \/ ConsumerCloses(s)
              \/ SeesDone(s) \/ Removes(s)
    <2>1. UNCHANGED <<nwritten, dataCh, out>>
      BY <1>11 DEF GetStream, Written, WriteBreaks, ConsumerLock, ConsumerCloses, SeesDone, Removes
    <2>2. consumer'[s] \in Flowing => consumer[s] \in Flowing
      BY <1>0, <1>11 DEF GetStream, Written, WriteBreaks, ConsumerLock, ConsumerCloses, SeesDone, Removes,
                         ConsumerTo, TypeOK, Flowing
    <2> QED
      BY <1>4, <2>1, <2>2
  <1>12. CASE Takes(s)
    BY <1>5, <1>12 DEF Takes
  <1>13. CASE Drains(s)
    <2>1. Take(s) /\ nwritten' = nwritten
      BY <1>13 DEF Drains
    <2>2. CASE consumer[s] = "drain" /\ out' = [out EXCEPT ![s] = Append(@, Head(dataCh[s]))] /\ consumer' = consumer
      BY <1>5, <2>1, <2>2
    <2>3. CASE out' = out /\ consumer'[s] = "drainLost"
      BY <1>6, <2>1, <2>3
    <2> QED
      BY <1>0, <1>13, <2>2, <2>3 DEF Drains, ConsumerTo, TypeOK
  <1> QED
    BY <1>7, <1>8, <1>9, <1>10, <1>11, <1>12, <1>13 DEF OutStep, InGo, Consumer, Connection

(* Who closes a stream, and who takes it out of streamManager. *)
LEMMA StepEnd ==
    ASSUME TypeInv, NEW s \in Outbound, OutInv(s), OutStep(s)
    PROVE  EndInv(s)'
  <1> USE StreamsAssumption
  <1>0. TypeOK /\ EndInv(s) /\ FlowInv(s)
    BY DEF TypeInv, OutInv
  <1>1. CASE Handles(s)
    BY <1>0, <1>1 DEF Handles, JsFree, Tick, EndInv, TypeOK
  <1>2. CASE HandOver(s)
    BY <1>0, <1>2 DEF HandOver, JsFree, EndInv, TypeOK
  <1>3. ASSUME Closes(s), pump[s] = "pumping", consumer' = consumer, closed' = closed, cancelled' = cancelled,
               inMap' = inMap, handling' = handling
        PROVE  EndInv(s)'
    BY <1>0, <1>3 DEF Closes, EndInv, TypeOK
  <1>4. CASE PumpWrite(s)
    <2>1. CASE Closes(s)
      BY <1>3, <1>4, <2>1 DEF PumpWrite
    <2>2. CASE Put(s) /\ UNCHANGED <<engine, pump>>
      <3>1. engine = NotBusy /\ pump[s] = "pumping"
        BY <1>4 DEF PumpWrite, JsFree
      <3>2. consumer[s] = "done" => s \notin closed
        BY <1>0, <3>1 DEF EndInv
      <3> QED
        BY <1>0, <1>4, <2>2, <3>1, <3>2 DEF PumpWrite, EndInv
    <2>3. CASE engine' = [op |-> "write", on |-> s] /\ UNCHANGED <<pump, nwritten, dataCh>>
      <3>1. engine = NotBusy /\ pump[s] = "pumping" /\ nwritten[s] < Bound
        BY <1>4 DEF PumpWrite, JsFree
      <3> QED
        BY <1>0, <1>4, <2>3, <3>1 DEF PumpWrite, EndInv
    <2> QED
      BY <1>4, <2>1, <2>2, <2>3 DEF PumpWrite
  <1>5. CASE PumpEnds(s)
    BY <1>3, <1>5 DEF PumpEnds
  <1>6. CASE WriteDone(s)
    <2>1. pump[s] = "pumping"
      BY <1>0, <1>6 DEF WriteDone, EndInv
    <2>2. consumer[s] = "done" => s \notin closed
      BY <1>0, <2>1 DEF EndInv
    <2> QED
      BY <1>0, <1>6, <2>1, <2>2 DEF WriteDone, EndInv
  <1>7. CASE WriteFails(s)
    <2>1. pump[s] = "pumping"
      BY <1>0, <1>7 DEF WriteFails, EndInv
    <2> QED
      BY <1>3, <1>7, <2>1 DEF WriteFails
  <1>8. CASE CloseLock(s)
    BY <1>0, <1>8 DEF CloseLock, EndInv
  <1>9. CASE GetStream(s)
    BY <1>0, <1>9 DEF GetStream, ConsumerTo, EndInv, TypeOK
  <1>10. CASE Takes(s) \/ Written(s) \/ WriteBreaks(s)
    BY <1>0, <1>10 DEF Takes, Written, WriteBreaks, ConsumerTo, EndInv, TypeOK
  <1>11. CASE ConsumerLock(s)
    BY <1>0, <1>11 DEF ConsumerLock, ConsumerTo, EndInv, TypeOK
  <1>12. CASE ConsumerCloses(s)
    BY <1>0, <1>12 DEF ConsumerCloses, ConsumerTo, EndInv, TypeOK
  <1>13. CASE SeesDone(s)
    BY <1>0, <1>13 DEF SeesDone, ConsumerTo, EndInv, TypeOK
  <1>14. CASE Drains(s)
    BY <1>0, <1>14 DEF Drains, ConsumerTo, EndInv, TypeOK
  <1>15. CASE Removes(s)
    <2>1. consumer[s] = "drain" => Len(out[s]) = nwritten[s]
      <3>1. dataCh[s] = <<>> /\ Len(out[s]) \in Nat
        BY <1>0, <1>15, OutTypes DEF Removes
      <3>2. consumer[s] = "drain" => Len(out[s]) + Len(dataCh[s]) = nwritten[s]
        BY <1>0 DEF FlowInv, Flowing
      <3> QED
        BY <3>1, <3>2, EmptyFacts
    <2> QED
      BY <1>0, <1>15, <2>1 DEF Removes, ConsumerTo, EndInv, TypeOK
  <1> QED
    BY <1>1, <1>2, <1>4, <1>5, <1>6, <1>7, <1>8, <1>9, <1>10, <1>11, <1>12, <1>13, <1>14, <1>15
       DEF OutStep, InGo, Consumer, Connection

LEMMA StepDone ==
    ASSUME TypeInv, NEW s \in Outbound, OutInv(s), OutStep(s)
    PROVE  DoneInv(s)' /\ (crashed' => crashed \/ life' # "open")
  <1>0. TypeOK /\ EndInv(s) /\ DoneInv(s)
    BY DEF TypeInv, OutInv
  <1>1. CASE Handles(s)
    BY <1>0, <1>1 DEF Handles, DoneInv
  <1>2. CASE HandOver(s)
    BY <1>0, <1>2 DEF HandOver, DoneInv, TypeOK
  <1>3. CASE PumpWrite(s)
    BY <1>0, <1>3 DEF PumpWrite, DoneInv
  <1>4. CASE PumpEnds(s) \/ WriteDone(s) \/ WriteFails(s)
    BY <1>0, <1>4 DEF PumpEnds, WriteDone, WriteFails, DoneInv
  <1>5. CASE CloseLock(s)
    BY <1>0, <1>5 DEF CloseLock, DoneInv
  <1>6. CASE GetStream(s) \/ SeesDone(s) \/ Removes(s)
    BY <1>0, <1>6 DEF GetStream, SeesDone, Removes, ConsumerTo, DoneInv, TypeOK
  <1>7. CASE Takes(s) \/ Written(s) \/ WriteBreaks(s) \/ Drains(s)
    BY <1>0, <1>7 DEF Takes, Written, WriteBreaks, Drains, ConsumerTo, DoneInv, TypeOK
  <1>8. CASE ConsumerLock(s)
    BY <1>0, <1>8 DEF ConsumerLock, ConsumerTo, DoneInv, TypeOK
  <1>9. CASE ConsumerCloses(s)
    BY <1>0, <1>9 DEF ConsumerCloses, ConsumerTo, DoneInv, TypeOK
  <1> QED
    BY <1>1, <1>2, <1>3, <1>4, <1>5, <1>6, <1>7, <1>8, <1>9 DEF OutStep, InGo, Consumer, Connection

LEMMA StepOut ==
    ASSUME TypeInv, CloserInv, \A r \in Outbound : OutInv(r), NEW s \in Outbound, [Next]_vars
    PROVE  OutInv(s)'
  <1>0. TypeOK /\ CancelsInbound /\ OutInv(s)
    BY DEF TypeInv
  <1>1. ASSUME NEW r \in Outbound, r # s, OutStep(r) PROVE OutInv(s)'
    <2>1. /\ pump'[s] = pump[s] /\ nwritten'[s] = nwritten[s] /\ dataCh'[s] = dataCh[s]
          /\ consumer'[s] = consumer[s] /\ out'[s] = out[s]
      BY <1>0, <1>1
         DEF OutStep, Handles, HandOver, PumpWrite, PumpEnds, InGo, WriteDone, WriteFails, CloseLock, Put, Closes, Take,
             Consumer, Connection, GetStream, Takes, Written, WriteBreaks, ConsumerLock, ConsumerCloses, SeesDone, Drains, Removes, ConsumerTo, TypeOK
    <2>2. /\ \A op \in {"write", "close"} : engine' = [op |-> op, on |-> s] => engine' = engine
          /\ handling' = s => handling = s
      BY <1>1, StreamsAssumption
         DEF OutStep, Handles, HandOver, PumpWrite, PumpEnds, InGo, WriteDone, WriteFails, CloseLock, Closes,
             Consumer, Connection, GetStream, Takes, Written, WriteBreaks, ConsumerLock, ConsumerCloses, SeesDone, Drains, Removes
    <2>3. /\ s \in closed' <=> s \in closed
          /\ s \in cancelled => s \in cancelled'
          /\ s \in inMap' => s \in inMap
          /\ life' = "open" => life = "open"
          /\ s \in doneCh' => s \in doneCh
      BY <1>1
         DEF OutStep, Handles, HandOver, PumpWrite, PumpEnds, InGo, WriteDone, WriteFails, CloseLock,
             Consumer, Connection, GetStream, Takes, Written, WriteBreaks, ConsumerLock, ConsumerCloses, SeesDone, Drains, Removes
    <2>4. OutFrame(s)
      BY <2>1, <2>2, <2>3 DEF OutFrame
    <2> QED
      BY <1>0, <2>4, OutFrameKeeps
  <1>2. CASE OutStep(s)
    BY <1>0, <1>2, StepFlow, StepEnd, StepDone DEF OutInv
  <1>3. ASSUME NEW r \in Inbound,
               Responds(r) \/ QueueHeaders(r) \/ Reader(r) \/ Abort(r) \/ CancelBody(r)
        PROVE  OutInv(s)'
    <2>1. r # s
      BY StreamsAssumption
    <2>2. /\ UNCHANGED outVars /\ handling' = handling /\ life' = life
          /\ closed' \subseteq closed \cup {r} /\ closed \subseteq closed'
          /\ cancelled \subseteq cancelled' /\ inMap' \subseteq inMap \cup {r}
          /\ engine' = engine \/ engine' = [op |-> "cancel", on |-> r]
      BY <1>3 DEF Responds, QueueHeaders, Reader, ReaderTop, ReaderEnding, Drained, BlockedCancelled, Reads,
                  ReadChunk, ReadEnd, Abort, CancelBody
    <2>3. OutFrame(s)
      BY <2>1, <2>2 DEF OutFrame
    <2> QED
      BY <1>0, <2>3, OutFrameKeeps
  <1>4. CASE DeliverHeaders \/ ProcessEvents
    <2>1. OutFrame(s)
      BY <1>4 DEF DeliverHeaders, ProcessEvents, OutFrame
    <2> QED
      BY <1>0, <2>1, OutFrameKeeps
  <1>5. CASE CancelLock
    <2>1. engine.on # s
      BY <1>0, <1>5, StreamsAssumption DEF CancelLock, CancelsInbound
    <2>2. OutFrame(s)
      BY <1>5, <2>1, StreamsAssumption DEF CancelLock, OutFrame
    <2> QED
      BY <1>0, <2>2, OutFrameKeeps
  <1>6. CASE CloseAll \/ Down \/ UNCHANGED vars
    <2>1. ASSUME CloseAll PROVE OutFrame(s)
      BY <2>1, CloseAllMarks DEF OutFrame
    <2>2. ASSUME Down \/ UNCHANGED vars PROVE OutFrame(s)
      BY <2>2 DEF Down, vars, OutFrame
    <2> QED
      BY <1>0, <1>6, <2>1, <2>2, OutFrameKeeps
  <1> QED
    BY <1>1, <1>2, <1>3, <1>4, <1>5, <1>6 DEF Next, OutStep

LEMMA StepCrash ==
    ASSUME TypeInv, CloserInv, OnlyCloseCrashes, \A r \in Outbound : OutInv(r), [Next]_vars
    PROVE  OnlyCloseCrashes'
  <1>1. ASSUME NEW s \in Outbound, OutStep(s) PROVE OnlyCloseCrashes'
    <2>1. crashed' => crashed \/ life' # "open"
      BY <1>1, StepDone
    <2>2. life' = life
      BY <1>1
         DEF OutStep, Handles, HandOver, PumpWrite, PumpEnds, InGo, WriteDone, WriteFails, CloseLock,
             Consumer, Connection, GetStream, Takes, Written, WriteBreaks, ConsumerLock, ConsumerCloses, SeesDone, Drains, Removes
    <2> QED
      BY <2>1, <2>2 DEF OnlyCloseCrashes
  <1>2. ASSUME NEW s \in Inbound,
               Responds(s) \/ QueueHeaders(s) \/ Reader(s) \/ Abort(s) \/ CancelBody(s)
        PROVE  OnlyCloseCrashes'
    BY <1>2 DEF Responds, QueueHeaders, Reader, ReaderTop, ReaderEnding, Drained, BlockedCancelled, Reads,
                ReadChunk, ReadEnd, Abort, CancelBody, OnlyCloseCrashes
  <1>3. CASE DeliverHeaders \/ ProcessEvents \/ CancelLock \/ Down \/ UNCHANGED vars
    BY <1>3 DEF DeliverHeaders, ProcessEvents, CancelLock, Down, vars, OnlyCloseCrashes
  <1>4. CASE CloseAll
    BY <1>4, CloseAllMarks DEF OnlyCloseCrashes
  <1> QED
    BY <1>1, <1>2, <1>3, <1>4 DEF Next, OutStep

(* Only closeAll touches what it is about to close. *)
LEMMA StepCloser == TypeInv /\ CloserInv /\ [Next]_vars => CloserInv'
  <1> SUFFICES ASSUME TypeInv, CloserInv, [Next]_vars PROVE CloserInv'
    OBVIOUS
  <1>1. ASSUME UNCHANGED <<life, closer>>, cancelled \subseteq cancelled' PROVE CloserInv'
    BY <1>1 DEF CloserInv
  <1>2. ASSUME NEW r \in Inbound,
               Responds(r) \/ QueueHeaders(r) \/ Reader(r) \/ Abort(r) \/ CancelBody(r)
        PROVE  CloserInv'
    BY <1>1, <1>2 DEF Responds, QueueHeaders, Reader, ReaderTop, ReaderEnding, Drained, BlockedCancelled, Reads,
                ReadChunk, ReadEnd, Abort, CancelBody
  <1>3. CASE DeliverHeaders \/ ProcessEvents \/ CancelLock \/ UNCHANGED vars
    BY <1>1, <1>3 DEF DeliverHeaders, ProcessEvents, CancelLock, vars
  <1>4. ASSUME NEW r \in Outbound, OutStep(r) PROVE CloserInv'
    BY <1>1, <1>4
       DEF OutStep, Handles, HandOver, PumpWrite, PumpEnds, InGo, WriteDone, WriteFails, CloseLock,
           Consumer, Connection, GetStream, Takes, Written, WriteBreaks, ConsumerLock, ConsumerCloses, SeesDone,
           Drains, Removes
  <1>5. CASE CloseAll
    BY <1>5, CloseAllMarks
  <1>6. CASE Down
    BY <1>6 DEF Down, Unlocked, CloserInv
  <1> QED
    BY <1>2, <1>3, <1>4, <1>5, <1>6 DEF Next, OutStep

-----------------------------------------------------------------------------
LEMMA InitIInv == Init => IInv
  BY InitType, InitIn, InitOut DEF IInv, TypeInv, CloserInv, Init, OnlyCloseCrashes

LEMMA StepIInv == IInv /\ [Next]_vars => IInv'
  <1> SUFFICES ASSUME IInv, [Next]_vars PROVE IInv'
    OBVIOUS
  <1>1. /\ TypeInv /\ CloserInv /\ OnlyCloseCrashes
        /\ \A s \in Inbound : InInv(s)
        /\ \A s \in Outbound : OutInv(s) /\ EndInv(s)
    BY DEF IInv, TypeInv, OutInv
  <1>2. TypeInv'
    BY <1>1, StepType
  <1>3. OnlyCloseCrashes'
    BY <1>1, StepCrash
  <1>4. ASSUME NEW s \in Inbound PROVE InInv(s)'
    BY <1>1, StepIn
  <1>5. ASSUME NEW s \in Outbound PROVE OutInv(s)'
    BY <1>1, StepOut
  <1>6. CloserInv'
    BY <1>1, StepCloser
  <1> QED
    BY <1>2, <1>3, <1>4, <1>5, <1>6 DEF IInv, TypeInv

(* The inductive invariant, which ties what JavaScript or the connection has *)
(* got to what has been read or written.                                     *)
THEOREM Invariance == Spec => []IInv
  <1> QED
    BY InitIInv, StepIInv, PTL DEF Spec

(* Every variable of Streams keeps its type. *)
THEOREM TypeCorrect == Spec => []TypeOK
  <1>1. IInv => TypeOK
    BY DEF IInv
  <1> QED
    BY <1>1, Invariance, PTL

(* The buffer of a body never has more than highWaterMark chunks and the end. *)
THEOREM BuffersBounded == Spec => []Backpressure
  <1>1. IInv => Backpressure
    <2> SUFFICES ASSUME IInv, NEW s \in Inbound
                 PROVE  Len(chunks[s]) <= HighWater + (IF reader[s] = "exit" THEN 1 ELSE 0)
      BY DEF Backpressure
    <2>1. CASE reader[s] = "exit"
      BY <2>1 DEF IInv, InInv
    <2>2. CASE reader[s] # "exit"
      <3>1. Len(chunks[s]) <= HighWater
        BY <2>2 DEF IInv, InInv
      <3>2. HighWater + 0 = HighWater
        BY StreamsAssumption
      <3> QED
        BY <2>2, <3>1, <3>2
    <2> QED
      BY <2>1, <2>2
  <1> QED
    BY <1>1, Invariance, PTL

(* A stream nobody works on any more stays listed only if it was cancelled, *)
(* or if its response came too late for its request.                        *)
THEOREM LingersOnlyCancelled == Spec => []OnlyCancelledLinger
  <1>1. IInv => OnlyCancelledLinger
    <2> SUFFICES ASSUME IInv, NEW s \in inMap, Abandoned(s) PROVE s \in cancelled \/ Unserved(s)
      BY DEF OnlyCancelledLinger
    <2>1. CASE s \in Inbound
      BY <2>1 DEF IInv, InInv, Abandoned
    <2>2. CASE s \notin Inbound
      <3>1. s \in Outbound
        BY <2>2 DEF IInv, TypeOK
      <3> QED
        BY <2>2, <3>1 DEF IInv, OutInv, EndInv, Abandoned, Unserved
    <2> QED
      BY <2>1, <2>2
  <1> QED
    BY <1>1, Invariance, PTL

(* doneCh is closed twice only if the runtime is closed meanwhile. *)
THEOREM CrashesOnlyOfClose == Spec => []OnlyCloseCrashes
  <1>1. IInv => OnlyCloseCrashes
    BY DEF IInv
  <1> QED
    BY <1>1, Invariance, PTL

-----------------------------------------------------------------------------
(* A wait can end.  For that: a reader that has not ended, and is not        *)
(* cancelled, reads a stream that is listed; and doneCh of a stream that is  *)
(* not cancelled is closed only when its pump has ended.                     *)
ReaderWay(s) ==
    s \notin cancelled =>
      /\ reader[s] \notin {"none", "exit"} => s \in inMap /\ s \notin closed
      /\ reader[s] = "blocked" => s \in drain \/ Len(chunks[s]) >= HighWater
      /\ reader[s] = "none" => s \notin closed

WriterWay(s) ==
    s \notin cancelled =>
      /\ s \in doneCh \/ consumer[s] \in {"drain", "drainLost"} => pump[s] = "ended"
      /\ consumer[s] \notin {"cancel", "closing"}
      /\ engine = [op |-> "write", on |-> s] => s \in inMap /\ consumer[s] \in {"none", "unserved", "handed", "loop", "writing"}

CancelMarks == engine.op = "cancel" => engine.on \in cancelled

WayInv ==
    /\ CancelMarks
    /\ \A s \in Inbound : ReaderWay(s)
    /\ \A s \in Outbound : WriterWay(s)

LEMMA StepReaderWay ==
    ASSUME IInv, WayInv, [Next]_vars, NEW s \in Inbound PROVE ReaderWay(s)'
  <1>0. TypeOK /\ CancelsInbound /\ InInv(s) /\ ReaderWay(s) /\ CancelMarks /\ HighWater \in Nat /\ HighWater >= 1
    BY StreamsAssumption DEF IInv, WayInv
  <1>a. Len(chunks[s]) \in Nat
    BY <1>0, InTypes
  <1>1. ASSUME reader'[s] = reader[s], chunks'[s] = chunks[s], s \in inMap => s \in inMap' \/ s \in cancelled',
               s \in drain => s \in drain', cancelled \subseteq cancelled',
               s \in closed' => s \in closed \/ s \in cancelled'
        PROVE  ReaderWay(s)'
    BY <1>0, <1>1 DEF ReaderWay
  <1>2. ASSUME NEW r \in Inbound, Responds(r) \/ QueueHeaders(r) \/ Reader(r) PROVE ReaderWay(s)'
    <2>1. CASE r # s
      <3>1. /\ reader'[s] = reader[s] /\ chunks'[s] = chunks[s]
            /\ cancelled' = cancelled
            /\ s \in inMap => s \in inMap'
            /\ s \in drain => s \in drain'
            /\ s \in closed' => s \in closed
        BY <1>0, <1>2, <2>1
           DEF Responds, QueueHeaders, Reader, ReaderTop, ReaderEnding, Drained, BlockedCancelled,
               Reads, ReadChunk, ReadEnd, ReaderTo, TypeOK
      <3> QED
        BY <1>1, <3>1
    <2>2. CASE r = s /\ QueueHeaders(r)
      BY <1>1, <2>2 DEF QueueHeaders
    <2>3. CASE r = s /\ Responds(r)
      BY <1>0, <2>3 DEF Responds, ReaderWay, InInv, TypeOK
    <2>4. CASE r = s /\ (ReaderEnding(r) \/ BlockedCancelled(r) \/ ReadEnd(r))
      BY <1>0, <2>4 DEF ReaderEnding, BlockedCancelled, ReadEnd, ReaderTo, ReaderWay, TypeOK
    <2>5. CASE r = s /\ (ReaderTop(r) \/ Drained(r))
      <3>1. /\ reader[s] \in {"top", "blocked"}
            /\ UNCHANGED <<inMap, cancelled, closed, chunks>>
            /\ \/ reader'[s] \in {"read", "ending"}
               \/ reader'[s] = "blocked" /\ ~(Len(chunks[s]) < HighWater)
        BY <1>0, <2>5 DEF ReaderTop, Drained, ReaderTo, TypeOK
      <3>2. ~(Len(chunks[s]) < HighWater) => Len(chunks[s]) >= HighWater
        BY <1>0, <1>a
      <3> QED
        BY <1>0, <3>1, <3>2 DEF ReaderWay
    <2>6. CASE r = s /\ ReadChunk(r)
      BY <1>0, <2>6 DEF ReadChunk, ReaderTo, ReaderWay, TypeOK
    <2> QED
      BY <1>2, <2>1, <2>2, <2>3, <2>4, <2>5, <2>6 DEF Reader, Reads
  <1>3. ASSUME NEW r \in Inbound, Abort(r) \/ CancelBody(r) PROVE ReaderWay(s)'
    BY <1>1, <1>3 DEF Abort, CancelBody
  <1>4. CASE DeliverHeaders
    BY <1>1, <1>4 DEF DeliverHeaders
  <1>5. CASE ProcessEvents
    <2>1. /\ reader' = reader /\ cancelled' = cancelled /\ closed' = closed /\ drain \subseteq drain'
          /\ s \in inMap /\ s \notin closed => s \in inMap'
          /\ chunks'[s] = chunks[s] \/ s \in drain'
      BY <1>5 DEF ProcessEvents
    <2> QED
      BY <1>0, <2>1 DEF ReaderWay
  <1>6. CASE CancelLock
    BY <1>0, <1>1, <1>6 DEF CancelLock, CancelMarks
  <1>7. ASSUME NEW r \in Outbound, OutStep(r) PROVE ReaderWay(s)'
    <2>1. r # s
      BY StreamsAssumption
    <2>2. /\ UNCHANGED inVars /\ inMap \subseteq inMap' \cup {r} /\ cancelled \subseteq cancelled'
          /\ closed' \subseteq closed \cup {r}
      BY <1>7 DEF OutStep, Handles, HandOver, PumpWrite, PumpEnds, InGo, WriteDone, WriteFails, CloseLock,
             Consumer, Connection, GetStream, Takes, Written, WriteBreaks, ConsumerLock, ConsumerCloses, SeesDone, Drains, Removes
    <2> QED
      BY <1>1, <2>1, <2>2
  <1>8. CASE CloseAll \/ Down \/ UNCHANGED vars
    <2>1. CASE CloseAll
      <3>1. TypeInv /\ CloserInv
        BY DEF IInv, TypeInv
      <3> QED
        BY <1>1, <2>1, <3>1, CloseAllMarks
    <2>2. CASE Down \/ UNCHANGED vars
      BY <1>1, <2>2 DEF Down, vars
    <2> QED
      BY <1>8, <2>1, <2>2
  <1> QED
    BY <1>2, <1>3, <1>4, <1>5, <1>6, <1>7, <1>8 DEF Next, OutStep

LEMMA StepWriterWay ==
    ASSUME IInv, WayInv, [Next]_vars, NEW s \in Outbound PROVE WriterWay(s)'
  <1>0. TypeOK /\ CancelsInbound /\ EndInv(s) /\ WriterWay(s)
    BY DEF IInv, WayInv, OutInv
  <1> USE StreamsAssumption
  <1>1. ASSUME consumer'[s] = consumer[s], pump'[s] = pump[s],
               s \in inMap => s \in inMap' \/ s \in cancelled', cancelled \subseteq cancelled',
               s \in doneCh' => s \in doneCh \/ s \in cancelled',
               engine' = [op |-> "write", on |-> s] => engine' = engine
        PROVE  WriterWay(s)'
    BY <1>0, <1>1 DEF WriterWay
  <1>2. ASSUME NEW r \in Outbound, r # s, OutStep(r) PROVE WriterWay(s)'
    <2>1. consumer'[s] = consumer[s] /\ pump'[s] = pump[s]
      BY <1>0, <1>2
         DEF OutStep, Handles, HandOver, PumpWrite, PumpEnds, InGo, WriteDone, WriteFails, CloseLock, Put, Closes, Take,
             Consumer, Connection, GetStream, Takes, Written, WriteBreaks, ConsumerLock, ConsumerCloses, SeesDone, Drains, Removes, ConsumerTo, TypeOK
    <2>2. engine' = [op |-> "write", on |-> s] => engine' = engine
      BY <1>2
         DEF OutStep, Handles, HandOver, PumpWrite, PumpEnds, InGo, WriteDone, WriteFails, CloseLock, Closes,
             Consumer, Connection, GetStream, Takes, Written, WriteBreaks, ConsumerLock, ConsumerCloses, SeesDone, Drains, Removes
    <2>3. /\ cancelled \subseteq cancelled'
          /\ s \in inMap => s \in inMap'
          /\ s \in doneCh' => s \in doneCh
      BY <1>2
         DEF OutStep, Handles, HandOver, PumpWrite, PumpEnds, InGo, WriteDone, WriteFails, CloseLock,
             Consumer, Connection, GetStream, Takes, Written, WriteBreaks, ConsumerLock, ConsumerCloses, SeesDone, Drains, Removes
    <2> QED
      BY <1>1, <2>1, <2>2, <2>3
  <1>3. CASE Handles(s)
    BY <1>0, <1>3 DEF Handles, JsFree, Tick, WriterWay, EndInv, TypeOK
  <1>4. CASE HandOver(s)
    BY <1>0, <1>4 DEF HandOver, JsFree, WriterWay, EndInv, TypeOK
  <1>5. CASE PumpWrite(s)
    <2>1. /\ pump[s] = "pumping" /\ UNCHANGED <<inMap, cancelled, doneCh, consumer>>
          /\ engine' # [op |-> "write", on |-> s] \/ s \in inMap
          /\ pump'[s] \in {"pumping", "ended"} /\ consumer'[s] = consumer[s]
      BY <1>0, <1>5 DEF PumpWrite, Closes, JsFree, TypeOK
    <2>2. consumer[s] \in {"none", "unserved", "handed", "loop", "writing", "cancel", "closing", "failed",
                           "drain", "drainLost", "done", "lost"}
      BY <1>0 DEF TypeOK
    <2> QED
      BY <1>0, <2>1, <2>2 DEF WriterWay, EndInv
  <1>6. CASE WriteDone(s) \/ WriteFails(s) \/ PumpEnds(s)
    <2>1. /\ pump'[s] \in {pump[s], "ended"} /\ UNCHANGED <<inMap, cancelled, doneCh, consumer>>
          /\ engine' # [op |-> "write", on |-> s]
      BY <1>0, <1>6 DEF WriteDone, WriteFails, PumpEnds, Closes, TypeOK
    <2> QED
      BY <1>0, <2>1 DEF WriterWay
  <1>7. CASE CloseLock(s)
    <2>1. /\ pump[s] = "ended" /\ UNCHANGED <<inMap, cancelled, pump, consumer>>
          /\ engine' # [op |-> "write", on |-> s]
      BY <1>0, <1>7 DEF CloseLock, EndInv
    <2> QED
      BY <1>0, <2>1 DEF WriterWay
  <1>8. CASE Consumer(s) \/ Connection(s)
    <2>1. UNCHANGED <<engine, pump>> /\ cancelled \subseteq cancelled'
      BY <1>8 DEF Consumer, Connection, GetStream, Takes, Written, WriteBreaks, ConsumerLock, ConsumerCloses, SeesDone, Drains, Removes
    <2>2. CASE GetStream(s) \/ Takes(s) \/ Written(s) \/ WriteBreaks(s)
      <3>1. /\ consumer[s] \in {"handed", "loop", "writing"} /\ UNCHANGED <<inMap, doneCh>>
            /\ \/ consumer'[s] \in {"loop", "writing"}
               \/ consumer'[s] = "failed" /\ s \notin inMap
               \/ consumer'[s] = "cancel" /\ s \in cancelled'
        BY <1>0, <2>2 DEF GetStream, Takes, Written, WriteBreaks, ConsumerTo, TypeOK
      <3> QED
        BY <1>0, <2>1, <3>1 DEF WriterWay
    <2>3. CASE ConsumerLock(s) \/ ConsumerCloses(s)
      <3>1. consumer[s] \in {"cancel", "closing"}
        BY <2>3 DEF ConsumerLock, ConsumerCloses
      <3> QED
        BY <1>0, <2>1, <3>1 DEF WriterWay
    <2>4. CASE SeesDone(s) \/ Drains(s)
      <3>1. /\ s \in doneCh \/ consumer[s] \in {"drain", "drainLost"}
            /\ consumer'[s] \in {"drain", "drainLost"} /\ UNCHANGED <<inMap, cancelled, doneCh>>
        BY <1>0, <2>4 DEF SeesDone, Drains, ConsumerTo, TypeOK
      <3>2. s \notin cancelled => pump[s] = "ended"
        BY <1>0, <3>1 DEF WriterWay
      <3> QED
        BY <1>0, <2>1, <3>1, <3>2 DEF WriterWay, EndInv
    <2>5. CASE Removes(s)
      <3>1. /\ consumer[s] \in {"drain", "drainLost"} /\ consumer'[s] \in {"done", "lost"} /\ UNCHANGED doneCh
        BY <1>0, <2>5 DEF Removes, ConsumerTo, TypeOK
      <3>2. s \notin cancelled => pump[s] = "ended"
        BY <1>0, <3>1 DEF WriterWay
      <3> QED
        BY <1>0, <2>1, <3>1, <3>2 DEF WriterWay, EndInv
    <2> QED
      BY <1>8, <2>2, <2>3, <2>4, <2>5 DEF Consumer, Connection
  <1>9. ASSUME NEW r \in Inbound,
               Responds(r) \/ QueueHeaders(r) \/ Reader(r) \/ Abort(r) \/ CancelBody(r)
        PROVE  WriterWay(s)'
    <2>1. /\ UNCHANGED outVars /\ inMap \subseteq inMap' /\ cancelled \subseteq cancelled'
          /\ engine' = engine \/ engine' = [op |-> "cancel", on |-> r]
      BY <1>9 DEF Responds, QueueHeaders, Reader, ReaderTop, ReaderEnding, Drained, BlockedCancelled, Reads,
                  ReadChunk, ReadEnd, Abort, CancelBody
    <2> QED
      BY <1>1, <2>1
  <1>10. CASE DeliverHeaders \/ ProcessEvents
    <2>1. /\ UNCHANGED outVars /\ inMap \ Inbound \subseteq inMap' /\ UNCHANGED <<engine, cancelled>>
      BY <1>10 DEF DeliverHeaders, ProcessEvents
    <2> QED
      BY <1>1, <2>1
  <1>11. CASE CancelLock
    BY <1>1, <1>11 DEF CancelLock
  <1>12. CASE CloseAll
    <2>1. TypeInv /\ CloserInv
      BY DEF IInv, TypeInv
    <2> QED
      BY <1>1, <1>12, <2>1, CloseAllMarks
  <1>13. CASE Down \/ UNCHANGED vars
    BY <1>1, <1>13 DEF Down, vars
  <1> QED
    BY <1>2, <1>3, <1>4, <1>5, <1>6, <1>7, <1>8, <1>9, <1>10, <1>11, <1>12, <1>13 DEF Next, OutStep, InGo

LEMMA StepCancelMarks == IInv /\ CancelMarks /\ [Next]_vars => CancelMarks'
  <1> SUFFICES ASSUME IInv, CancelMarks, [Next]_vars PROVE CancelMarks'
    OBVIOUS
  <1>1. ASSUME UNCHANGED engine, cancelled \subseteq cancelled' PROVE CancelMarks'
    BY <1>1 DEF CancelMarks
  <1>2. ASSUME engine'.op # "cancel" PROVE CancelMarks'
    BY <1>2 DEF CancelMarks
  <1>3. ASSUME NEW r \in Inbound, Responds(r) \/ QueueHeaders(r) \/ Reader(r) \/ Abort(r) PROVE CancelMarks'
    BY <1>1, <1>3 DEF Responds, QueueHeaders, Reader, ReaderTop, ReaderEnding, Drained, BlockedCancelled, Reads,
                ReadChunk, ReadEnd, Abort
  <1>4. ASSUME NEW r \in Inbound, CancelBody(r) PROVE CancelMarks'
    BY <1>1, <1>4 DEF CancelBody, CancelMarks
  <1>5. CASE DeliverHeaders \/ ProcessEvents \/ CloseAll \/ Down \/ UNCHANGED vars
    BY <1>1, <1>5 DEF DeliverHeaders, ProcessEvents, CloseAll, CloseAllBegins, CloseAllCancels, CloseAllCloses,
                      CloseAllEnds, Down, vars
  <1>6. CASE CancelLock
    BY <1>2, <1>6 DEF CancelLock
  <1>7. ASSUME NEW r \in Outbound, OutStep(r) PROVE CancelMarks'
    BY <1>1, <1>2, <1>7
       DEF OutStep, Handles, HandOver, PumpWrite, PumpEnds, InGo, WriteDone, WriteFails, CloseLock, Closes,
           Consumer, Connection, GetStream, Takes, Written, WriteBreaks, ConsumerLock, ConsumerCloses, SeesDone, Drains, Removes
  <1> QED
    BY <1>3, <1>4, <1>5, <1>6, <1>7 DEF Next, OutStep

(* A reader that waits for room, and the engine goroutine in a write to a    *)
(* full channel whose response an HTTP handler has, have somebody left who   *)
(* can free them, or have been cancelled.  A write of a response no handler  *)
(* has is not covered: that one waits until the runtime is closed.           *)
THEOREM WaitsHaveAnEnd == Spec => []WaitsCanEnd
  <1>1. Init => WayInv
    BY DEF Init, WayInv, CancelMarks, ReaderWay, WriterWay
  <1>2. IInv /\ WayInv /\ [Next]_vars => WayInv'
    BY StepReaderWay, StepWriterWay, StepCancelMarks DEF WayInv
  <1>3. WayInv => WaitsCanEnd
    BY DEF WayInv, ReaderWay, WriterWay, WaitsCanEnd, Served
  <1> QED
    BY <1>1, <1>2, <1>3, Invariance, PTL DEF Spec

-----------------------------------------------------------------------------
(* Streams implements Pipe. *)

Firsts(n) == PipeOf!FirstOnes(n)

LEMMA FirstsFacts ==
    ASSUME NEW n \in Nat
    PROVE  Firsts(n) \in Seq(Nat) /\ Len(Firsts(n)) = n /\ \A i \in 1..n : Firsts(n)[i] = i
  BY DEF Firsts, PipeOf!FirstOnes

(* What a slice from the beginning is, without and with its end. *)
LEMMA SliceFirsts ==
    ASSUME NEW q \in Seq(Nat), NEW n \in Nat, Slice(q, 0, n)
    PROVE  /\ Len(q) <= n => q = Firsts(Len(q)) /\ (q # <<>> => q[Len(q)] # End)
           /\ Len(q) = n + 1 => q # <<>> /\ q[Len(q)] = End /\ SubSeq(q, 1, Len(q) - 1) = Firsts(n)
  <1>1. Len(q) \in Nat /\ DOMAIN q = 1..Len(q) /\ (q = <<>> <=> Len(q) = 0)
    OBVIOUS
  <1>2. ASSUME NEW i \in 1..Len(q) PROVE q[i] = Item(i, n)
    <2>1. i \in DOMAIN q /\ 0 + i = i
      BY <1>1
    <2> QED
      BY <2>1 DEF Slice
  <1>3. \A i \in 1..Len(q) : i <= n => q[i] = i
    BY <1>2 DEF Item
  <1>4. ASSUME Len(q) <= n PROVE q = Firsts(Len(q)) /\ (q # <<>> => q[Len(q)] # End)
    <2>1. \A i \in 1..Len(q) : i <= n
      BY <1>1, <1>4
    <2>2. \A i \in 1..Len(q) : q[i] = Firsts(Len(q))[i]
      <3>1. \A i \in 1..Len(q) : Firsts(Len(q))[i] = i
        BY <1>1, FirstsFacts
      <3>2. \A i \in 1..Len(q) : q[i] = i
        BY <1>3, <2>1
      <3> QED
        BY <3>1, <3>2
    <2>3. Firsts(Len(q)) \in Seq(Nat) /\ Len(Firsts(Len(q))) = Len(q)
      BY <1>1, FirstsFacts
    <2>4. q = Firsts(Len(q))
      BY <2>2, <2>3, SeqEqual
    <2>5. q # <<>> => Len(q) \in 1..Len(q) /\ Len(q) # 0
      BY <1>1
    <2> QED
      BY <1>3, <2>1, <2>4, <2>5 DEF End
  <1>5. ASSUME Len(q) = n + 1
        PROVE  q # <<>> /\ q[Len(q)] = End /\ SubSeq(q, 1, Len(q) - 1) = Firsts(n)
    <2>1. q # <<>> /\ Len(q) \in 1..Len(q) /\ ~(Len(q) <= n) /\ Len(q) - 1 = n
      BY <1>1, <1>5
    <2>2. q[Len(q)] = End
      BY <1>2, <2>1 DEF Item
    <2> DEFINE t == SubSeq(q, 1, n)
    <2>3. t \in Seq(Nat) /\ Len(t) = n /\ \A i \in 1..n : t[i] = q[i]
      BY <1>1, <1>5
    <2> HIDE DEF t
    <2>4. \A i \in 1..n : i \in 1..Len(q) /\ i <= n
      BY <1>1, <1>5
    <2>5. \A i \in 1..n : t[i] = Firsts(n)[i]
      BY <1>3, <2>3, <2>4, FirstsFacts
    <2>6. Firsts(n) \in Seq(Nat) /\ Len(Firsts(n)) = n
      BY FirstsFacts
    <2>7. t = Firsts(n)
      BY <2>3, <2>5, <2>6, SeqEqual
    <2> QED
      BY <2>1, <2>2, <2>7 DEF t
  <1> QED
    BY <1>4, <1>5

(* What Pipe sees of a stream: how much has come out, and whether it is over. *)
Size(s) ==
    IF s \in Outbound THEN Len(out[s])
    ELSE IF Len(given[s]) <= nread[s] THEN Len(given[s]) ELSE nread[s]

SeenOf(s) ==
    /\ sent[s] \in Nat /\ Size(s) \in Nat /\ Size(s) <= sent[s]
    /\ got[s] = Firsts(Size(s)) /\ Len(got[s]) = Size(s)
    /\ s \in ended => Size(s) = sent[s]
    /\ s \in Inbound => (s \in ended <=> Len(given[s]) = nread[s] + 1)
    /\ s \in Outbound => (s \in ended <=> consumer[s] = "done" /\ s \in closed)

AllSeen == \A s \in AllStreams : SeenOf(s)

LEMMA Seen == IInv => AllSeen
  <1> SUFFICES ASSUME IInv, NEW s \in AllStreams PROVE SeenOf(s)
    BY DEF AllSeen
  <1>0. TypeOK
    BY DEF IInv
  <1>1. CASE s \in Inbound
    <2>1. s \notin Outbound /\ sent[s] = nread[s] /\ got[s] = Data(s) /\ (s \in ended <=> Told(s))
      BY <1>1, StreamsAssumption DEF AllStreams, sent, got, ended
    <2>2. /\ nread[s] \in Nat /\ given[s] \in Seq(Nat) /\ Len(given[s]) \in Nat
      BY <1>0, <1>1, InTypes
    <2>3. Slice(given[s], 0, nread[s]) /\ Len(given[s]) <= nread[s] + 1
      BY <1>1 DEF IInv, InInv
    <2>4. CASE Len(given[s]) <= nread[s]
      <3>1. given[s] = Firsts(Len(given[s])) /\ ~Told(s)
        BY <2>2, <2>3, <2>4, SliceFirsts DEF Told
      <3>2. Size(s) = Len(given[s]) /\ got[s] = given[s]
        BY <2>1, <2>4, <3>1 DEF Size, Data
      <3>3. Len(given[s]) # nread[s] + 1
        BY <2>2, <2>4
      <3> QED
        BY <1>1, <2>1, <2>2, <2>4, <3>1, <3>2, <3>3 DEF SeenOf
    <2>5. CASE Len(given[s]) = nread[s] + 1
      <3>1. Told(s) /\ SubSeq(given[s], 1, Len(given[s]) - 1) = Firsts(nread[s])
        BY <2>2, <2>3, <2>5, SliceFirsts DEF Told
      <3>2. ~(Len(given[s]) <= nread[s]) /\ nread[s] <= nread[s]
        BY <2>2, <2>5
      <3>3. Size(s) = nread[s] /\ got[s] = Firsts(nread[s])
        BY <2>1, <3>1, <3>2 DEF Size, Data
      <3>4. Len(Firsts(nread[s])) = nread[s]
        BY <2>2, FirstsFacts
      <3> QED
        BY <1>1, <2>1, <2>2, <2>5, <3>1, <3>2, <3>3, <3>4 DEF SeenOf
    <2> QED
      BY <2>2, <2>3, <2>4, <2>5
  <1>2. CASE s \in Outbound
    <2>1. /\ s \notin Inbound /\ sent[s] = nwritten[s] /\ got[s] = out[s] /\ Size(s) = Len(out[s])
          /\ s \in ended <=> consumer[s] = "done" /\ s \in closed
      BY <1>2, StreamsAssumption DEF AllStreams, sent, got, ended, Size
    <2>2. nwritten[s] \in Nat /\ out[s] \in Seq(Nat) /\ Len(out[s]) \in Nat
      BY <1>0, <1>2, OutTypes
    <2>3. /\ Slice(out[s], 0, nwritten[s]) /\ Len(out[s]) <= nwritten[s]
          /\ consumer[s] = "done" /\ s \in closed => Len(out[s]) = nwritten[s]
      BY <1>2 DEF IInv, OutInv, FlowInv, EndInv
    <2>4. out[s] = Firsts(Len(out[s]))
      BY <2>2, <2>3, SliceFirsts
    <2> QED
      BY <1>2, <2>1, <2>2, <2>3, <2>4 DEF SeenOf
  <1> QED
    BY <1>1, <1>2 DEF AllStreams

LEMMA SeenNext == IInv' => AllSeen'
  BY Seen, PTL

(* A chunk is read. *)
LEMMA ReadSends ==
    ASSUME IInv, NEW s \in Inbound, ReadChunk(s)
    PROVE  PipeOf!Send(s)
  <1>0. TypeOK /\ s \in AllStreams /\ s \notin Outbound
    BY StreamsAssumption DEF IInv, AllStreams
  <1>1. nread' = [nread EXCEPT ![s] = @ + 1] /\ UNCHANGED <<given, out, nwritten, consumer, closed>>
    BY DEF ReadChunk
  <1>2. s \notin ended
    <2>1. reader[s] = "read"
      BY DEF ReadChunk
    <2>2. Len(given[s]) # nread[s] + 1
      BY <2>1 DEF IInv, InInv
    <2> QED
      BY <1>0, <2>2, Seen DEF AllSeen, SeenOf
  <1>3. got' = got /\ ended' = ended
    BY <1>1 DEF got, ended, Data, Told
  <1>4. sent' = [sent EXCEPT ![s] = @ + 1]
    BY <1>0, <1>1 DEF sent, TypeOK
  <1> QED
    BY <1>2, <1>3, <1>4 DEF PipeOf!Send

(* A chunk is written. *)
LEMMA PutSends ==
    ASSUME IInv, NEW s \in Outbound, Put(s), pump[s] = "pumping",
           UNCHANGED <<given, out, nread, consumer, closed>>
    PROVE  PipeOf!Send(s)
  <1>0. TypeOK /\ s \in AllStreams /\ s \notin Inbound
    BY StreamsAssumption DEF IInv, AllStreams
  <1>1. nwritten' = [nwritten EXCEPT ![s] = @ + 1]
    BY DEF Put
  <1>2. s \notin ended
    BY <1>0 DEF IInv, OutInv, EndInv, ended
  <1>3. got' = got /\ ended' = ended
    <2>1. given' = given /\ out' = out /\ consumer' = consumer /\ closed' = closed
      OBVIOUS
    <2>2. \A r : Told(r)' = Told(r) /\ Data(r)' = Data(r)
      BY <2>1 DEF Told, Data
    <2>3. got' = got
      BY <2>1, <2>2 DEF got
    <2>4. ended' = ended
      BY <2>1, <2>2 DEF ended
    <2> QED
      BY <2>3, <2>4
  <1>4. sent' = [sent EXCEPT ![s] = @ + 1]
    <2>1. nread' = nread
      OBVIOUS
    <2> QED
      BY <1>0, <1>1, <2>1 DEF sent, TypeOK, AllStreams
  <1> QED
    BY <1>2, <1>3, <1>4 DEF PipeOf!Send

(* Every other step delivers chunks, if it does anything that Pipe sees. *)
Delivers ==
    /\ nread' = nread /\ nwritten' = nwritten
    /\ \A s \in Inbound : Len(given[s]) <= Len(given'[s])
    /\ \A s \in Outbound :
         /\ Len(out[s]) <= Len(out'[s])
         /\ consumer[s] = "done" => consumer'[s] = "done" /\ out'[s] = out[s]
         /\ s \in closed => s \in closed'

LEMMA OtherSteps ==
    ASSUME IInv, [Next]_vars
    PROVE  \/ \E s \in Inbound : ReadChunk(s)
           \/ \E s \in Outbound : /\ Put(s) /\ pump[s] = "pumping"
                                  /\ UNCHANGED <<given, out, nread, consumer, closed>>
           \/ Delivers
  <1>0. /\ TypeOK
        /\ \A s \in Inbound : Len(given[s]) \in Nat /\ Len(given[s]) <= Len(given[s])
        /\ \A s \in Outbound : Len(out[s]) \in Nat /\ Len(out[s]) <= Len(out[s])
    BY InTypes, OutTypes DEF IInv
  <1>1. ASSUME UNCHANGED <<nread, given, nwritten, out, consumer>>, closed \subseteq closed'
        PROVE  Delivers
    BY <1>0, <1>1 DEF Delivers
  <1>2. ASSUME NEW s \in Inbound, Responds(s) \/ QueueHeaders(s) \/ Abort(s) \/ CancelBody(s)
        PROVE  Delivers
    BY <1>1, <1>2 DEF Responds, QueueHeaders, Abort, CancelBody
  <1>3. ASSUME NEW s \in Inbound, Reader(s), ~ReadChunk(s)
        PROVE  Delivers
    BY <1>1, <1>3 DEF Reader, ReaderTop, ReaderEnding, Drained, BlockedCancelled, Reads, ReadEnd
  <1>4. ASSUME DeliverHeaders \/ ProcessEvents PROVE Delivers
    <2>1. UNCHANGED <<nread, nwritten, out, consumer, closed>>
      BY <1>4 DEF DeliverHeaders, ProcessEvents
    <2>2. ASSUME NEW s \in Inbound PROVE Len(given[s]) <= Len(given'[s])
      <3>1. \/ given'[s] = given[s]
            \/ s \in pending /\ given'[s] = given[s] \o Cut(buffered[s])
            \/ s \in controllers /\ given'[s] = given[s] \o Cut(chunks[s])
        BY <1>4 DEF DeliverHeaders, ProcessEvents
      <3>2. /\ given[s] \in Seq(Nat) /\ buffered[s] \in Seq(Nat) /\ chunks[s] \in Seq(Nat)
            /\ InInv(s)
        BY <1>0, InTypes DEF IInv
      <3>3. \A q \in Seq(Nat) : Len(given[s]) <= Len(given[s] \o q)
        <4>1. \A q \in Seq(Nat) : Len(q) \in Nat /\ Len(given[s] \o q) = Len(given[s]) + Len(q)
          BY <3>2, ConcatSlice
        <4>2. \A a, b \in Nat : a <= a + b
          OBVIOUS
        <4> QED
          BY <1>0, <4>1, <4>2
      <3>4. /\ s \in pending => Cut(buffered[s]) = buffered[s]
            /\ s \in controllers => Cut(chunks[s]) = chunks[s]
        BY <1>0, <3>2, CutAll
      <3> QED
        BY <1>0, <3>1, <3>2, <3>3, <3>4
    <2> QED
      BY <1>0, <2>1, <2>2 DEF Delivers
  <1>5. ASSUME CancelLock \/ CloseAll \/ Down \/ UNCHANGED vars PROVE Delivers
    BY <1>1, <1>5 DEF CancelLock, CloseAll, CloseAllBegins, CloseAllCancels, CloseAllCloses, CloseAllEnds,
                      Down, vars
  <1>6. ASSUME NEW s \in Outbound, PumpWrite(s) \/ WriteDone(s)
        PROVE  \/ /\ Put(s) /\ pump[s] = "pumping"
                  /\ UNCHANGED <<given, out, nread, consumer, closed>>
               \/ Delivers
    <2>1. engine = [op |-> "write", on |-> s] => pump[s] = "pumping"
      BY DEF IInv, OutInv, EndInv
    <2>2. UNCHANGED <<given, out, nread, consumer, closed>>
      BY <1>6 DEF PumpWrite, WriteDone
    <2>3. \/ Put(s) /\ pump[s] = "pumping"
          \/ nwritten' = nwritten
      BY <1>6, <2>1 DEF PumpWrite, WriteDone
    <2> QED
      BY <1>1, <2>2, <2>3
  <1>7. ASSUME NEW s \in Outbound, Handles(s) \/ PumpEnds(s) \/ WriteFails(s) \/ CloseLock(s)
        PROVE  Delivers
    BY <1>1, <1>7 DEF Handles, PumpEnds, WriteFails, CloseLock
  <1>8. ASSUME NEW s \in Outbound, HandOver(s) PROVE Delivers
    <2>1. consumer[s] = "none"
      BY <1>8 DEF HandOver, IInv, OutInv, EndInv
    <2>2. \A r \in Outbound : consumer[r] = "done" => consumer'[r] = "done"
      BY <1>0, <1>8, <2>1 DEF HandOver, TypeOK
    <2> QED
      BY <1>0, <1>8, <2>2 DEF HandOver, Delivers
  <1>9. ASSUME NEW s \in Outbound, Consumer(s) \/ Connection(s) PROVE Delivers
    <2>1. consumer[s] # "done"
      BY <1>9 DEF Consumer, Connection, GetStream, Takes, Written, WriteBreaks, ConsumerLock, ConsumerCloses, SeesDone, Drains, Removes
    <2>2. UNCHANGED <<nread, given, nwritten>> /\ closed \subseteq closed'
      BY <1>9 DEF Consumer, Connection, GetStream, Takes, Written, WriteBreaks, ConsumerLock, ConsumerCloses, SeesDone, Drains, Removes
    <2>3. \A r \in Outbound \ {s} : consumer'[r] = consumer[r]
      BY <1>0, <1>9
         DEF Consumer, Connection, GetStream, Takes, Written, WriteBreaks, ConsumerLock, ConsumerCloses, SeesDone, Drains, Removes, ConsumerTo, TypeOK
    <2>4. \/ out' = out
          \/ /\ dataCh[s] # <<>>
             /\ out' = [out EXCEPT ![s] = Append(@, Head(dataCh[s]))]
      BY <1>9 DEF Consumer, Connection, GetStream, Takes, Written, WriteBreaks, ConsumerLock, ConsumerCloses, SeesDone, Drains, Removes, Take
    <2>5. \A r \in Outbound : consumer[r] = "done" => r # s /\ consumer'[r] = "done" /\ out'[r] = out[r]
      BY <1>0, <2>1, <2>3, <2>4 DEF TypeOK
    <2>6. ASSUME NEW r \in Outbound PROVE Len(out[r]) <= Len(out'[r])
      <3>1. CASE out'[r] = out[r]
        BY <1>0, <3>1
      <3>2. CASE out'[r] # out[r]
        <4>1. r = s /\ dataCh[s] # <<>> /\ out'[s] = Append(out[s], Head(dataCh[s]))
          BY <1>0, <2>4, <3>2 DEF TypeOK
        <4>2. dataCh[s] \in Seq(Nat) /\ out[s] \in Seq(Nat)
          BY <1>0, OutTypes
        <4>3. Head(dataCh[s]) \in Nat
          BY <4>1, <4>2, TailSlice
        <4>4. Len(out'[s]) = Len(out[s]) + 1
          BY <4>1, <4>2, <4>3, AppendSlice
        <4> QED
          BY <1>0, <4>1, <4>4
      <3> QED
        BY <3>1, <3>2
    <2> QED
      BY <2>2, <2>5, <2>6 DEF Delivers
  <1> QED
    BY <1>2, <1>3, <1>4, <1>5, <1>6, <1>7, <1>8, <1>9 DEF Next, InGo

LEMMA DeliveryReceives ==
    ASSUME IInv, IInv', Delivers
    PROVE  \E S, E \in SUBSET AllStreams : PipeOf!Receive(S, E)
  <1> DEFINE S == {s \in AllStreams : got'[s] # got[s]}
             E == ended' \ ended
  <1>1. sent' = sent
    BY DEF Delivers, sent
  <1>2. ended \subseteq AllStreams /\ ended' \subseteq AllStreams
    BY DEF ended, AllStreams
  <1>3. ASSUME NEW s \in AllStreams
        PROVE  /\ sent[s] \in Nat /\ Size(s) \in Nat /\ Size(s) <= sent[s]
               /\ got[s] = Firsts(Size(s)) /\ Len(got[s]) = Size(s)
               /\ s \in ended => Size(s) = sent[s]
    BY Seen DEF AllSeen, SeenOf
  <1>4. ASSUME NEW s \in AllStreams
        PROVE  /\ Size(s)' \in Nat /\ Size(s)' <= sent[s]
               /\ got'[s] = Firsts(Size(s)') /\ Len(got'[s]) = Size(s)'
               /\ s \in ended' => Size(s)' = sent[s]
    <2>1. /\ Size(s)' \in Nat /\ Size(s)' <= sent'[s]
          /\ got'[s] = Firsts(Size(s)') /\ Len(got'[s]) = Size(s)'
          /\ s \in ended' => Size(s)' = sent'[s]
      BY SeenNext DEF AllSeen, SeenOf
    <2> QED
      BY <1>1, <2>1
  <1>5. ASSUME NEW s \in AllStreams
        PROVE  /\ Size(s) <= Size(s)'
               /\ s \in ended => s \in ended' /\ got'[s] = got[s]
    <2>1. CASE s \in Inbound
      <3>1. /\ nread[s] \in Nat /\ Len(given[s]) \in Nat /\ Len(given'[s]) \in Nat /\ nread'[s] = nread[s]
            /\ Len(given[s]) <= Len(given'[s]) /\ Len(given'[s]) <= nread[s] + 1
        <4>1. nread' = nread /\ Len(given[s]) <= Len(given'[s])
          BY <2>1 DEF Delivers
        <4>2. nread[s] \in Nat /\ Len(given[s]) \in Nat
          BY <2>1, InTypes DEF IInv
        <4>3. Len(given'[s]) \in Nat
          BY <2>1 DEF IInv, TypeOK
        <4>4. Len(given'[s]) <= nread'[s] + 1
          BY <2>1 DEF IInv, InInv
        <4> QED
          BY <4>1, <4>2, <4>3, <4>4
      <3>2. s \notin Outbound
        BY <2>1, StreamsAssumption
      <3>3. Size(s) <= Size(s)'
        BY <3>1, <3>2 DEF Size
      <3>4. ASSUME s \in ended PROVE s \in ended' /\ got'[s] = got[s]
        <4>1. Len(given[s]) = nread[s] + 1
          BY <2>1, <3>4, Seen DEF AllSeen, SeenOf
        <4>2. Len(given'[s]) = nread'[s] + 1
          BY <3>1, <4>1
        <4>3. s \in ended'
          BY <2>1, <4>2, SeenNext DEF AllSeen, SeenOf
        <4>4. Size(s) = sent[s] /\ Size(s)' = sent[s]
          BY <1>3, <1>4, <3>4, <4>3
        <4> QED
          BY <1>3, <1>4, <4>3, <4>4
      <3> QED
        BY <3>3, <3>4
    <2>2. CASE s \in Outbound
      <3>1. /\ Len(out[s]) <= Len(out'[s])
            /\ consumer[s] = "done" => consumer'[s] = "done" /\ out'[s] = out[s]
            /\ s \in closed => s \in closed'
        BY <2>2 DEF Delivers
      <3>2. Size(s) <= Size(s)'
        BY <2>2, <3>1 DEF Size
      <3>3. s \notin Inbound
        BY <2>2, StreamsAssumption
      <3>4. ASSUME s \in ended PROVE s \in ended' /\ got'[s] = got[s]
        <4>1. consumer[s] = "done" /\ s \in closed
          BY <3>3, <3>4 DEF ended
        <4>2. consumer'[s] = "done" /\ s \in closed' /\ out'[s] = out[s]
          BY <3>1, <4>1
        <4> QED
          BY <2>2, <3>3, <4>2 DEF ended, got
      <3> QED
        BY <3>2, <3>4
    <2> QED
      BY <2>1, <2>2 DEF AllStreams
  <1>6. DOMAIN got' = AllStreams
    BY DEF got
  <1>7. (S \cup E) \cap ended = {}
    BY <1>5
  <1>8. ASSUME NEW s \in S PROVE \E n \in Len(got[s])..sent[s] : got'[s] = PipeOf!FirstOnes(n)
    <2>1. Size(s)' \in Len(got[s])..sent[s]
      BY <1>3, <1>4, <1>5
    <2>2. got'[s] = PipeOf!FirstOnes(Size(s)')
      BY <1>4 DEF Firsts
    <2> QED
      BY <2>1, <2>2
  <1>9. \A s \in AllStreams \ S : got'[s] = got[s]
    OBVIOUS
  <1>10. \A s \in E : Len(got'[s]) = sent[s]
    BY <1>2, <1>4
  <1>11. ended' = ended \cup E
    BY <1>2, <1>5
  <1>12. S \in SUBSET AllStreams /\ E \in SUBSET AllStreams
    BY <1>2
  <1>13. PipeOf!Receive(S, E)
    BY <1>1, <1>6, <1>7, <1>8, <1>9, <1>10, <1>11 DEF PipeOf!Receive
  <1> QED
    BY <1>12, <1>13

LEMMA Simulation == IInv /\ IInv' /\ [Next]_vars => [PipeOf!Next]_(PipeOf!vars)
  <1> SUFFICES ASSUME IInv, IInv', [Next]_vars PROVE PipeOf!Next
    OBVIOUS
  <1>1. CASE \E s \in Inbound : ReadChunk(s)
    BY <1>1, ReadSends DEF PipeOf!Next, AllStreams
  <1>2. CASE \E s \in Outbound : /\ Put(s) /\ pump[s] = "pumping"
                                 /\ UNCHANGED <<given, out, nread, consumer, closed>>
    BY <1>2, PutSends DEF PipeOf!Next, AllStreams
  <1>3. CASE Delivers
    BY <1>3, DeliveryReceives DEF PipeOf!Next
  <1> QED
    BY <1>1, <1>2, <1>3, OtherSteps

(* A stream between Go and JavaScript, in either direction, is a Pipe: what  *)
(* has come out of it is the beginning of what was put in, in order, and all *)
(* of it when the receiver is told of the end.                               *)
THEOREM Refinement == Spec => ImplementsPipe
  <1>1. Init => PipeOf!Init
    <2> SUFFICES ASSUME Init PROVE PipeOf!Init
      OBVIOUS
    <2>1. /\ nread = [s \in Inbound |-> 0] /\ nwritten = [s \in Outbound |-> 0]
          /\ given = [s \in Inbound |-> <<>>] /\ out = [s \in Outbound |-> <<>>]
          /\ consumer = [s \in Outbound |-> "none"]
      BY DEF Init
    <2>2. sent = [s \in AllStreams |-> 0]
      BY <2>1 DEF sent, AllStreams
    <2>3. \A s \in Inbound : ~Told(s) /\ Data(s) = <<>>
      BY <2>1 DEF Told, Data
    <2>4. got = [s \in AllStreams |-> <<>>]
      BY <2>1, <2>3 DEF got, AllStreams
    <2>5. ended = {}
      BY <2>1, <2>3 DEF ended
    <2> QED
      BY <2>2, <2>4, <2>5 DEF PipeOf!Init
  <1>2. IInv /\ [Next]_vars => [PipeOf!Next]_(PipeOf!vars)
    BY StepIInv, Simulation
  <1> QED
    BY <1>1, <1>2, Invariance, PTL DEF Spec, ImplementsPipe, PipeOf!Spec
=============================================================================

---------------------------- MODULE WorkersProofs ----------------------------
(***************************************************************************)
(* Proofs that the safety properties of WorkersProps hold for any number   *)
(* of workers and of messages and every capacity of the channels.          *)
(***************************************************************************)
EXTENDS WorkersProps, SequenceTheorems, TLAPS

Bounded(q, n) == \A i \in DOMAIN q : q[i] \in 1..n

(* What a sequence keeps is as ordered as it was. *)
LEMMA SubAscends ==
    ASSUME NEW s \in Seq(Nat), NEW t \in Seq(Nat), NEW n \in Nat,
           Ascending(s), Bounded(s, n), NEW f \in [DOMAIN t -> DOMAIN s],
           \A i, j \in DOMAIN t : i < j => f[i] < f[j],
           \A i \in DOMAIN t : t[i] = s[f[i]]
    PROVE  Ascending(t) /\ Bounded(t, n)
  <1>1. ASSUME NEW i \in DOMAIN t, NEW j \in DOMAIN t, i < j PROVE t[i] < t[j]
    <2>1. f[i] \in DOMAIN s /\ f[j] \in DOMAIN s /\ f[i] < f[j]
      BY <1>1
    <2>2. s[f[i]] < s[f[j]]
      BY <2>1 DEF Ascending
    <2> QED
      BY <2>2
  <1>2. ASSUME NEW i \in DOMAIN t PROVE t[i] \in 1..n
    BY DEF Bounded
  <1> QED
    BY <1>1, <1>2 DEF Ascending, Bounded

(* Dropping what is between two parts of a sequence. *)
LEMMA DropAscends ==
    ASSUME NEW a \in Seq(Nat), NEW b \in Seq(Nat), NEW c \in Seq(Nat), NEW n \in Nat,
           Ascending(a \o b \o c), Bounded(a \o b \o c, n)
    PROVE  Ascending(a \o <<>> \o c) /\ Bounded(a \o <<>> \o c, n)
  <1> DEFINE s == a \o b \o c
             t == a \o c
             f == [i \in 1..(Len(a) + Len(c)) |-> IF i <= Len(a) THEN i ELSE i + Len(b)]
  <1>0. Len(a) \in Nat /\ Len(b) \in Nat /\ Len(c) \in Nat
    BY LenProperties
  <1>1. /\ a \o b \in Seq(Nat) /\ Len(a \o b) = Len(a) + Len(b)
        /\ \A i \in 1..(Len(a) + Len(b)) : (a \o b)[i] = IF i <= Len(a) THEN a[i] ELSE b[i - Len(a)]
    BY ConcatProperties
  <1>2. /\ s \in Seq(Nat) /\ Len(s) = Len(a) + Len(b) + Len(c)
        /\ \A i \in 1..(Len(a) + Len(b) + Len(c)) : s[i] =
              IF i <= Len(a) + Len(b) THEN (a \o b)[i] ELSE c[i - (Len(a) + Len(b))]
    BY <1>1, ConcatProperties
  <1>3. /\ t \in Seq(Nat) /\ Len(t) = Len(a) + Len(c)
        /\ \A i \in 1..(Len(a) + Len(c)) : t[i] = IF i <= Len(a) THEN a[i] ELSE c[i - Len(a)]
    BY ConcatProperties
  <1>4. DOMAIN s = 1..(Len(a) + Len(b) + Len(c)) /\ DOMAIN t = 1..(Len(a) + Len(c))
    BY <1>2, <1>3, LenProperties
  <1>5. a \o <<>> \o c = t
    BY ConcatEmptySeq
  <1>6. Ascending(s) /\ Bounded(s, n)
    OBVIOUS
  <1> HIDE DEF s, t
  <1>7. f \in [DOMAIN t -> DOMAIN s]
    BY <1>0, <1>4
  <1>8. \A i, j \in DOMAIN t : i < j => f[i] < f[j]
    BY <1>0, <1>4
  <1>9. ASSUME NEW i \in DOMAIN t PROVE t[i] = s[f[i]]
    <2>1. CASE i <= Len(a)
      <3>1. f[i] = i /\ i \in 1..(Len(a) + Len(b)) /\ i \in 1..(Len(a) + Len(b) + Len(c)) /\ i \in 1..(Len(a) + Len(c))
        BY <2>1, <1>0, <1>4
      <3>2. i <= Len(a) + Len(b)
        BY <3>1, <1>0
      <3> HIDE DEF f
      <3>3. s[i] = (a \o b)[i]
        BY <3>1, <3>2, <1>2
      <3>4. (a \o b)[i] = a[i] /\ t[i] = a[i]
        BY <2>1, <3>1, <1>1, <1>3
      <3> QED
        BY <3>1, <3>3, <3>4
    <2>2. CASE i > Len(a)
      <3>1. f[i] = i + Len(b) /\ f[i] > Len(a) + Len(b) /\ f[i] \in 1..(Len(a) + Len(b) + Len(c))
        BY <2>2, <1>0, <1>4
      <3>2. f[i] - (Len(a) + Len(b)) = i - Len(a)
        BY <3>1, <1>0, <1>4
      <3> HIDE DEF f
      <3>3. s[f[i]] = c[f[i] - (Len(a) + Len(b))]
        BY <3>1, <1>0, <1>2
      <3>4. t[i] = c[i - Len(a)]
        BY <2>2, <1>0, <1>3, <1>4
      <3> QED
        BY <3>2, <3>3, <3>4
    <2> QED
      BY <2>1, <2>2, <1>0, <1>4
  <1> HIDE DEF f
  <1>10. Ascending(t) /\ Bounded(t, n)
    BY <1>2, <1>3, <1>6, <1>7, <1>8, <1>9, SubAscends
  <1> QED
    BY <1>5, <1>10

(* A handler has got only the first ones of what was taken. *)
LEMMA PrefixAscends ==
    ASSUME NEW a \in Seq(Nat), NEW b \in Seq(Nat), NEW n \in Nat, NEW m \in 0..Len(b),
           Ascending(a \o b), Bounded(a \o b, n)
    PROVE  /\ Ascending(a \o SubSeq(b, 1, m) \o <<>>) /\ Bounded(a \o SubSeq(b, 1, m) \o <<>>, n)
           /\ m = Len(b) => a \o SubSeq(b, 1, m) \o <<>> = a \o b
           /\ a \o SubSeq(b, 1, m) \in Seq(Nat)
  <1> DEFINE s == a \o b
             p == SubSeq(b, 1, m)
             t == a \o p
             f == [i \in 1..(Len(a) + m) |-> i]
  <1>0. Len(a) \in Nat /\ Len(b) \in Nat /\ m \in Nat /\ m <= Len(b)
    BY LenProperties
  <1>1. p \in Seq(Nat) /\ Len(p) = m /\ \A i \in 1..m : p[i] = b[i]
    BY <1>0
  <1>2. /\ s \in Seq(Nat) /\ Len(s) = Len(a) + Len(b)
        /\ \A i \in 1..(Len(a) + Len(b)) : s[i] = IF i <= Len(a) THEN a[i] ELSE b[i - Len(a)]
    BY ConcatProperties
  <1> HIDE DEF p
  <1>3. /\ t \in Seq(Nat) /\ Len(t) = Len(a) + m
        /\ \A i \in 1..(Len(a) + m) : t[i] = IF i <= Len(a) THEN a[i] ELSE p[i - Len(a)]
    BY <1>1, ConcatProperties
  <1>4. DOMAIN s = 1..(Len(a) + Len(b)) /\ DOMAIN t = 1..(Len(a) + m)
    BY <1>2, <1>3, LenProperties
  <1>5. t \o <<>> = t
    BY <1>3, ConcatEmptySeq
  <1>6. m = Len(b) => p = b
    <2> SUFFICES ASSUME m = Len(b) PROVE SubSeq(b, 1, Len(b)) = b
      BY DEF p
    <2> QED
      BY SubSeqFull
  <1>7. Ascending(s) /\ Bounded(s, n)
    OBVIOUS
  <1> HIDE DEF s, t
  <1>8. f \in [DOMAIN t -> DOMAIN s] /\ \A i, j \in DOMAIN t : i < j => f[i] < f[j]
    BY <1>0, <1>4
  <1>9. ASSUME NEW i \in DOMAIN t PROVE t[i] = s[f[i]]
    <2>1. i \in 1..(Len(a) + m) /\ f[i] = i /\ i \in 1..(Len(a) + Len(b))
      BY <1>0, <1>4
    <2>2. CASE i <= Len(a)
      BY <2>1, <2>2, <1>2, <1>3
    <2>3. CASE i > Len(a)
      <3>1. i - Len(a) \in 1..m
        BY <2>1, <2>3, <1>0
      <3> QED
        BY <2>1, <2>3, <3>1, <1>0, <1>1, <1>2, <1>3
    <2> QED
      BY <2>1, <2>2, <2>3, <1>0
  <1> HIDE DEF f
  <1>10. Ascending(t) /\ Bounded(t, n)
    BY <1>2, <1>3, <1>7, <1>8, <1>9, SubAscends
  <1> QED
    BY <1>3, <1>5, <1>6, <1>10 DEF s, t, p

(* The next message goes to the end. *)
LEMMA NextAscends ==
    ASSUME NEW q \in Seq(Nat), NEW n \in Nat, Ascending(q), Bounded(q, n)
    PROVE  /\ Append(q, n + 1) \in Seq(Nat)
           /\ Ascending(Append(q, n + 1)) /\ Bounded(Append(q, n + 1), n + 1)
           /\ q = FirstOnes(n) => Append(q, n + 1) = FirstOnes(n + 1)
  <1> DEFINE t == Append(q, n + 1)
  <1>1. /\ Len(q) \in Nat /\ DOMAIN q = 1..Len(q)
        /\ t \in Seq(Nat) /\ Len(t) = Len(q) + 1 /\ DOMAIN t = 1..(Len(q) + 1)
        /\ \A i \in 1..Len(q) : t[i] = q[i]
        /\ t[Len(q) + 1] = n + 1
    OBVIOUS
  <1>2. \A i \in DOMAIN q : q[i] \in 1..n
    BY DEF Bounded
  <1> HIDE DEF t
  <1>3. Bounded(t, n + 1)
    BY <1>1, <1>2 DEF Bounded
  <1>4. ASSUME NEW i \in DOMAIN t, NEW j \in DOMAIN t, i < j PROVE t[i] < t[j]
    <2>1. CASE j <= Len(q)
      <3>1. i \in DOMAIN q /\ j \in DOMAIN q
        BY <2>1, <1>1, <1>4
      <3>2. q[i] < q[j]
        BY <3>1, <1>4 DEF Ascending
      <3> QED
        BY <3>1, <3>2, <1>1
    <2>2. CASE j = Len(q) + 1
      <3>1. i \in DOMAIN q
        BY <2>2, <1>1, <1>4
      <3>2. t[i] \in 1..n /\ t[j] = n + 1
        BY <3>1, <2>2, <1>1, <1>2
      <3> QED
        BY <3>2
    <2> QED
      BY <2>1, <2>2, <1>1
  <1>5. ASSUME q = FirstOnes(n) PROVE t = FirstOnes(n + 1)
    <2>1. Len(q) = n /\ \A i \in 1..n : q[i] = i
      BY <1>5, <1>1 DEF FirstOnes
    <2>2. FirstOnes(n + 1) \in Seq(Nat) /\ Len(FirstOnes(n + 1)) = n + 1
      BY DEF FirstOnes
    <2>3. \A i \in 1..(n + 1) : t[i] = FirstOnes(n + 1)[i]
      BY <2>1, <1>1 DEF FirstOnes
    <2> HIDE DEF FirstOnes
    <2> QED
      BY <1>1, <2>1, <2>2, <2>3, SeqEqual
  <1> QED
    BY <1>1, <1>3, <1>4, <1>5 DEF t, Ascending

LEMMA NothingAscends ==
    Ascending(<<>>) /\ <<>> = FirstOnes(0) /\ \A n : Bounded(<<>>, n)
  BY DEF Ascending, FirstOnes, Bounded

-----------------------------------------------------------------------------
(* The messages of a worker that make no message event. *)
Mute(w) == errors[w] \cup garbled[w]

(* What the channels between parent and workers hold. *)
FlowInv ==
    /\ waiting \in closed \cup {None}
    /\ \A w \in Workers :
         /\ phase[w] \in {"script", "loop"} => w \in hasRt
         /\ w \in workers \cup active => phase[w] # "none"
         /\ phase[w] = "none" => sent[w] = 0
         /\ 0 \notin errors[w]
         /\ Len(msgToParent[w]) <= sent[w]
         /\ batch[w] # <<>> \/ gotByParent[w] # <<>> => Len(msgToParent[w]) < sent[w]
         /\ w \notin hasRt =>
              /\ gotByParent[w] = <<>>
              /\ \A i \in DOMAIN batch[w] : batch[w][i] \in Mute(w)
              /\ \A i \in DOMAIN msgToParent[w] : msgToParent[w][i] \in Mute(w)

TypeInv == TypeOK /\ FlowInv

LEMMA EmptyFacts == Len(<<>>) = 0 /\ <<>> \in Seq(Nat) /\ DOMAIN <<>> = {}
  OBVIOUS

LEMMA NotNegative == 0 <= Capacity
  BY WorkersAssumption

LEMMA InitType == Init => TypeInv
  <1> SUFFICES ASSUME Init PROVE TypeInv
    OBVIOUS
  <1>1. TypeOK
    BY WorkersAssumption, EmptyFacts DEF Init, TypeOK, Empty
  <1>2. FlowInv
    BY WorkersAssumption, EmptyFacts DEF Init, FlowInv, Empty
  <1> QED
    BY <1>1, <1>2 DEF TypeInv

LEMMA AppendFacts ==
    ASSUME NEW q \in Seq(Nat), NEW n \in Nat
    PROVE  /\ Append(q, n) \in Seq(Nat) /\ Len(Append(q, n)) = Len(q) + 1 /\ Append(q, n) # <<>>
           /\ \A i \in DOMAIN Append(q, n) : Append(q, n)[i] = n \/ (i \in DOMAIN q /\ Append(q, n)[i] = q[i])
  OBVIOUS

LEMMA TailFacts ==
    ASSUME NEW q \in Seq(Nat), q # <<>>
    PROVE  /\ Head(q) \in Nat /\ Tail(q) \in Seq(Nat)
           /\ 1 \in DOMAIN q /\ Head(q) = q[1]
           /\ \A i \in DOMAIN Tail(q) : i + 1 \in DOMAIN q /\ Tail(q)[i] = q[i + 1]
  OBVIOUS

LEMMA PutType ==
    ASSUME TypeInv, NEW w \in Workers, NEW k \in Kinds, PutToParent(w, k),
           k # "message" \/ w \in hasRt, phase'[w] # "none",
           \A v \in Workers \ {w} : phase'[v] = phase[v],
           \A v \in Workers : phase'[v] \in {"script", "loop"} => phase[v] = phase'[v],
           UNCHANGED <<waiting, workers, active, batch, hasRt, gotByParent>>,
           closed \subseteq closed'
    PROVE  /\ FlowInv'
           /\ sent' \in [Workers -> Nat]
           /\ errors' \in [Workers -> SUBSET Nat] /\ garbled' \in [Workers -> SUBSET Nat]
           /\ msgToParent' \in [Workers -> Seq(Nat)]
           /\ \A v \in Workers : Len(msgToParent'[v]) <= Capacity
  <1> USE WorkersAssumption
  <1> DEFINE n == sent[w] + 1
             q == msgToParent[w]
  <1>1. q \in Seq(Nat) /\ Len(q) \in Nat /\ n \in Nat /\ Len(q) < Capacity /\ Len(q) <= sent[w]
    <2>1. msgToParent[w] \in Seq(Nat) /\ sent[w] \in Nat /\ Len(msgToParent[w]) <= sent[w]
      BY DEF TypeInv, TypeOK, FlowInv
    <2>2. Len(msgToParent[w]) < Capacity
      BY DEF PutToParent
    <2> QED
      BY <2>1, <2>2
  <1>2. /\ Append(q, n) \in Seq(Nat) /\ Len(Append(q, n)) = Len(q) + 1
        /\ \A i \in DOMAIN Append(q, n) : Append(q, n)[i] = n \/ (i \in DOMAIN q /\ Append(q, n)[i] = q[i])
    BY <1>1, AppendFacts
  <1>3. /\ sent' = [sent EXCEPT ![w] = n]
        /\ msgToParent' = [msgToParent EXCEPT ![w] = Append(q, n)]
        /\ errors' = IF k = "error" THEN [errors EXCEPT ![w] = errors[w] \cup {n}] ELSE errors
        /\ garbled' = IF k = "garbled" THEN [garbled EXCEPT ![w] = garbled[w] \cup {n}] ELSE garbled
    BY DEF PutToParent, TypeInv, TypeOK
  <1> HIDE DEF n, q
  <1>4. /\ sent \in [Workers -> Nat] /\ errors \in [Workers -> SUBSET Nat]
        /\ garbled \in [Workers -> SUBSET Nat] /\ msgToParent \in [Workers -> Seq(Nat)]
        /\ \A v \in Workers : Len(msgToParent[v]) <= Capacity
    BY DEF TypeInv, TypeOK
  <1>5. /\ sent' \in [Workers -> Nat]
        /\ errors' \in [Workers -> SUBSET Nat] /\ garbled' \in [Workers -> SUBSET Nat]
        /\ msgToParent' \in [Workers -> Seq(Nat)]
    BY <1>1, <1>2, <1>3, <1>4
  <1>6. /\ sent'[w] = n /\ msgToParent'[w] = Append(q, n)
        /\ \A v \in Workers : v # w => /\ sent'[v] = sent[v] /\ msgToParent'[v] = msgToParent[v]
                                        /\ errors'[v] = errors[v] /\ garbled'[v] = garbled[v]
        /\ errors[w] \subseteq errors'[w] /\ garbled[w] \subseteq garbled'[w]
        /\ errors'[w] \subseteq errors[w] \cup {n}
        /\ k = "error" => n \in errors'[w]
        /\ k = "garbled" => n \in garbled'[w]
    BY <1>3, <1>4
  <1>8. Len(msgToParent'[w]) = Len(q) + 1 /\ sent'[w] = sent[w] + 1
    BY <1>2, <1>6 DEF n
  <1>7. ASSUME NEW v \in Workers PROVE Len(msgToParent'[v]) <= Capacity
    <2>1. CASE v = w
      <3>1. Len(q) + 1 <= Capacity
        BY <1>1
      <3> QED
        BY <2>1, <3>1, <1>8
    <2>2. CASE v # w
      BY <2>2, <1>4, <1>6
    <2> QED
      BY <2>1, <2>2
  <1>9. ASSUME NEW v \in Workers
        PROVE  /\ phase'[v] \in {"script", "loop"} => v \in hasRt'
               /\ v \in workers' \cup active' => phase'[v] # "none"
               /\ phase'[v] = "none" => sent'[v] = 0
               /\ 0 \notin errors'[v]
               /\ Len(msgToParent'[v]) <= sent'[v]
               /\ batch'[v] # <<>> \/ gotByParent'[v] # <<>> => Len(msgToParent'[v]) < sent'[v]
               /\ v \notin hasRt' =>
                    /\ gotByParent'[v] = <<>>
                    /\ \A i \in DOMAIN batch'[v] : batch'[v][i] \in Mute(v)'
                    /\ \A i \in DOMAIN msgToParent'[v] : msgToParent'[v][i] \in Mute(v)'
    <2>1. CASE v # w
      BY <2>1, <1>6 DEF TypeInv, FlowInv, Mute
    <2>2. CASE v = w
      <3>1. /\ phase'[w] \in {"script", "loop"} => w \in hasRt'
            /\ w \notin hasRt' => gotByParent'[w] = <<>>
        BY DEF TypeInv, FlowInv
      <3>4. 0 \notin errors'[w]
        <4>1. 0 \notin errors[w] /\ sent[w] \in Nat
          BY DEF TypeInv, TypeOK, FlowInv
        <4> QED
          BY <1>6, <4>1 DEF n
      <3>2. /\ Len(msgToParent'[w]) <= sent'[w]
            /\ batch'[w] # <<>> \/ gotByParent'[w] # <<>> => Len(msgToParent'[w]) < sent'[w]
        BY <1>1, <1>4, <1>8 DEF TypeInv, FlowInv, q
      <3>3. w \notin hasRt' => /\ \A i \in DOMAIN batch'[w] : batch'[w][i] \in Mute(w)'
                               /\ \A i \in DOMAIN msgToParent'[w] : msgToParent'[w][i] \in Mute(w)'
        <4> SUFFICES ASSUME w \notin hasRt
                     PROVE  /\ \A i \in DOMAIN batch[w] : batch[w][i] \in Mute(w)'
                            /\ \A i \in DOMAIN Append(q, n) : Append(q, n)[i] \in Mute(w)'
          BY <1>6
        <4>1. /\ k # "message" /\ \A i \in DOMAIN batch[w] : batch[w][i] \in Mute(w)
              /\ \A i \in DOMAIN q : q[i] \in Mute(w)
          BY DEF TypeInv, FlowInv, q
        <4>2. Mute(w) \subseteq Mute(w)' /\ n \in Mute(w)'
          BY <4>1, <1>6 DEF Mute, Kinds
        <4> QED
          BY <4>1, <4>2, <1>2
      <3> QED
        BY <2>2, <3>1, <3>2, <3>3, <3>4
    <2> QED
      BY <2>1, <2>2
  <1>10. waiting' \in closed' \cup {None}
    BY DEF TypeInv, FlowInv
  <1> QED
    BY <1>5, <1>7, <1>9, <1>10 DEF FlowInv

LEMMA StepType == TypeInv /\ [Next]_vars => TypeInv'
  <1> SUFFICES ASSUME TypeInv, [Next]_vars PROVE TypeOK' /\ FlowInv'
    BY DEF TypeInv
  <1> USE WorkersAssumption
  <1>0. TypeOK /\ FlowInv
    BY DEF TypeInv
  <1>1. CASE UNCHANGED vars
    BY <1>0, <1>1 DEF TypeOK, FlowInv, Mute, vars, parentVars, workerVars, toWorkerVars, toParentVars
  <1>2. ASSUME NEW w \in Workers, Create(w) PROVE TypeOK' /\ FlowInv'
    <2>1. TypeOK'
      BY <1>0, <1>2 DEF Create, TypeOK, toWorkerVars, toParentVars
    <2>2. FlowInv'
      BY <1>0, <1>2 DEF Create, TypeOK, FlowInv, Mute, toWorkerVars, toParentVars
    <2> QED
      BY <2>1, <2>2
  <1>3. ASSUME NEW w \in Workers, Post(w) PROVE TypeOK' /\ FlowInv'
    <2>1. /\ posted' = [posted EXCEPT ![w] = posted[w] + 1]
          /\ msgToWorker' = [msgToWorker EXCEPT ![w] = Append(msgToWorker[w], posted[w] + 1)]
          /\ Len(msgToWorker[w]) < Capacity
          /\ UNCHANGED <<life, waiting, parentVars, workerVars, toParentVars, threw>>
      BY <1>0, <1>3 DEF Post, TypeOK
    <2>2. /\ Append(msgToWorker[w], posted[w] + 1) \in Seq(Nat)
          /\ Len(Append(msgToWorker[w], posted[w] + 1)) <= Capacity /\ posted[w] + 1 \in Nat
      <3>1. msgToWorker[w] \in Seq(Nat) /\ posted[w] \in Nat
        BY <1>0 DEF TypeOK
      <3>2. Len(msgToWorker[w]) \in Nat /\ posted[w] + 1 \in Nat
        BY <3>1, LenProperties
      <3> QED
        BY <2>1, <3>1, <3>2, AppendFacts
    <2>3. TypeOK'
      BY <1>0, <2>1, <2>2 DEF TypeOK, parentVars, workerVars, toParentVars
    <2>4. FlowInv'
      BY <1>0, <2>1 DEF FlowInv, Mute, parentVars, workerVars, toParentVars
    <2> QED
      BY <2>3, <2>4
  <1>4. ASSUME NEW w \in Workers, Terminate(w) PROVE TypeOK' /\ FlowInv'
    <2>1. /\ active' \subseteq active /\ workers' \subseteq workers
          /\ life' \in {"open", "down", "panicked"}
          /\ \/ UNCHANGED <<waiting, closed>>
             \/ closed' = closed \cup {w} /\ w \in hasRt /\ waiting' \in {None, w}
          /\ UNCHANGED <<batch, current, gotByParent, reported, cut, phase, hasRt, released, gotByWorker, toWorkerVars, toParentVars, threw>>
      BY <1>0, <1>4 DEF Terminate, TypeOK
    <2>2. TypeOK'
      BY <1>0, <2>1 DEF TypeOK, toWorkerVars, toParentVars
    <2>3. FlowInv'
      BY <1>0, <2>1 DEF FlowInv, Mute, toWorkerVars, toParentVars
    <2> QED
      BY <2>2, <2>3
  <1>5. CASE Terminated
    <2>1. TypeOK'
      BY <1>0, <1>5 DEF Terminated, TypeOK, FlowInv, parentVars, toWorkerVars, toParentVars
    <2>2. FlowInv'
      BY <1>0, <1>5 DEF Terminated, FlowInv, Mute, parentVars, toWorkerVars, toParentVars
    <2> QED
      BY <2>1, <2>2
  <1>6. CASE Close
    <2>1. TypeOK'
      BY <1>0, <1>6 DEF Close, TypeOK, parentVars, workerVars, toWorkerVars, toParentVars
    <2>2. FlowInv'
      BY <1>0, <1>6 DEF Close, FlowInv, Mute, parentVars, workerVars, toWorkerVars, toParentVars
    <2> QED
      BY <2>1, <2>2
  <1>7. CASE TakeMessages
    <2> DEFINE W == {w \in workers : msgToParent[w] # <<>>}
    <2>1. /\ batch' = [w \in Workers |-> IF w \in W THEN msgToParent[w] ELSE <<>>]
          /\ msgToParent' = [w \in Workers |-> IF w \in W THEN <<>> ELSE msgToParent[w]]
          /\ UNCHANGED <<life, waiting, workers, active, current, gotByParent, reported, cut, workerVars,
                         toWorkerVars, sent, errors, garbled, threw>>
      BY <1>7 DEF TakeMessages
    <2>2. TypeOK'
      <3>1. /\ msgToParent \in [Workers -> Seq(Nat)] /\ 0 <= Capacity
            /\ \A w \in Workers : Len(msgToParent[w]) <= Capacity
        BY <1>0, NotNegative DEF TypeOK
      <3>2. batch' \in [Workers -> Seq(Nat)] /\ msgToParent' \in [Workers -> Seq(Nat)]
        BY <2>1, <3>1, EmptyFacts
      <3>3. \A w \in Workers : msgToParent'[w] = msgToParent[w] \/ msgToParent'[w] = <<>>
        BY <2>1
      <3>4. \A w \in Workers : Len(msgToParent'[w]) <= Capacity
        BY <3>1, <3>3, EmptyFacts
      <3> QED
        BY <1>0, <2>1, <3>2, <3>4 DEF TypeOK, workerVars, toWorkerVars
    <2>3. ASSUME NEW w \in W PROVE Len(msgToParent[w]) # 0
      <3>1. msgToParent[w] \in Seq(Nat) /\ msgToParent[w] # <<>>
        BY <1>0, <2>3 DEF TypeOK
      <3> QED
        BY <3>1
    <2>4. ASSUME NEW w \in Workers
          PROVE  /\ Len(msgToParent'[w]) <= sent[w]
                 /\ batch'[w] # <<>> \/ gotByParent[w] # <<>> => Len(msgToParent'[w]) < sent[w]
                 /\ w \notin hasRt =>
                      /\ \A i \in DOMAIN batch'[w] : batch'[w][i] \in Mute(w)
                      /\ \A i \in DOMAIN msgToParent'[w] : msgToParent'[w][i] \in Mute(w)
      <3>1. CASE w \in W
        <4>1. batch'[w] = msgToParent[w] /\ msgToParent'[w] = <<>> /\ Len(msgToParent[w]) # 0
          BY <2>1, <2>3, <3>1
        <4>2. Len(msgToParent[w]) <= sent[w] /\ Len(msgToParent[w]) \in Nat /\ sent[w] \in Nat
          BY <1>0 DEF TypeOK, FlowInv
        <4> QED
          BY <1>0, <4>1, <4>2, EmptyFacts DEF FlowInv
      <3>2. CASE w \notin W
        BY <1>0, <2>1, <3>2, EmptyFacts DEF FlowInv
      <3> QED
        BY <3>1, <3>2
    <2>5. UNCHANGED <<waiting, closed, phase, hasRt, workers, active, sent, errors, garbled, gotByParent>>
      BY <2>1 DEF workerVars
    <2>6. FlowInv'
      BY <1>0, <2>4, <2>5 DEF FlowInv, Mute
    <2> QED
      BY <2>2, <2>6
  <1>8. ASSUME TypeOK', UNCHANGED <<waiting, workers, workerVars, toParentVars>>, active' \subseteq active,
               \A w \in Workers :
                  /\ \A i \in DOMAIN batch'[w] : \E j \in DOMAIN batch[w] : batch'[w][i] = batch[w][j]
                  /\ batch'[w] # <<>> => batch[w] # <<>>
                  /\ gotByParent'[w] = gotByParent[w] \/
                       (batch[w] # <<>> /\ \E i \in DOMAIN batch[w] : batch[w][i] \notin Mute(w))
        PROVE  FlowInv'
    BY <1>0, <1>8 DEF FlowInv, Mute, workerVars, toParentVars
  <1>9. ASSUME NEW b, NEW v \in Workers \cup {None}, BatchTo(b, v), b \in [Workers -> Seq(Nat)]
        PROVE  batch' \in [Workers -> Seq(Nat)] /\ current' \in Workers \cup {None}
    BY <1>9 DEF BatchTo
  <1>19. ASSUME NEW left \in [Workers -> Seq(Nat)], BatchEnds(left)
         PROVE  /\ batch' = Empty /\ batch' \in [Workers -> Seq(Nat)] /\ current' \in Workers \cup {None}
                /\ cut' \in [Workers -> Nat] /\ \A v \in Workers : batch'[v] = <<>>
    <2>1. batch' = Empty /\ current' = None
      BY <1>19 DEF BatchEnds, BatchTo
    <2>2. \A v \in Workers : left[v] # <<>> => left[v][Len(left[v])] \in Nat
      <3>1. ASSUME NEW q \in Seq(Nat), q # <<>> PROVE q[Len(q)] \in Nat
        BY <3>1
      <3> QED
        BY <3>1
    <2>3. cut' \in [Workers -> Nat]
      BY <1>0, <1>19, <2>2 DEF BatchEnds, TypeOK
    <2> QED
      BY <2>1, <2>3, EmptyFacts DEF Empty
  <1>10. ASSUME NEW w \in Workers, Skip(w) PROVE TypeOK' /\ FlowInv'
    <2>1. BatchTo([batch EXCEPT ![w] = <<>>], None) /\ UNCHANGED <<deliveryQuiet, active, gotByParent, reported, cut, threw>>
      BY <1>10 DEF Skip
    <2>2. [batch EXCEPT ![w] = <<>>] \in [Workers -> Seq(Nat)]
      BY <1>0, EmptyFacts DEF TypeOK
    <2>3. TypeOK'
      BY <1>0, <1>9, <2>1, <2>2 DEF TypeOK, deliveryQuiet, workerVars, toWorkerVars, toParentVars
    <2>4. \A v \in Workers : batch'[v] = batch[v] \/ batch'[v] = <<>>
      BY <1>0, <2>1 DEF BatchTo, TypeOK
    <2> QED
      BY <1>8, <2>1, <2>3, <2>4, EmptyFacts DEF deliveryQuiet
  <1>11. ASSUME NEW w \in Workers, Deliver(w) PROVE TypeOK' /\ FlowInv'
    <2>1. batch[w] # <<>> /\ batch[w] \in Seq(Nat) /\ batch \in [Workers -> Seq(Nat)]
      BY <1>0, <1>11 DEF Deliver, Turn, First, InBatch, TypeOK
    <2>2. /\ Head(batch[w]) \in Nat /\ Tail(batch[w]) \in Seq(Nat)
          /\ 1 \in DOMAIN batch[w] /\ Head(batch[w]) = batch[w][1]
          /\ \A i \in DOMAIN Tail(batch[w]) : i + 1 \in DOMAIN batch[w] /\ Tail(batch[w])[i] = batch[w][i + 1]
      BY <2>1, TailFacts
    <2>3. /\ Head(batch[w]) \notin Mute(w)
          /\ gotByParent' = [gotByParent EXCEPT ![w] = Append(gotByParent[w], Head(batch[w]))]
          /\ \/ BatchTo(Behind(w), w) /\ UNCHANGED <<cut, threw>>
             \/ BatchEnds(Behind(w)) /\ threw' = threw \cup {None}
          /\ UNCHANGED <<deliveryQuiet, active, reported>>
      BY <1>0, <1>11 DEF Deliver, Mute, TypeOK
    <2>4. Behind(w) \in [Workers -> Seq(Nat)]
      BY <2>1, <2>2 DEF Behind
    <2>5. batch' \in [Workers -> Seq(Nat)] /\ current' \in Workers \cup {None} /\ cut' \in [Workers -> Nat]
      BY <1>0, <1>9, <1>19, <2>3, <2>4 DEF TypeOK
    <2>6. gotByParent' \in [Workers -> Seq(Nat)]
      <3>1. gotByParent[w] \in Seq(Nat) /\ gotByParent \in [Workers -> Seq(Nat)]
        BY <1>0 DEF TypeOK
      <3>2. Append(gotByParent[w], Head(batch[w])) \in Seq(Nat)
        BY <2>2, <3>1, AppendFacts
      <3> QED
        BY <2>3, <3>1, <3>2
    <2>7. TypeOK'
      BY <1>0, <2>3, <2>5, <2>6 DEF TypeOK, deliveryQuiet, workerVars, toWorkerVars, toParentVars
    <2>8. ASSUME NEW v \in Workers
          PROVE  /\ \A i \in DOMAIN batch'[v] : \E j \in DOMAIN batch[v] : batch'[v][i] = batch[v][j]
                 /\ batch'[v] # <<>> => batch[v] # <<>>
                 /\ gotByParent'[v] = gotByParent[v] \/
                      (batch[v] # <<>> /\ \E i \in DOMAIN batch[v] : batch[v][i] \notin Mute(v))
      <3>1. batch'[v] = batch[v] \/ batch'[v] = <<>> \/ (v = w /\ batch'[v] = Tail(batch[w]))
        BY <2>1, <2>3, <2>4, <1>19 DEF BatchTo, Behind
      <3>2. gotByParent'[v] = gotByParent[v] \/ v = w
        BY <1>0, <2>3 DEF TypeOK
      <3>3. \A i \in DOMAIN batch'[v] : \E j \in DOMAIN batch[v] : batch'[v][i] = batch[v][j]
        <4>1. CASE batch'[v] = batch[v]
          BY <4>1
        <4>2. CASE batch'[v] = <<>>
          BY <4>2, EmptyFacts
        <4>3. CASE v = w /\ batch'[v] = Tail(batch[w])
          BY <4>3, <2>2
        <4> QED
          BY <3>1, <4>1, <4>2, <4>3
      <3>4. batch'[v] # <<>> => batch[v] # <<>>
        BY <2>1, <3>1
      <3>5. gotByParent'[v] = gotByParent[v] \/
              (batch[v] # <<>> /\ \E i \in DOMAIN batch[v] : batch[v][i] \notin Mute(v))
        BY <2>1, <2>2, <2>3, <3>2
      <3> QED
        BY <3>3, <3>4, <3>5
    <2> QED
      BY <1>8, <2>3, <2>7, <2>8 DEF deliveryQuiet
  <1>12. ASSUME NEW w \in Workers, DeliverError(w) PROVE TypeOK' /\ FlowInv'
    <2>1. /\ BatchEnds(Behind(w)) /\ reported' = [reported EXCEPT ![w] = Head(batch[w])]
          /\ active' \subseteq active /\ threw' \subseteq threw \cup {None}
          /\ UNCHANGED <<deliveryQuiet, gotByParent>>
      BY <1>12 DEF DeliverError
    <2>2. Head(batch[w]) \in Nat /\ Behind(w) \in [Workers -> Seq(Nat)]
      <3>1. batch[w] # <<>> /\ batch[w] \in Seq(Nat) /\ batch \in [Workers -> Seq(Nat)]
        BY <1>0, <1>12 DEF DeliverError, Turn, First, InBatch, TypeOK
      <3> QED
        BY <3>1, TailFacts DEF Behind
    <2>3. TypeOK'
      BY <1>0, <1>19, <2>1, <2>2 DEF TypeOK, deliveryQuiet, workerVars, toWorkerVars, toParentVars
    <2>4. \A v \in Workers : batch'[v] = <<>>
      BY <1>19, <2>1, <2>2
    <2> QED
      BY <1>8, <2>1, <2>3, <2>4, EmptyFacts DEF deliveryQuiet
  <1>20. ASSUME NEW w \in Workers, DeliverGarbled(w) PROVE TypeOK' /\ FlowInv'
    <2>1. /\ BatchEnds(batch) /\ threw' = threw \cup {None}
          /\ UNCHANGED <<deliveryQuiet, active, gotByParent, reported>>
      BY <1>20 DEF DeliverGarbled
    <2>2. batch \in [Workers -> Seq(Nat)]
      BY <1>0 DEF TypeOK
    <2>3. TypeOK'
      BY <1>0, <1>19, <2>1, <2>2 DEF TypeOK, deliveryQuiet, workerVars, toWorkerVars, toParentVars
    <2>4. \A v \in Workers : batch'[v] = <<>>
      BY <1>19, <2>1, <2>2
    <2> QED
      BY <1>8, <2>1, <2>3, <2>4, EmptyFacts DEF deliveryQuiet
  <1>13. ASSUME NEW w \in Workers, StartFails(w) \/ Starts(w) \/ ScriptEnds(w) \/ Strands(w) PROVE TypeOK' /\ FlowInv'
    <2>1. /\ phase[w] \in {"starting", "script", "loop"}
          /\ \E p \in {"failing", "script", "loop", "stranded"} :
               /\ phase' = [phase EXCEPT ![w] = p]
               /\ p = "script" => hasRt' = hasRt \cup {w}
               /\ p # "script" => hasRt' = hasRt
               /\ p = "loop" => phase[w] = "script"
          /\ UNCHANGED <<outside, closed, released, gotByWorker, toWorkerVars, toParentVars, threw>>
      BY <1>13 DEF StartFails, Starts, ScriptEnds, Strands, PhaseTo
    <2>2. TypeOK'
      <3>1. phase' \in [Workers -> {"none", "starting", "script", "loop", "failing", "stranded", "ended"}]
        BY <1>0, <2>1 DEF TypeOK
      <3>2. hasRt' \subseteq Workers /\ closed' \subseteq hasRt' /\ released' \subseteq closed'
        BY <1>0, <2>1 DEF TypeOK
      <3> QED
        BY <1>0, <2>1, <3>1, <3>2 DEF TypeOK, outside, parentVars, toWorkerVars, toParentVars
    <2>3. /\ hasRt \subseteq hasRt'
          /\ phase'[w] \in {"script", "loop"} => w \in hasRt'
          /\ phase'[w] # "none"
          /\ \A v \in Workers : v # w => phase'[v] = phase[v]
      BY <1>0, <2>1 DEF TypeOK, FlowInv
    <2>4. UNCHANGED <<waiting, closed, workers, active, sent, errors, garbled, gotByParent, batch, msgToParent>>
      BY <2>1 DEF outside, parentVars, toParentVars
    <2>5. FlowInv'
      BY <1>0, <2>3, <2>4 DEF FlowInv, Mute
    <2> QED
      BY <2>2, <2>5
  <1>14. ASSUME NEW w \in Workers, End(w), phase[w] # "none"
         PROVE  /\ phase' \in [Workers -> {"none", "starting", "script", "loop", "failing", "stranded", "ended"}]
                /\ closed' \subseteq hasRt /\ released' \subseteq closed' /\ closed \subseteq closed'
                /\ phase'[w] = "ended" /\ \A v \in Workers : v # w => phase'[v] = phase[v]
    BY <1>0, <1>14 DEF End, PhaseTo, TypeOK
  <1>15. ASSUME NEW w \in Workers, LoopEnds(w) PROVE TypeOK' /\ FlowInv'
    <2>1. /\ phase[w] # "none" /\ End(w)
          /\ UNCHANGED <<outside, hasRt, gotByWorker, toWorkerVars, toParentVars, threw>>
      BY <1>15 DEF LoopEnds
    <2>2. TypeOK'
      BY <1>0, <1>14, <2>1 DEF TypeOK, outside, parentVars, toWorkerVars, toParentVars
    <2>3. FlowInv'
      BY <1>0, <1>14, <2>1 DEF FlowInv, Mute, outside, parentVars, toParentVars
    <2> QED
      BY <2>2, <2>3
  <1>16. ASSUME NEW w \in Workers, SendError(w) PROVE TypeOK' /\ FlowInv'
    <2>1. /\ phase[w] # "none" /\ End(w)
          /\ UNCHANGED <<outside, hasRt, gotByWorker, toWorkerVars, threw>>
      BY <1>16 DEF SendError
    <2>6. PICK k \in Kinds \ {"message"} : PutToParent(w, k)
      BY <1>16 DEF SendError, Kinds
    <2>2. UNCHANGED <<waiting, workers, active, batch, hasRt, gotByParent>>
      BY <2>1 DEF outside, parentVars
    <2>3. /\ phase'[w] # "none"
          /\ \A v \in Workers \ {w} : phase'[v] = phase[v]
          /\ \A v \in Workers : phase'[v] \in {"script", "loop"} => phase[v] = phase'[v]
          /\ closed \subseteq closed'
      BY <1>14, <2>1
    <2>4. /\ FlowInv'
          /\ sent' \in [Workers -> Nat]
          /\ errors' \in [Workers -> SUBSET Nat] /\ garbled' \in [Workers -> SUBSET Nat]
          /\ msgToParent' \in [Workers -> Seq(Nat)]
          /\ \A v \in Workers : Len(msgToParent'[v]) <= Capacity
      BY <2>2, <2>3, <2>6, PutType
    <2>5. TypeOK'
      BY <1>0, <1>14, <2>1, <2>4 DEF TypeOK, outside, parentVars, toWorkerVars
    <2> QED
      BY <2>4, <2>5
  <1>17. ASSUME NEW w \in Workers, PostToParent(w) PROVE TypeOK' /\ FlowInv'
    <2>1. /\ phase[w] \in {"script", "loop"}
          /\ UNCHANGED <<outside, workerVars, toWorkerVars, threw>>
      BY <1>17 DEF PostToParent, Running
    <2>2. PICK k \in Kinds : PutToParent(w, k)
      BY <1>17 DEF PostToParent
    <2>3. w \in hasRt /\ UNCHANGED <<waiting, workers, active, batch, hasRt, gotByParent, phase, closed>>
      BY <1>0, <2>1 DEF FlowInv, outside, parentVars, workerVars
    <2>4. /\ phase'[w] # "none"
          /\ \A v \in Workers \ {w} : phase'[v] = phase[v]
          /\ \A v \in Workers : phase'[v] \in {"script", "loop"} => phase[v] = phase'[v]
          /\ closed \subseteq closed'
      BY <2>1, <2>3
    <2>5. /\ FlowInv'
          /\ sent' \in [Workers -> Nat]
          /\ errors' \in [Workers -> SUBSET Nat] /\ garbled' \in [Workers -> SUBSET Nat]
          /\ msgToParent' \in [Workers -> Seq(Nat)]
          /\ \A v \in Workers : Len(msgToParent'[v]) <= Capacity
      BY <2>2, <2>3, <2>4, PutType
    <2>6. TypeOK'
      BY <1>0, <2>1, <2>5 DEF TypeOK, outside, parentVars, workerVars, toWorkerVars
    <2> QED
      BY <2>5, <2>6
  <1>18. ASSUME NEW w \in Workers, Receive(w) PROVE TypeOK' /\ FlowInv'
    <2>1. PICK n \in 0..Len(msgToWorker[w]) :
             /\ gotByWorker' = [gotByWorker EXCEPT ![w] = gotByWorker[w] \o SubSeq(msgToWorker[w], 1, n)]
             /\ threw' = IF n < Len(msgToWorker[w]) THEN threw \cup {w} ELSE threw
      BY <1>0, <1>18 DEF Receive, TypeOK
    <2>2. /\ msgToWorker' = [msgToWorker EXCEPT ![w] = <<>>]
          /\ UNCHANGED <<outside, phase, hasRt, closed, released, posted, toParentVars>>
      BY <1>18 DEF Receive
    <2>3. msgToWorker[w] \in Seq(Nat) /\ gotByWorker[w] \in Seq(Nat)
      BY <1>0 DEF TypeOK
    <2>4. SubSeq(msgToWorker[w], 1, n) \in Seq(Nat)
      BY <2>1, <2>3
    <2>5. gotByWorker[w] \o SubSeq(msgToWorker[w], 1, n) \in Seq(Nat)
      BY <2>3, <2>4, ConcatProperties
    <2>6. /\ gotByWorker' \in [Workers -> Seq(Nat)] /\ msgToWorker' \in [Workers -> Seq(Nat)]
          /\ \A v \in Workers : Len(msgToWorker'[v]) <= Capacity
      <3>1. /\ msgToWorker \in [Workers -> Seq(Nat)] /\ 0 <= Capacity /\ gotByWorker \in [Workers -> Seq(Nat)]
            /\ \A v \in Workers : Len(msgToWorker[v]) <= Capacity
        BY <1>0, NotNegative DEF TypeOK
      <3>2. gotByWorker' \in [Workers -> Seq(Nat)] /\ msgToWorker' \in [Workers -> Seq(Nat)]
        BY <2>1, <2>2, <2>5, <3>1, EmptyFacts
      <3>3. \A v \in Workers : msgToWorker'[v] = msgToWorker[v] \/ msgToWorker'[v] = <<>>
        BY <2>2, <3>1
      <3> QED
        BY <3>1, <3>2, <3>3, EmptyFacts
    <2>7. TypeOK'
      BY <1>0, <2>1, <2>2, <2>6 DEF TypeOK, outside, parentVars, toParentVars
    <2>8. FlowInv'
      BY <1>0, <2>2 DEF FlowInv, Mute, outside, parentVars, toParentVars
    <2> QED
      BY <2>7, <2>8
  <1> QED
    BY <1>1, <1>2, <1>3, <1>4, <1>5, <1>6, <1>7, <1>10, <1>11, <1>12, <1>13, <1>15, <1>16, <1>17, <1>18, <1>20
       DEF Next, Goroutine, Delivery

-----------------------------------------------------------------------------
(* The messages of a channel, and of what has come out of it. *)
ToWorkerInv(w) ==
    /\ Ascending(ToWorker(w)) /\ Bounded(ToWorker(w), posted[w])
    /\ w \notin threw => ToWorker(w) = FirstOnes(posted[w])

ToParentInv(w) ==
    /\ Ascending(ToParent(w)) /\ Bounded(ToParent(w), sent[w])
    /\ Undisturbed(w) => ToParent(w) = FirstOnes(sent[w])

OrderInv == \A w \in Workers : ToWorkerInv(w) /\ ToParentInv(w)

LEMMA InitOrder == Init => OrderInv
  <1> SUFFICES ASSUME Init, NEW w \in Workers PROVE ToWorkerInv(w) /\ ToParentInv(w)
    BY DEF OrderInv
  <1>1. /\ gotByWorker[w] = <<>> /\ msgToWorker[w] = <<>> /\ posted[w] = 0
        /\ gotByParent[w] = <<>> /\ batch[w] = <<>> /\ msgToParent[w] = <<>> /\ sent[w] = 0
    BY DEF Init, Empty
  <1>2. <<>> \o <<>> = <<>>
    BY EmptyFacts, ConcatEmptySeq
  <1>3. ToWorker(w) = <<>> /\ ToParent(w) = <<>>
    BY <1>1, <1>2 DEF ToWorker, ToParent
  <1> QED
    BY <1>1, <1>3, NothingAscends DEF ToWorkerInv, ToParentInv

(* What the types say of one worker. *)
LEMMA SeqsOf ==
    ASSUME TypeOK, NEW w \in Workers
    PROVE  /\ gotByWorker[w] \in Seq(Nat) /\ msgToWorker[w] \in Seq(Nat) /\ posted[w] \in Nat
           /\ gotByParent[w] \in Seq(Nat) /\ batch[w] \in Seq(Nat) /\ msgToParent[w] \in Seq(Nat)
           /\ sent[w] \in Nat
           /\ ToWorker(w) \in Seq(Nat) /\ ToParent(w) \in Seq(Nat)
           /\ gotByParent[w] \o batch[w] \in Seq(Nat)
  <1>1. /\ gotByWorker[w] \in Seq(Nat) /\ msgToWorker[w] \in Seq(Nat) /\ posted[w] \in Nat
        /\ gotByParent[w] \in Seq(Nat) /\ batch[w] \in Seq(Nat) /\ msgToParent[w] \in Seq(Nat)
        /\ sent[w] \in Nat
    BY DEF TypeOK
  <1>2. gotByParent[w] \o batch[w] \in Seq(Nat)
    BY <1>1, ConcatProperties
  <1>3. ToWorker(w) \in Seq(Nat) /\ ToParent(w) \in Seq(Nat)
    BY <1>1, <1>2, ConcatProperties DEF ToWorker, ToParent
  <1> QED
    BY <1>1, <1>2, <1>3

(* Concatenating an appended message, and moving the head of a sequence.     *)
LEMMA ConcatAppend ==
    ASSUME NEW a \in Seq(Nat), NEW c \in Seq(Nat), NEW x \in Nat
    PROVE  a \o Append(c, x) = Append(a \o c, x)
  <1>1. /\ <<x>> \in Seq(Nat) /\ a \o c \in Seq(Nat)
        /\ Append(c, x) = c \o <<x>> /\ Append(a \o c, x) = (a \o c) \o <<x>>
    BY AppendIsConcat, ConcatProperties
  <1>2. a \o (c \o <<x>>) = (a \o c) \o <<x>>
    BY <1>1, ConcatAssociative
  <1> QED
    BY <1>1, <1>2

LEMMA MoveHead ==
    ASSUME NEW a \in Seq(Nat), NEW b \in Seq(Nat), b # <<>>
    PROVE  Append(a, Head(b)) \o Tail(b) = a \o b
  <1>1. /\ Head(b) \in Nat /\ Tail(b) \in Seq(Nat) /\ <<Head(b)>> \in Seq(Nat)
        /\ Append(a, Head(b)) = a \o <<Head(b)>>
        /\ <<Head(b)>> \o Tail(b) = b
    <2>1. Head(b) \in Nat /\ Tail(b) \in Seq(Nat) /\ Len(Tail(b)) = Len(b) - 1 /\ Len(b) \in Nat \ {0}
          /\ \A i \in 1..Len(Tail(b)) : Tail(b)[i] = b[i + 1]
      OBVIOUS
    <2>2. <<Head(b)>> \in Seq(Nat) /\ Len(<<Head(b)>>) = 1 /\ <<Head(b)>>[1] = b[1]
      BY <2>1
    <2>3. /\ <<Head(b)>> \o Tail(b) \in Seq(Nat) /\ Len(<<Head(b)>> \o Tail(b)) = Len(b)
          /\ \A i \in 1..Len(b) : (<<Head(b)>> \o Tail(b))[i] = IF i <= 1 THEN <<Head(b)>>[i] ELSE Tail(b)[i - 1]
      BY <2>1, <2>2, ConcatProperties
    <2>4. \A i \in 1..Len(b) : (<<Head(b)>> \o Tail(b))[i] = b[i]
      BY <2>1, <2>2, <2>3
    <2>5. <<Head(b)>> \o Tail(b) = b
      BY <2>3, <2>4, SeqEqual
    <2> QED
      BY <2>1, <2>2, <2>5, AppendIsConcat
  <1>2. (a \o <<Head(b)>>) \o Tail(b) = a \o (<<Head(b)>> \o Tail(b))
    BY <1>1, ConcatAssociative
  <1> QED
    BY <1>1, <1>2

LEMMA PutOrder ==
    ASSUME TypeOK, NEW w \in Workers, NEW k \in Kinds, PutToParent(w, k), ToParentInv(w),
           UNCHANGED <<gotByParent, batch, reported, threw, active>>, phase'[w] # "none"
    PROVE  ToParentInv(w)'
  <1>1. /\ gotByParent[w] \o batch[w] \in Seq(Nat) /\ msgToParent[w] \in Seq(Nat) /\ sent[w] \in Nat
        /\ ToParent(w) \in Seq(Nat)
    BY SeqsOf
  <1>2. sent'[w] = sent[w] + 1 /\ msgToParent'[w] = Append(msgToParent[w], sent[w] + 1)
    BY DEF PutToParent, TypeOK
  <1>3. ToParent(w)' = Append(ToParent(w), sent[w] + 1)
    <2>1. ToParent(w)' = (gotByParent[w] \o batch[w]) \o Append(msgToParent[w], sent[w] + 1)
      BY <1>2 DEF ToParent
    <2>2. sent[w] + 1 \in Nat
      BY <1>1
    <2>3. (gotByParent[w] \o batch[w]) \o Append(msgToParent[w], sent[w] + 1)
            = Append((gotByParent[w] \o batch[w]) \o msgToParent[w], sent[w] + 1)
      BY <1>1, <2>2, ConcatAppend
    <2> QED
      BY <2>1, <2>3 DEF ToParent
  <1>4. Undisturbed(w)' => Undisturbed(w)
    BY DEF Undisturbed, NoFailure
  <1>5. Ascending(ToParent(w)) /\ Bounded(ToParent(w), sent[w])
    BY DEF ToParentInv
  <1>6. /\ Ascending(ToParent(w)') /\ Bounded(ToParent(w)', sent'[w])
        /\ ToParent(w) = FirstOnes(sent[w]) => ToParent(w)' = FirstOnes(sent'[w])
    BY <1>1, <1>2, <1>3, <1>5, NextAscends
  <1> QED
    BY <1>4, <1>6 DEF ToParentInv, Ascending, Bounded, FirstOnes

(* An error event is emitted for a message, which has a number. *)
LEMMA FailureNoted ==
    ASSUME TypeInv, NEW w \in Workers, DeliverError(w)
    PROVE  ~NoFailure'
  <1>1. 0 \notin errors[w] /\ Head(batch[w]) \in errors[w]
    BY DEF TypeInv, FlowInv, DeliverError
  <1>2. reported'[w] = Head(batch[w])
    BY DEF TypeInv, TypeOK, DeliverError
  <1> QED
    BY <1>1, <1>2 DEF NoFailure

LEMMA DropOrder ==
    ASSUME TypeOK, NEW w \in Workers, ToParentInv(w), batch'[w] = <<>> \/ batch'[w] = batch[w], ~Undisturbed(w)',
           UNCHANGED <<gotByParent, msgToParent, sent>>
    PROVE  ToParentInv(w)'
  <1>1. CASE batch'[w] = batch[w]
    BY <1>1 DEF ToParentInv, ToParent, Ascending, Bounded
  <1>2. CASE batch'[w] = <<>>
    <2>1. ToParent(w)' = gotByParent[w] \o <<>> \o msgToParent[w]
      BY <1>2 DEF ToParent
    <2>2. /\ Ascending(gotByParent[w] \o batch[w] \o msgToParent[w])
          /\ Bounded(gotByParent[w] \o batch[w] \o msgToParent[w], sent[w])
      BY DEF ToParentInv, ToParent
    <2>3. Ascending(ToParent(w)') /\ Bounded(ToParent(w)', sent[w])
      BY <2>1, <2>2, SeqsOf, DropAscends
    <2> QED
      BY <2>3 DEF ToParentInv, Ascending, Bounded
  <1> QED
    BY <1>1, <1>2

LEMMA StepOrder == TypeInv /\ OrderInv /\ [Next]_vars => OrderInv'
  <1> SUFFICES ASSUME TypeInv, OrderInv, [Next]_vars PROVE OrderInv'
    OBVIOUS
  <1>0. TypeOK /\ FlowInv /\ \A v \in Workers : ToWorkerInv(v) /\ ToParentInv(v)
    BY DEF TypeInv, OrderInv
  <1>1. ASSUME NEW v \in Workers, gotByWorker'[v] = gotByWorker[v], msgToWorker'[v] = msgToWorker[v],
               posted'[v] = posted[v], v \in threw => v \in threw'
        PROVE  ToWorkerInv(v)'
    <2>1. ToWorker(v)' = ToWorker(v)
      BY <1>1 DEF ToWorker
    <2> QED
      BY <1>0, <1>1, <2>1 DEF ToWorkerInv, Ascending, Bounded, FirstOnes
  <1>2. ASSUME NEW v \in Workers, ToParent(v)' = ToParent(v), sent'[v] = sent[v], Undisturbed(v)' => Undisturbed(v)
        PROVE  ToParentInv(v)'
    BY <1>0, <1>2 DEF ToParentInv, Ascending, Bounded, FirstOnes
  <1>3. ASSUME UNCHANGED <<gotByWorker, msgToWorker, posted>>, threw \subseteq threw'
        PROVE  \A v \in Workers : ToWorkerInv(v)'
    BY <1>1, <1>3
  <1>4. ASSUME UNCHANGED <<gotByParent, batch, msgToParent, sent>>,
               \A v \in Workers : Undisturbed(v)' => Undisturbed(v)
        PROVE  \A v \in Workers : ToParentInv(v)'
    BY <1>2, <1>4 DEF ToParent
  <1>5. CASE UNCHANGED vars
    BY <1>3, <1>4, <1>5 DEF OrderInv, Undisturbed, NoFailure, vars, parentVars, workerVars, toWorkerVars, toParentVars
  <1>6. ASSUME NEW w \in Workers, Create(w) PROVE OrderInv'
    <2>1. /\ UNCHANGED <<gotByWorker, msgToWorker, posted, threw, gotByParent, batch, msgToParent, sent, reported>>
          /\ phase[w] = "none" /\ active' = active \cup {w} /\ phase' = [phase EXCEPT ![w] = "starting"]
      BY <1>6 DEF Create, toWorkerVars, toParentVars
    <2>2. \A v \in Workers : Undisturbed(v)' => Undisturbed(v)
      BY <2>1 DEF Undisturbed, NoFailure
    <2> QED
      BY <1>3, <1>4, <2>1, <2>2 DEF OrderInv
  <1>7. ASSUME NEW w \in Workers, Post(w) PROVE OrderInv'
    <2>1. /\ posted'[w] = posted[w] + 1 /\ msgToWorker'[w] = Append(msgToWorker[w], posted[w] + 1)
          /\ \A v \in Workers : v # w => posted'[v] = posted[v] /\ msgToWorker'[v] = msgToWorker[v]
          /\ UNCHANGED <<gotByWorker, threw, phase, active, gotByParent, batch, msgToParent, sent, reported>>
      BY <1>0, <1>7 DEF Post, TypeOK, parentVars, workerVars, toParentVars
    <2>2. ToWorker(w)' = Append(ToWorker(w), posted[w] + 1)
      <3>1. gotByWorker[w] \in Seq(Nat) /\ msgToWorker[w] \in Seq(Nat) /\ posted[w] \in Nat
        BY <1>0, SeqsOf
      <3>2. posted[w] + 1 \in Nat
        BY <3>1
      <3>3. gotByWorker[w] \o Append(msgToWorker[w], posted[w] + 1) = Append(gotByWorker[w] \o msgToWorker[w], posted[w] + 1)
        BY <3>1, <3>2, ConcatAppend
      <3> QED
        BY <2>1, <3>3 DEF ToWorker
    <2>3. Ascending(ToWorker(w)) /\ Bounded(ToWorker(w), posted[w])
      BY <1>0 DEF ToWorkerInv
    <2>4. /\ Ascending(ToWorker(w)') /\ Bounded(ToWorker(w)', posted'[w])
          /\ ToWorker(w) = FirstOnes(posted[w]) => ToWorker(w)' = FirstOnes(posted'[w])
      BY <1>0, <2>1, <2>2, <2>3, SeqsOf, NextAscends
    <2>5. ToWorkerInv(w)'
      BY <1>0, <2>1, <2>4 DEF ToWorkerInv, Ascending, Bounded, FirstOnes
    <2>6. \A v \in Workers : ToWorkerInv(v)'
      BY <1>1, <2>1, <2>5
    <2>7. \A v \in Workers : ToParentInv(v)'
      BY <1>4, <2>1 DEF Undisturbed, NoFailure
    <2> QED
      BY <2>6, <2>7 DEF OrderInv
  <1>8. ASSUME NEW w \in Workers, Terminate(w) PROVE OrderInv'
    <2>1. /\ UNCHANGED <<gotByWorker, msgToWorker, posted, threw, phase, gotByParent, batch, msgToParent, sent, reported>>
          /\ active' \subseteq active
      BY <1>8 DEF Terminate, toWorkerVars, toParentVars
    <2>2. \A v \in Workers : Undisturbed(v)' => Undisturbed(v)
      BY <2>1 DEF Undisturbed, NoFailure
    <2> QED
      BY <1>3, <1>4, <2>1, <2>2 DEF OrderInv
  <1>9. CASE Terminated \/ Close
    BY <1>3, <1>4, <1>9 DEF OrderInv, Undisturbed, NoFailure, Terminated, Close, parentVars, workerVars, toWorkerVars, toParentVars
  <1>10. CASE TakeMessages
    <2>1. /\ UNCHANGED <<gotByWorker, msgToWorker, posted, threw, phase, active, gotByParent, sent, reported>>
          /\ \A v \in Workers :
               /\ batch[v] = <<>>
               /\ \/ batch'[v] = msgToParent[v] /\ msgToParent'[v] = <<>>
                  \/ batch'[v] = <<>> /\ msgToParent'[v] = msgToParent[v]
      BY <1>10 DEF TakeMessages, InBatch, workerVars, toWorkerVars
    <2>2. ASSUME NEW v \in Workers PROVE ToParent(v)' = ToParent(v)
      <3>1. /\ gotByParent[v] \in Seq(Nat) /\ msgToParent[v] \in Seq(Nat)
            /\ gotByParent[v] \o msgToParent[v] \in Seq(Nat)
        BY <1>0, SeqsOf, ConcatProperties
      <3>2. /\ gotByParent[v] \o <<>> = gotByParent[v]
            /\ (gotByParent[v] \o msgToParent[v]) \o <<>> = gotByParent[v] \o msgToParent[v]
        BY <3>1, ConcatEmptySeq
      <3> QED
        BY <2>1, <3>2 DEF ToParent
    <2> QED
      BY <1>2, <1>3, <2>1, <2>2 DEF OrderInv, Undisturbed, NoFailure
  <1>11. ASSUME NEW w \in Workers, Skip(w) PROVE OrderInv'
    <2>1. /\ w \notin active /\ batch[w] # <<>>
          /\ batch' = [batch EXCEPT ![w] = <<>>]
          /\ UNCHANGED <<gotByWorker, msgToWorker, posted, threw, phase, active, gotByParent, msgToParent, sent, reported>>
      BY <1>11 DEF Skip, First, InBatch, BatchTo, deliveryQuiet, workerVars, toWorkerVars, toParentVars
    <2>2. phase[w] # "none"
      <3>1. Len(msgToParent[w]) \in Nat /\ sent[w] \in Nat
        BY <1>0, SeqsOf, LenProperties
      <3> QED
        BY <1>0, <2>1, <3>1 DEF FlowInv
    <2>3. ~Undisturbed(w)'
      BY <2>1, <2>2 DEF Undisturbed, NoFailure
    <2>4. batch'[w] = <<>> /\ \A v \in Workers : v # w => batch'[v] = batch[v]
      BY <1>0, <2>1 DEF TypeOK
    <2>5. ToParentInv(w)'
      BY <1>0, <2>1, <2>3, <2>4, DropOrder
    <2>6. ASSUME NEW v \in Workers, v # w PROVE ToParentInv(v)'
      BY <1>2, <2>1, <2>4, <2>6 DEF ToParent, Undisturbed, NoFailure
    <2> QED
      BY <1>3, <2>1, <2>5, <2>6 DEF OrderInv
  <1>12. ASSUME NEW w \in Workers, Deliver(w) PROVE OrderInv'
    <2>1. /\ batch[w] # <<>>
          /\ gotByParent' = [gotByParent EXCEPT ![w] = Append(gotByParent[w], Head(batch[w]))]
          /\ \/ batch' = [batch EXCEPT ![w] = Tail(batch[w])] /\ UNCHANGED threw
             \/ batch' = Empty /\ threw' = threw \cup {None}
          /\ UNCHANGED <<gotByWorker, msgToWorker, posted, phase, active, msgToParent, sent, reported>>
      BY <1>0, <1>12 DEF Deliver, Turn, First, InBatch, BatchTo, BatchEnds, Behind, TypeOK, deliveryQuiet, workerVars, toWorkerVars, toParentVars
    <2>2. ASSUME NEW v \in Workers PROVE ToParentInv(v)'
      <3>1. CASE batch' = [batch EXCEPT ![w] = Tail(batch[w])] /\ UNCHANGED threw
        <4>1. gotByParent'[v] \o batch'[v] = gotByParent[v] \o batch[v]
          <5>1. CASE v = w
            <6>1. gotByParent'[w] = Append(gotByParent[w], Head(batch[w])) /\ batch'[w] = Tail(batch[w])
              BY <1>0, <2>1, <3>1 DEF TypeOK
            <6> QED
              <7>1. gotByParent[w] \in Seq(Nat) /\ batch[w] \in Seq(Nat)
                BY <1>0, SeqsOf
              <7>2. Append(gotByParent[w], Head(batch[w])) \o Tail(batch[w]) = gotByParent[w] \o batch[w]
                BY <2>1, <7>1, MoveHead
              <7> QED
                BY <5>1, <6>1, <7>2
          <5>2. CASE v # w
            BY <1>0, <2>1, <3>1, <5>2 DEF TypeOK
          <5> QED
            BY <5>1, <5>2
        <4> QED
          BY <1>2, <2>1, <3>1, <4>1 DEF ToParent, Undisturbed, NoFailure
      <3>2. CASE batch' = Empty /\ threw' = threw \cup {None}
        <4>1. batch'[v] = <<>> /\ ~Undisturbed(v)'
          BY <3>2 DEF Empty, Undisturbed, NoFailure
        <4>2. CASE v # w
          <5>1. gotByParent'[v] = gotByParent[v] /\ UNCHANGED <<msgToParent, sent>>
            BY <1>0, <2>1, <4>2 DEF TypeOK
          <5>2. ToParent(v)' = gotByParent[v] \o <<>> \o msgToParent[v]
            BY <4>1, <5>1 DEF ToParent
          <5>3. /\ Ascending(gotByParent[v] \o batch[v] \o msgToParent[v])
                /\ Bounded(gotByParent[v] \o batch[v] \o msgToParent[v], sent[v])
            BY <1>0 DEF ToParentInv, ToParent
          <5>4. Ascending(ToParent(v)') /\ Bounded(ToParent(v)', sent[v])
            BY <1>0, <5>2, <5>3, SeqsOf, DropAscends
          <5> QED
            BY <4>1, <5>1, <5>4 DEF ToParentInv, Ascending, Bounded
        <4>3. CASE v = w
          <5> DEFINE g == Append(gotByParent[w], Head(batch[w]))
                     t == Tail(batch[w])
          <5>1. gotByParent'[w] = g /\ UNCHANGED <<msgToParent, sent>>
            BY <1>0, <2>1 DEF TypeOK
          <5>2. /\ g \in Seq(Nat) /\ t \in Seq(Nat) /\ g \o t = gotByParent[w] \o batch[w]
                /\ msgToParent[w] \in Seq(Nat) /\ sent[w] \in Nat
            BY <1>0, <2>1, SeqsOf, TailFacts, AppendFacts, MoveHead
          <5> HIDE DEF g, t
          <5>3. Ascending(g \o t \o msgToParent[w]) /\ Bounded(g \o t \o msgToParent[w], sent[w])
            BY <1>0, <5>2 DEF ToParentInv, ToParent
          <5>4. ToParent(w)' = g \o <<>> \o msgToParent[w]
            BY <4>1, <4>3, <5>1 DEF ToParent
          <5>5. Ascending(ToParent(w)') /\ Bounded(ToParent(w)', sent[w])
            BY <5>2, <5>3, <5>4, DropAscends
          <5> QED
            BY <4>1, <4>3, <5>1, <5>5 DEF ToParentInv, Ascending, Bounded
        <4> QED
          BY <4>2, <4>3
      <3> QED
        BY <2>1, <3>1, <3>2
    <2>3. \A v \in Workers : ToWorkerInv(v)'
      BY <1>3, <2>1
    <2> QED
      BY <2>2, <2>3 DEF OrderInv
  <1>13. ASSUME NEW w \in Workers, DeliverError(w) \/ DeliverGarbled(w) PROVE OrderInv'
    <2>1. /\ batch' = Empty /\ threw \subseteq threw' /\ (None \in threw' \/ ~NoFailure')
          /\ UNCHANGED <<gotByWorker, msgToWorker, posted, phase, gotByParent, msgToParent, sent>>
      BY <1>13, FailureNoted DEF DeliverError, DeliverGarbled, BatchEnds, BatchTo, deliveryQuiet, workerVars, toWorkerVars, toParentVars
    <2>2. \A v \in Workers : batch'[v] = <<>> /\ ~Undisturbed(v)'
      BY <2>1 DEF Empty, Undisturbed, NoFailure
    <2>3. \A v \in Workers : ToParentInv(v)'
      BY <1>0, <2>1, <2>2, DropOrder
    <2> QED
      BY <1>3, <2>1, <2>3 DEF OrderInv
  <1>14. ASSUME NEW w \in Workers, StartFails(w) \/ Starts(w) \/ ScriptEnds(w) \/ LoopEnds(w) \/ Strands(w) PROVE OrderInv'
    <2>1. /\ phase[w] # "none" /\ (\E q : phase' = [phase EXCEPT ![w] = q] /\ q # "none")
          /\ UNCHANGED <<gotByWorker, msgToWorker, posted, threw, active, gotByParent, batch, msgToParent, sent, reported>>
      BY <1>14 DEF StartFails, Starts, ScriptEnds, LoopEnds, Strands, End, PhaseTo, outside, parentVars, toWorkerVars, toParentVars
    <2>2. \A v \in Workers : phase'[v] = "none" => phase[v] = "none"
      BY <1>0, <2>1 DEF TypeOK
    <2>3. \A v \in Workers : Undisturbed(v)' => Undisturbed(v)
      BY <2>1, <2>2 DEF Undisturbed, NoFailure
    <2> QED
      BY <1>3, <1>4, <2>1, <2>3 DEF OrderInv
  <1>15. ASSUME NEW w \in Workers, SendError(w) \/ PostToParent(w) PROVE OrderInv'
    <2>1. /\ phase[w] # "none"
          /\ phase' = phase \/ phase' = [phase EXCEPT ![w] = "ended"]
          /\ UNCHANGED <<gotByWorker, msgToWorker, posted, threw, active, gotByParent, batch, reported>>
      BY <1>15 DEF SendError, PostToParent, Running, End, PhaseTo, outside, parentVars, workerVars, toWorkerVars
    <2>2. PICK k \in Kinds : PutToParent(w, k)
      BY <1>15 DEF SendError, PostToParent, Kinds
    <2>3. phase'[w] # "none" /\ \A v \in Workers : v # w => phase'[v] = phase[v]
      BY <1>0, <2>1 DEF TypeOK
    <2>4. ToParentInv(w)'
      BY <1>0, <2>1, <2>2, <2>3, PutOrder
    <2>5. \A v \in Workers : v # w => msgToParent'[v] = msgToParent[v] /\ sent'[v] = sent[v]
      BY <1>0, <2>2 DEF PutToParent, TypeOK
    <2>6. ASSUME NEW v \in Workers, v # w PROVE ToParentInv(v)'
      BY <1>2, <2>1, <2>3, <2>5, <2>6 DEF ToParent, Undisturbed, NoFailure
    <2> QED
      BY <1>3, <2>1, <2>4, <2>6 DEF OrderInv
  <1>16. ASSUME NEW w \in Workers, Receive(w) PROVE OrderInv'
    <2>1. PICK n \in 0..Len(msgToWorker[w]) :
             /\ gotByWorker' = [gotByWorker EXCEPT ![w] = gotByWorker[w] \o SubSeq(msgToWorker[w], 1, n)]
             /\ threw' = IF n < Len(msgToWorker[w]) THEN threw \cup {w} ELSE threw
      BY <1>0, <1>16 DEF Receive, TypeOK
    <2>2. /\ msgToWorker' = [msgToWorker EXCEPT ![w] = <<>>]
          /\ UNCHANGED <<phase, posted, active, gotByParent, batch, msgToParent, sent, reported>>
      BY <1>16 DEF Receive, outside, parentVars, toParentVars
    <2>3. ToWorker(w)' = gotByWorker[w] \o SubSeq(msgToWorker[w], 1, n) \o <<>>
      BY <1>0, <2>1, <2>2 DEF ToWorker, TypeOK
    <2>4. Ascending(gotByWorker[w] \o msgToWorker[w]) /\ Bounded(gotByWorker[w] \o msgToWorker[w], posted[w])
      BY <1>0 DEF ToWorkerInv, ToWorker
    <2>5. /\ Ascending(ToWorker(w)') /\ Bounded(ToWorker(w)', posted[w])
          /\ n = Len(msgToWorker[w]) => ToWorker(w)' = ToWorker(w)
      <3>1. gotByWorker[w] \in Seq(Nat) /\ msgToWorker[w] \in Seq(Nat) /\ posted[w] \in Nat
        BY <1>0, SeqsOf
      <3> QED
        BY <2>3, <2>4, <3>1, PrefixAscends DEF ToWorker
    <2>6. w \notin threw' => n = Len(msgToWorker[w]) /\ w \notin threw
      <3>1. Len(msgToWorker[w]) \in Nat
        BY <1>0, SeqsOf, LenProperties
      <3> QED
        BY <2>1, <3>1
    <2>7. ToWorkerInv(w)'
      BY <1>0, <2>2, <2>5, <2>6 DEF ToWorkerInv, Ascending, Bounded, FirstOnes
    <2>8. ASSUME NEW v \in Workers, v # w PROVE ToWorkerInv(v)'
      <3>1. gotByWorker'[v] = gotByWorker[v] /\ msgToWorker'[v] = msgToWorker[v] /\ (v \in threw => v \in threw')
        BY <1>0, <2>1, <2>2, <2>8 DEF TypeOK
      <3> QED
        BY <1>1, <2>2, <3>1
    <2>9. \A v \in Workers : Undisturbed(v)' => Undisturbed(v)
      <3>1. None \notin threw' => None \notin threw
        BY <2>1
      <3> QED
        BY <2>2, <3>1 DEF Undisturbed, NoFailure
    <2> QED
      BY <1>4, <2>2, <2>7, <2>8, <2>9 DEF OrderInv
  <1> QED
    BY <1>5, <1>6, <1>7, <1>8, <1>9, <1>10, <1>11, <1>12, <1>13, <1>14, <1>15, <1>16 DEF Next, Goroutine, Delivery

-----------------------------------------------------------------------------
LEMMA InitPanic == Init => OnlyEarlyTerminatePanics
  BY DEF Init, OnlyEarlyTerminatePanics

LEMMA StepPanic == TypeInv /\ OnlyEarlyTerminatePanics /\ [Next]_vars => OnlyEarlyTerminatePanics'
  <1> SUFFICES ASSUME TypeInv, OnlyEarlyTerminatePanics, [Next]_vars, life' = "panicked"
               PROVE  \E w \in Workers \ workers' : phase'[w] # "none" /\ gotByParent'[w] = <<>>
    BY DEF OnlyEarlyTerminatePanics
  <1>1. CASE UNCHANGED vars
    BY <1>1 DEF OnlyEarlyTerminatePanics, vars, parentVars, workerVars
  <1>2. ASSUME NEW w \in Workers, Terminate(w), life # "panicked"
        PROVE  \E v \in Workers \ workers' : phase'[v] # "none" /\ gotByParent'[v] = <<>>
    <2>1. w \in workers /\ LooksUnset(w) /\ workers' = workers \ {w} /\ UNCHANGED <<phase, gotByParent>>
      BY <1>2 DEF Terminate
    <2>2. phase[w] # "none"
      BY <2>1 DEF TypeInv, FlowInv
    <2>3. gotByParent[w] = <<>>
      <3>1. /\ w \notin hasRt => gotByParent[w] = <<>>
            /\ gotByParent[w] # <<>> => Len(msgToParent[w]) < sent[w]
        BY DEF TypeInv, FlowInv
      <3>2. Len(msgToParent[w]) \in Nat /\ sent[w] \in Nat
        BY SeqsOf, LenProperties DEF TypeInv
      <3> QED
        BY <2>1, <3>1, <3>2 DEF LooksUnset
    <2> QED
      BY <2>1, <2>2, <2>3
  <1>3. ASSUME life # "panicked", life' = life PROVE FALSE
    BY <1>3
  <1>4. ASSUME NEW w \in Workers,
               \/ Create(w) \/ Post(w) \/ Goroutine(w) \/ PostToParent(w) \/ Receive(w)
               \/ Skip(w) \/ Deliver(w) \/ DeliverGarbled(w) \/ DeliverError(w)
        PROVE  life' = life
    BY <1>4 DEF Create, Post, Goroutine, StartFails, Starts, ScriptEnds, Strands, SendError, LoopEnds, PostToParent, Receive,
                Skip, Deliver, DeliverGarbled, DeliverError, outside, deliveryQuiet
  <1>5. TakeMessages \/ Terminated => life' = life
    BY DEF TakeMessages, Terminated
  <1>7. ~Close
    BY DEF Close
  <1>6. ASSUME Next PROVE \E w \in Workers : Terminate(w) /\ life # "panicked"
    <2>1. life # "panicked"
      BY <1>6 DEF Next
    <2> QED
      BY <1>3, <1>4, <1>5, <1>6, <1>7, <2>1 DEF Next, Delivery
  <1> QED
    BY <1>1, <1>2, <1>6

-----------------------------------------------------------------------------
IInv == TypeInv /\ OrderInv /\ OnlyEarlyTerminatePanics

(* The inductive invariant of Workers. *)
THEOREM Invariance == Spec => []IInv
  <1>1. Init => IInv
    BY InitType, InitOrder, InitPanic DEF IInv
  <1>2. IInv /\ [Next]_vars => IInv'
    BY StepType, StepOrder, StepPanic DEF IInv
  <1> QED
    BY <1>1, <1>2, PTL DEF Spec

(* Type correctness of Workers. *)
THEOREM TypeCorrect == Spec => []TypeOK
  <1>1. IInv => TypeOK
    BY DEF IInv, TypeInv
  <1> QED
    BY <1>1, Invariance, PTL

(* Messages are delivered once and in order, and none is lost that the code  *)
(* does not drop (the two channels, the batch of processEvents).             *)
THEOREM NothingLost == Spec => []MessagesAccounted
  <1>1. IInv => MessagesAccounted
    BY DEF IInv, OrderInv, ToWorkerInv, ToParentInv, Undisturbed, NoFailure, MessagesAccounted
  <1> QED
    BY <1>1, Invariance, PTL

(* terminate() panics only before the first message event of the worker.     *)
THEOREM PanicsOnlyEarly == Spec => []OnlyEarlyTerminatePanics
  <1>1. IInv => OnlyEarlyTerminatePanics
    BY DEF IInv
  <1> QED
    BY <1>1, Invariance, PTL
-----------------------------------------------------------------------------
(* Workers implements Mailboxes. *)

(* What is left of a sequence whose front was taken. *)
LEMMA RestFacts ==
    ASSUME NEW q \in Seq(Nat)
    PROVE  SubSeq(q, 0 + 1, Len(q)) = q /\ SubSeq(q, Len(q) + 1, Len(q)) = <<>>
  OBVIOUS

LEMMA ConcatRest ==
    ASSUME NEW b \in Seq(Nat), NEW m \in Seq(Nat)
    PROVE  /\ Len(b) \in 0..Len(b \o m)
           /\ <<>> \o m = SubSeq(b \o m, Len(b) + 1, Len(b \o m))
  <1> DEFINE s == b \o m
             t == SubSeq(s, Len(b) + 1, Len(s))
  <1>1. /\ Len(b) \in Nat /\ Len(m) \in Nat
        /\ s \in Seq(Nat) /\ Len(s) = Len(b) + Len(m)
        /\ \A i \in 1..(Len(b) + Len(m)) : s[i] = IF i <= Len(b) THEN b[i] ELSE m[i - Len(b)]
    BY LenProperties, ConcatProperties
  <1> HIDE DEF s
  <1>2. t \in Seq(Nat) /\ Len(t) = Len(m) /\ \A i \in 1..Len(m) : t[i] = s[Len(b) + i]
    BY <1>1
  <1> HIDE DEF t
  <1>3. ASSUME NEW i \in 1..Len(m) PROVE t[i] = m[i]
    <2>1. Len(b) + i \in 1..(Len(b) + Len(m)) /\ ~(Len(b) + i <= Len(b)) /\ (Len(b) + i) - Len(b) = i
      BY <1>1
    <2> QED
      BY <1>1, <1>2, <2>1
  <1>4. t = m
    BY <1>1, <1>2, <1>3, SeqEqual
  <1>5. <<>> \o m = m
    BY ConcatEmptySeq
  <1> QED
    BY <1>1, <1>4, <1>5 DEF s, t

LEMMA TailRest ==
    ASSUME NEW g \in Seq(Nat), NEW b \in Seq(Nat), NEW m \in Seq(Nat), b # <<>>
    PROVE  /\ 1 \in 1..Len(b \o m) /\ Len(b) \in 1..Len(b \o m)
           /\ Tail(b) \o m = SubSeq(b \o m, 1 + 1, Len(b \o m))
           /\ Append(g, Head(b)) = g \o SubSeq(b \o m, 1, 1)
  <1> DEFINE s == b \o m
             t == SubSeq(s, 2, Len(s))
             u == Tail(b) \o m
  <1>1. /\ Len(b) \in Nat \ {0} /\ Len(m) \in Nat
        /\ s \in Seq(Nat) /\ Len(s) = Len(b) + Len(m)
        /\ \A i \in 1..(Len(b) + Len(m)) : s[i] = IF i <= Len(b) THEN b[i] ELSE m[i - Len(b)]
    BY LenProperties, ConcatProperties
  <1>2. /\ Tail(b) \in Seq(Nat) /\ Len(Tail(b)) = Len(b) - 1 /\ \A i \in 1..(Len(b) - 1) : Tail(b)[i] = b[i + 1]
        /\ Head(b) = b[1] /\ Head(b) \in Nat
    OBVIOUS
  <1>3. /\ u \in Seq(Nat) /\ Len(u) = Len(b) - 1 + Len(m)
        /\ \A i \in 1..(Len(b) - 1 + Len(m)) : u[i] = IF i <= Len(b) - 1 THEN Tail(b)[i] ELSE m[i - (Len(b) - 1)]
    BY <1>2, ConcatProperties
  <1> HIDE DEF s, u
  <1>4. t \in Seq(Nat) /\ Len(t) = Len(s) - 1 /\ \A i \in 1..(Len(s) - 1) : t[i] = s[i + 1]
    BY <1>1
  <1>5. SubSeq(s, 1, 1) = <<s[1]>>
    <2>1. s[1] \in Nat /\ 1 \in 1..Len(s)
      BY <1>1
    <2>2. /\ SubSeq(s, 1, 1) \in Seq(Nat) /\ Len(SubSeq(s, 1, 1)) = 1
          /\ SubSeq(s, 1, 1)[1] = s[1]
      BY <1>1, <2>1
    <2>3. <<s[1]>> \in Seq(Nat) /\ Len(<<s[1]>>) = 1 /\ <<s[1]>>[1] = s[1]
      BY <2>1
    <2>4. \A i \in 1..1 : SubSeq(s, 1, 1)[i] = <<s[1]>>[i]
      BY <2>2, <2>3
    <2> QED
      BY <2>2, <2>3, <2>4, SeqEqual
  <1> HIDE DEF t
  <1>6. ASSUME NEW i \in 1..(Len(b) - 1 + Len(m)) PROVE t[i] = u[i]
    <2>1. i + 1 \in 1..(Len(b) + Len(m)) /\ i \in 1..(Len(s) - 1)
      BY <1>1
    <2>2. t[i] = IF i + 1 <= Len(b) THEN b[i + 1] ELSE m[(i + 1) - Len(b)]
      BY <1>1, <1>4, <2>1
    <2>3. CASE i <= Len(b) - 1
      BY <1>1, <1>2, <1>3, <2>2, <2>3
    <2>4. CASE ~(i <= Len(b) - 1)
      <3>1. (i + 1) - Len(b) = i - (Len(b) - 1) /\ ~(i + 1 <= Len(b))
        BY <1>1, <2>4
      <3> QED
        BY <1>3, <2>2, <2>4, <3>1
    <2> QED
      BY <2>3, <2>4
  <1>7. t = u
    <2>1. Len(t) = Len(u) /\ Len(u) = Len(b) - 1 + Len(m)
      BY <1>1, <1>3, <1>4
    <2> QED
      BY <2>1, <1>3, <1>4, <1>6, SeqEqual
  <1>8. s[1] = Head(b) /\ 1 \in 1..Len(s) /\ Len(b) \in 1..Len(s)
    BY <1>1, <1>2
  <1>9. Append(g, Head(b)) = g \o SubSeq(s, 1, 1)
    BY <1>2, <1>5, <1>8, AppendIsConcat
  <1> QED
    BY <1>7, <1>8, <1>9 DEF s, t, u

LEMMA InitMailboxes == Init => ToWorkers!Init /\ ToParents!Init
  <1> SUFFICES ASSUME Init PROVE ToWorkers!Init /\ ToParents!Init
    OBVIOUS
  <1>1. ToWorkers!Init
    BY DEF Init, Empty, ToWorkers!Init, Parents
  <1>2. \A w \in Workers : Undelivered(w) = <<>>
    BY EmptyFacts, ConcatEmptySeq DEF Init, Empty, Undelivered
  <1>3. ToParents!Init
    BY <1>2 DEF Init, Empty, ToParents!Init, Parents, Undisturbed, NoFailure
  <1> QED
    BY <1>1, <1>3

Gone == {"stranded", "ended"}

(* Threads die and mailboxes get unsound, and never the other way round.     *)
LEMMA Decay ==
    ASSUME TypeInv, [Next]_vars
    PROVE  /\ Parents' \subseteq Parents
           /\ released \subseteq released' /\ threw \subseteq threw'
           /\ \A w \in Workers : phase[w] \in Gone => phase'[w] \in Gone
           /\ \A w \in Workers : Undisturbed(w)' => Undisturbed(w)
  <1>1. life' = "open" => life = "open"
    BY DEF Next, vars, Create, Post, Terminate, Terminated, Close, Delivery, TakeMessages, Skip, Deliver, DeliverGarbled, DeliverError,
           Goroutine, StartFails, Starts, ScriptEnds, Strands, SendError, LoopEnds, PostToParent, Receive, Js, outside, deliveryQuiet
  <1>2. released \subseteq released' /\ threw \subseteq threw'
    BY DEF Next, vars, Create, Post, Terminate, Terminated, Close, Delivery, TakeMessages, Skip, Deliver, DeliverGarbled, DeliverError,
           Goroutine, StartFails, Starts, ScriptEnds, Strands, SendError, LoopEnds, PostToParent, Receive, End, outside, deliveryQuiet,
           parentVars, workerVars
  <1>3. ASSUME NEW w \in Workers
        PROVE  /\ phase[w] \in Gone => phase'[w] \in Gone
               /\ phase'[w] = "none" => phase[w] = "none"
               /\ w \in active' => w \in active \/ phase[w] = "none"
    BY DEF Gone, TypeInv, TypeOK, Next, vars, Create, Post, Terminate, Terminated, Close, Delivery, TakeMessages, Skip, Deliver, DeliverGarbled, DeliverError,
           Goroutine, StartFails, Starts, ScriptEnds, Strands, SendError, LoopEnds, PostToParent, Receive, Running, End, PhaseTo, outside, deliveryQuiet,
           parentVars, workerVars
  <1>4. NoFailure' => NoFailure
    <2>1. UNCHANGED reported \/ \E w \in Workers : DeliverError(w)
      BY DEF Next, vars, Create, Post, Terminate, Terminated, Close, Delivery, TakeMessages, Skip, Deliver, DeliverGarbled,
           Goroutine, StartFails, Starts, ScriptEnds, Strands, SendError, LoopEnds, PostToParent, Receive, outside, parentVars
    <2> QED
      BY <2>1, FailureNoted DEF NoFailure
  <1> QED
    BY <1>1, <1>2, <1>3, <1>4 DEF Parents, Undisturbed

LEMMA StepToWorkers == TypeInv /\ [Next]_vars => [ToWorkers!Next]_(ToWorkers!vars)
  <1> SUFFICES ASSUME TypeInv, [Next]_vars PROVE [ToWorkers!Next]_(ToWorkers!vars)
    OBVIOUS
  <1> USE DEF TypeInv
  <1>0. /\ Parents' \subseteq Parents /\ Workers \ released' \subseteq Workers \ released
        /\ Workers \ threw' \subseteq Workers \ threw
    BY Decay
  <1>1. ASSUME UNCHANGED <<posted, msgToWorker, gotByWorker>> PROVE [ToWorkers!Next]_(ToWorkers!vars)
    <2>1. CASE Workers = {}
      BY <1>0, <1>1, <2>1 DEF ToWorkers!vars, Parents
    <2>2. ASSUME NEW b \in Workers PROVE ToWorkers!Next
      <3>1. ASSUME NEW c \in Workers
            PROVE  0 \in (IF c = b THEN 0 ELSE 0)..Len(msgToWorker[c]) /\ msgToWorker'[c] = ToWorkers!Rest(msgToWorker[c], 0)
        BY <1>1, SeqsOf, RestFacts, LenProperties DEF ToWorkers!Rest
      <3>2. DOMAIN msgToWorker' = Workers
        BY <1>1 DEF TypeOK
      <3>3. ToWorkers!Lose(b)
        BY <1>1, <3>1, <3>2 DEF ToWorkers!Lose, ToWorkers!Leave
      <3> QED
        BY <1>0, <3>3 DEF ToWorkers!Next
    <2> QED
      BY <2>1, <2>2
  <1>2. ASSUME NEW w \in Workers, Post(w) PROVE ToWorkers!Next
    <2>1. ToWorkers!Write(w)
      BY <1>2 DEF Post, Js, Parents, workerVars, ToWorkers!Write
    <2> QED
      BY <1>0, <2>1 DEF ToWorkers!Next
  <1>3. ASSUME NEW w \in Workers, Receive(w) PROVE ToWorkers!Next
    <2>1. PICK n \in 0..Len(msgToWorker[w]) :
             /\ gotByWorker' = [gotByWorker EXCEPT ![w] = gotByWorker[w] \o SubSeq(msgToWorker[w], 1, n)]
             /\ threw' = IF n < Len(msgToWorker[w]) THEN threw \cup {w} ELSE threw
      BY <1>3 DEF Receive, TypeOK
    <2>2. msgToWorker' = [msgToWorker EXCEPT ![w] = <<>>] /\ UNCHANGED posted /\ w \in Workers \ released
      BY <1>3 DEF Receive
    <2>3. \A c \in Workers : msgToWorker[c] \in Seq(Nat) /\ Len(msgToWorker[c]) \in Nat
      BY SeqsOf, LenProperties
    <2>4. ASSUME NEW c \in Workers
          PROVE  \E k \in (IF c = w THEN n ELSE 0)..Len(msgToWorker[c]) :
                    /\ msgToWorker'[c] = ToWorkers!Rest(msgToWorker[c], k)
                    /\ c \in Workers \ threw' => k = IF c = w THEN n ELSE 0
      <3>1. CASE c # w
        <4>1. msgToWorker'[c] = msgToWorker[c]
          BY <2>2, <3>1 DEF TypeOK
        <4>2. msgToWorker[c] = ToWorkers!Rest(msgToWorker[c], 0)
          BY <2>3, RestFacts DEF ToWorkers!Rest
        <4> QED
          BY <2>3, <3>1, <4>1, <4>2
      <3>2. CASE c = w
        <4>1. msgToWorker'[w] = <<>>
          BY <2>2 DEF TypeOK
        <4>2. <<>> = ToWorkers!Rest(msgToWorker[w], Len(msgToWorker[w]))
          BY <2>3, RestFacts DEF ToWorkers!Rest
        <4>3. w \notin threw' => Len(msgToWorker[w]) = n
          BY <2>1, <2>3
        <4>4. Len(msgToWorker[w]) \in n..Len(msgToWorker[w])
          BY <2>1, <2>3
        <4> QED
          BY <3>2, <4>1, <4>2, <4>3, <4>4
      <3> QED
        BY <3>1, <3>2
    <2>5. DOMAIN msgToWorker' = Workers
      BY <2>2 DEF TypeOK
    <2>6. ToWorkers!Read(w, n)
      BY <2>1, <2>2, <2>4, <2>5 DEF ToWorkers!Read, ToWorkers!Leave
    <2>7. CASE n = 0
      <3>1. gotByWorker' = gotByWorker
        <4>1. SubSeq(msgToWorker[w], 1, 0) = <<>> /\ gotByWorker[w] \o <<>> = gotByWorker[w]
          BY <2>3, SeqsOf, ConcatEmptySeq
        <4> QED
          BY <2>1, <2>7, <4>1 DEF TypeOK
      <3>2. ToWorkers!Lose(w)
        BY <2>2, <2>4, <2>5, <2>7, <3>1 DEF ToWorkers!Lose, ToWorkers!Leave
      <3> QED
        BY <1>0, <3>2 DEF ToWorkers!Next
    <2>8. CASE n # 0
      BY <1>0, <2>1, <2>6, <2>8 DEF ToWorkers!Next
    <2> QED
      BY <2>7, <2>8
  <1>4. \/ UNCHANGED <<posted, msgToWorker, gotByWorker>>
        \/ \E w \in Workers : Post(w) \/ Receive(w)
    BY DEF Next, vars, Create, Terminate, Terminated, Close, Delivery, TakeMessages, Skip, Deliver, DeliverGarbled, DeliverError,
           Goroutine, StartFails, Starts, ScriptEnds, Strands, SendError, LoopEnds, PostToParent, deliveryQuiet,
           workerVars, toWorkerVars
  <1> QED
    BY <1>1, <1>2, <1>3, <1>4

LEMMA StepToParents == TypeInv /\ [Next]_vars => [ToParents!Next]_(ToParents!vars)
  <1> SUFFICES ASSUME TypeInv, [Next]_vars PROVE [ToParents!Next]_(ToParents!vars)
    OBVIOUS
  <1> DEFINE Boxed == [w \in Workers |-> Undelivered(w)]
             Sound == {w \in Workers : Undisturbed(w)}
             Living == {w \in Workers : phase[w] \notin {"stranded", "ended"}}
  <1>0. TypeOK /\ FlowInv
    BY DEF TypeInv
  <1>1. Parents' \subseteq Parents /\ Living' \subseteq Living /\ Sound' \subseteq Sound
    BY Decay DEF Gone
  <1>2. \A w \in Workers :
          /\ gotByParent[w] \in Seq(Nat) /\ batch[w] \in Seq(Nat) /\ msgToParent[w] \in Seq(Nat)
          /\ Undelivered(w) \in Seq(Nat) /\ Len(Undelivered(w)) \in Nat
          /\ sent[w] \in Nat
    BY <1>0, SeqsOf, ConcatProperties, LenProperties DEF Undelivered
  <1>3. \A w \in Workers : Undelivered(w) = ToParents!Rest(Undelivered(w), 0)
    BY <1>2, RestFacts DEF ToParents!Rest
  <1>4. ASSUME NEW w \in Workers, batch'[w] = <<>>, msgToParent'[w] = msgToParent[w]
        PROVE  /\ Undelivered(w)' = ToParents!Rest(Undelivered(w), Len(batch[w]))
               /\ Len(batch[w]) \in 0..Len(Undelivered(w))
    BY <1>2, <1>4, ConcatRest DEF Undelivered, ToParents!Rest
  (* The steps that deliver nothing and lose at most what was in the batch.   *)
  <1>5. ASSUME UNCHANGED <<sent, gotByParent>>,
               \A c \in Workers : \/ Undelivered(c)' = Undelivered(c)
                                  \/ c \notin Sound' /\ batch'[c] = <<>> /\ msgToParent'[c] = msgToParent[c]
        PROVE  [ToParents!Next]_(ToParents!vars)
    <2>1. CASE Workers = {}
      BY <1>1, <1>5, <2>1 DEF ToParents!vars, Parents
    <2>2. ASSUME NEW b \in Workers PROVE ToParents!Next
      <3>1. ASSUME NEW c \in Workers
            PROVE  \E k \in 0..Len(Undelivered(c)) :
                      /\ Undelivered(c)' = ToParents!Rest(Undelivered(c), k)
                      /\ c \in Sound' => k = 0
        <4>1. CASE Undelivered(c)' = Undelivered(c)
          BY <1>2, <1>3, <4>1
        <4>2. CASE c \notin Sound' /\ batch'[c] = <<>> /\ msgToParent'[c] = msgToParent[c]
          BY <1>4, <4>2
        <4> QED
          BY <1>5, <4>1, <4>2
      <3>2. ToParents!Lose(b)
        BY <1>5, <3>1 DEF ToParents!Lose, ToParents!Leave
      <3> QED
        BY <1>1, <3>2 DEF ToParents!Next
    <2> QED
      BY <2>1, <2>2
  <1>6. ASSUME NEW w \in Workers, SendError(w) \/ PostToParent(w) PROVE ToParents!Next
    <2>1. phase[w] \notin {"stranded", "ended"} /\ UNCHANGED <<batch, gotByParent>>
      BY <1>6 DEF SendError, PostToParent, Running, outside, parentVars
    <2>2. sent' = [sent EXCEPT ![w] = sent[w] + 1] /\ msgToParent' = [msgToParent EXCEPT ![w] = Append(msgToParent[w], sent'[w])]
      BY <1>6 DEF SendError, PostToParent, PutToParent
    <2>3. sent'[w] = sent[w] + 1 /\ sent'[w] \in Nat
      <3>1. sent' = [sent EXCEPT ![w] = sent[w] + 1] /\ sent \in [Workers -> Nat]
        BY <1>0, <2>2 DEF TypeOK
      <3> QED
        BY <3>1
    <2>4. Undelivered(w)' = Append(Undelivered(w), sent'[w])
      <3>1. msgToParent'[w] = Append(msgToParent[w], sent'[w])
        BY <1>0, <2>2 DEF TypeOK
      <3>2. batch[w] \in Seq(Nat) /\ msgToParent[w] \in Seq(Nat)
        BY <1>2
      <3>3. batch[w] \o Append(msgToParent[w], sent'[w]) = Append(batch[w] \o msgToParent[w], sent'[w])
        BY <2>3, <3>2, ConcatAppend
      <3> QED
        BY <2>1, <3>1, <3>3 DEF Undelivered
    <2>5. \A c \in Workers : c # w => Undelivered(c)' = Undelivered(c)
      BY <1>0, <2>1, <2>2 DEF Undelivered, TypeOK
    <2>6. Boxed' = [Boxed EXCEPT ![w] = Append(Undelivered(w), sent'[w])]
      BY <2>4, <2>5
    <2>7. ToParents!Write(w)
      BY <2>1, <2>2, <2>6 DEF ToParents!Write
    <2> QED
      BY <1>1, <2>7 DEF ToParents!Next
  <1>7. ASSUME NEW w \in Workers, Deliver(w) PROVE ToParents!Next
    <2>1. /\ batch[w] # <<>> /\ w \in Parents
          /\ gotByParent' = [gotByParent EXCEPT ![w] = Append(gotByParent[w], Head(batch[w]))]
          /\ \/ batch' = [batch EXCEPT ![w] = Tail(batch[w])]
             \/ batch' = Empty /\ None \in threw'
          /\ UNCHANGED <<msgToParent, sent>>
      BY <1>0, <1>7 DEF Deliver, Turn, Js, Parents, First, InBatch, BatchTo, BatchEnds, Behind, TypeOK, deliveryQuiet, toParentVars
    <2>2. /\ 1 \in 1..Len(Undelivered(w)) /\ Len(batch[w]) \in 1..Len(Undelivered(w))
          /\ Tail(batch[w]) \o msgToParent[w] = ToParents!Rest(Undelivered(w), 1)
          /\ Append(gotByParent[w], Head(batch[w])) = gotByParent[w] \o SubSeq(Undelivered(w), 1, 1)
      BY <1>2, <2>1, TailRest DEF Undelivered, ToParents!Rest
    <2>3. ASSUME NEW c \in Workers
          PROVE  \E k \in (IF c = w THEN 1 ELSE 0)..Len(Undelivered(c)) :
                    /\ Undelivered(c)' = ToParents!Rest(Undelivered(c), k)
                    /\ c \in Sound' => k = IF c = w THEN 1 ELSE 0
      <3>1. CASE batch' = [batch EXCEPT ![w] = Tail(batch[w])]
        <4>1. CASE c = w
          <5>1. Undelivered(w)' = Tail(batch[w]) \o msgToParent[w]
            BY <1>0, <2>1, <3>1 DEF Undelivered, TypeOK
          <5> QED
            BY <2>2, <4>1, <5>1
        <4>2. CASE c # w
          <5>1. Undelivered(c)' = Undelivered(c)
            BY <1>0, <2>1, <3>1, <4>2 DEF Undelivered, TypeOK
          <5> QED
            BY <1>2, <1>3, <4>2, <5>1
        <4> QED
          BY <4>1, <4>2
      <3>2. CASE batch' = Empty /\ None \in threw'
        <4>1. c \notin Sound' /\ batch'[c] = <<>> /\ msgToParent'[c] = msgToParent[c]
          BY <2>1, <3>2 DEF Undisturbed, NoFailure, Empty
        <4>2. /\ Undelivered(c)' = ToParents!Rest(Undelivered(c), Len(batch[c]))
              /\ Len(batch[c]) \in 0..Len(Undelivered(c))
          BY <1>4, <4>1
        <4>3. Len(batch[c]) \in (IF c = w THEN 1 ELSE 0)..Len(Undelivered(c))
          BY <2>2, <4>2
        <4> QED
          BY <4>1, <4>2, <4>3
      <3> QED
        BY <2>1, <3>1, <3>2
    <2>4. ToParents!Read(w, 1)
      BY <2>1, <2>2, <2>3 DEF ToParents!Read, ToParents!Leave
    <2> QED
      BY <1>1, <2>2, <2>4 DEF ToParents!Next
  <1>8. CASE TakeMessages
    <2>1. /\ UNCHANGED <<gotByParent, sent>>
          /\ \A v \in Workers :
               /\ batch[v] = <<>>
               /\ \/ batch'[v] = msgToParent[v] /\ msgToParent'[v] = <<>>
                  \/ batch'[v] = <<>> /\ msgToParent'[v] = msgToParent[v]
      BY <1>8 DEF TakeMessages, InBatch
    <2>2. ASSUME NEW v \in Workers PROVE Undelivered(v)' = Undelivered(v)
      <3>1. msgToParent[v] \in Seq(Nat)
        BY <1>2
      <3>2. msgToParent[v] \o <<>> = msgToParent[v] /\ <<>> \o msgToParent[v] = msgToParent[v]
        BY <3>1, ConcatEmptySeq
      <3> QED
        BY <2>1, <3>2 DEF Undelivered
    <2> QED
      BY <1>5, <2>1, <2>2
  <1>9. ASSUME NEW w \in Workers, Skip(w) PROVE [ToParents!Next]_(ToParents!vars)
    <2>1. /\ w \notin active' /\ batch[w] # <<>> /\ phase' = phase
          /\ batch' = [batch EXCEPT ![w] = <<>>]
          /\ UNCHANGED <<gotByParent, msgToParent, sent>>
      BY <1>9 DEF Skip, First, InBatch, BatchTo, deliveryQuiet, workerVars, toParentVars
    <2>2. phase[w] # "none"
      BY <1>0, <1>2, <2>1, LenProperties DEF FlowInv
    <2>3. w \notin Sound'
      BY <2>1, <2>2 DEF Undisturbed, NoFailure
    <2>4. batch'[w] = <<>> /\ \A v \in Workers : v # w => batch'[v] = batch[v]
      BY <1>0, <2>1 DEF TypeOK
    <2>5. \A c \in Workers : \/ Undelivered(c)' = Undelivered(c)
                             \/ c \notin Sound' /\ batch'[c] = <<>> /\ msgToParent'[c] = msgToParent[c]
      BY <2>1, <2>3, <2>4 DEF Undelivered
    <2> QED
      BY <1>5, <2>1, <2>5
  <1>10. ASSUME NEW w \in Workers, DeliverError(w) \/ DeliverGarbled(w) PROVE [ToParents!Next]_(ToParents!vars)
    <2>1. batch' = Empty /\ (None \in threw' \/ ~NoFailure') /\ UNCHANGED <<gotByParent, msgToParent, sent>>
      BY <1>10, FailureNoted DEF DeliverError, DeliverGarbled, BatchEnds, BatchTo, deliveryQuiet, toParentVars
    <2>2. \A c \in Workers : c \notin Sound' /\ batch'[c] = <<>> /\ msgToParent'[c] = msgToParent[c]
      BY <2>1 DEF Undisturbed, NoFailure, Empty
    <2> QED
      BY <1>5, <2>1, <2>2
  <1>11. \/ UNCHANGED <<sent, gotByParent, batch, msgToParent>> \/ TakeMessages
         \/ \E w \in Workers : SendError(w) \/ PostToParent(w) \/ Deliver(w) \/ Skip(w)
                                \/ DeliverError(w) \/ DeliverGarbled(w)
    BY DEF Next, vars, Create, Post, Terminate, Terminated, Close, Delivery,
           Goroutine, StartFails, Starts, ScriptEnds, Strands, LoopEnds, Receive, outside, parentVars, toParentVars
  <1>12. CASE UNCHANGED <<sent, gotByParent, batch, msgToParent>>
    BY <1>5, <1>12 DEF Undelivered
  <1> QED
    BY <1>6, <1>7, <1>8, <1>9, <1>10, <1>11, <1>12

(* Workers implements Mailboxes, in both directions (worker.go: messages are *)
(* dropped only on full channels, by a handler that throws, and at the end). *)
THEOREM Refinement == Spec => ImplementsMailboxes
  <1>1. IInv /\ [Next]_vars => [ToWorkers!Next]_(ToWorkers!vars) /\ [ToParents!Next]_(ToParents!vars)
    BY StepToWorkers, StepToParents DEF IInv, TypeInv
  <1> QED
    BY <1>1, InitMailboxes, Invariance, PTL DEF Spec, ImplementsMailboxes, ToWorkers!Spec, ToParents!Spec
=============================================================================

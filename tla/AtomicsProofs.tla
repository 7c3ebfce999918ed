---------------------------- MODULE AtomicsProofs ----------------------------
(***************************************************************************)
(* Proofs that waits, notifies and timers agree, that no promise of        *)
(* waitAsync is lost, and that updates are atomic and exact, for any cells,*)
(* waits and agents, and for any width of a cell.                          *)
(***************************************************************************)
EXTENDS AtomicsProps, ChannelLemmas, FiniteSetTheorems, SequenceTheorems, NaturalsInduction, WellFoundedInduction

LEMMA EmptyQueue == << >> \in Seq(Waits) /\ NoRepeat(<< >>) /\ \A w : ~Holds(<< >>, w)
  <1>1. << >> \in Seq(Waits) /\ DOMAIN << >> = {}
    OBVIOUS
  <1> QED
    BY <1>1 DEF NoRepeat, Holds

(* Cutting a waiter out of a queue leaves the others. *)
LEMMA CutHolds ==
    ASSUME NEW S, NEW s \in Seq(S), NEW k \in 1..Len(s), NoRepeat(s)
    PROVE  LET t == SubSeq(s, 1, k - 1) \o SubSeq(s, k + 1, Len(s))
           IN  t \in Seq(S) /\ NoRepeat(t) /\ \A g : Holds(t, g) <=> Holds(s, g) /\ g # s[k]
  <1> DEFINE a == SubSeq(s, 1, k - 1)
             b == SubSeq(s, k + 1, Len(s))
             t == a \o b
             n == Len(s)
  <1>0. n \in Nat /\ k \in Nat /\ 1 <= k /\ k <= n /\ DOMAIN s = 1..n /\ n = Len(s)
    OBVIOUS
  <1>1. a \in Seq(S) /\ Len(a) = k - 1 /\ \A i \in 1..(k - 1) : a[i] = s[i]
    BY <1>0
  <1>2. b \in Seq(S) /\ Len(b) = n - k /\ \A i \in 1..(n - k) : b[i] = s[i + k]
    <2>1. CASE k = n
      <3>1. b = << >> /\ n - k = 0
        BY <1>0, <2>1
      <3> QED
        BY <3>1
    <2>2. CASE k < n
      <3>1. k + 1 \in 1..n /\ n \in 1..n /\ k + 1 <= n
        BY <1>0, <2>2
      <3>2. b \in Seq(S) /\ Len(b) = n - k
        BY <1>0, <3>1
      <3>3. ASSUME NEW i \in 1..(n - k) PROVE b[i] = s[i + k]
        <4>1. b[i] = s[(k + 1) + i - 1] /\ (k + 1) + i - 1 = i + k
          BY <1>0, <3>1
        <4> QED
          BY <4>1
      <3> QED
        BY <3>2, <3>3
    <2>3. k = n \/ k < n
      <3>1. \A x, y \in Nat : x <= y => x = y \/ x < y
        OBVIOUS
      <3> HIDE DEF a, b, n
      <3> QED
        BY <1>0, <3>1
    <2> HIDE DEF a, b, n
    <2> QED
      BY <2>1, <2>2, <2>3
  <1> HIDE DEF a, b, n
  <1>3. /\ t \in Seq(S) /\ Len(t) = (k - 1) + (n - k)
        /\ \A i \in 1..((k - 1) + (n - k)) : t[i] = IF i <= k - 1 THEN a[i] ELSE b[i - (k - 1)]
    <2>1. /\ a \o b \in Seq(S) /\ Len(a \o b) = Len(a) + Len(b)
          /\ \A i \in 1..(Len(a) + Len(b)) : (a \o b)[i] = IF i <= Len(a) THEN a[i] ELSE b[i - Len(a)]
      BY <1>1, <1>2, ConcatProperties
    <2> QED
      BY <1>1, <1>2, <2>1
  <1>4. (k - 1) + (n - k) = n - 1
    BY <1>0
  <1>5. t \in Seq(S) /\ Len(t) = n - 1 /\ DOMAIN t = 1..(n - 1)
    BY <1>3, <1>4, LenProperties
  <1> HIDE DEF t
  <1>6. ASSUME NEW i \in 1..(n - 1)
        PROVE  t[i] = IF i <= k - 1 THEN s[i] ELSE s[i + 1]
    <2>1. t[i] = IF i <= k - 1 THEN a[i] ELSE b[i - (k - 1)]
      BY <1>3, <1>4
    <2>2. CASE i <= k - 1
      <3>1. i \in 1..(k - 1)
        BY <1>0, <2>2
      <3> QED
        BY <1>1, <2>1, <2>2, <3>1
    <2>3. CASE ~(i <= k - 1)
      <3>1. i - (k - 1) \in 1..(n - k) /\ (i - (k - 1)) + k = i + 1
        BY <1>0, <2>3
      <3> QED
        BY <1>2, <2>1, <2>3, <3>1
    <2> QED
      BY <2>2, <2>3
  <1> DEFINE At(i) == IF i <= k - 1 THEN i ELSE i + 1
  <1>7. /\ \A i \in 1..(n - 1) : At(i) \in 1..n /\ At(i) # k
        /\ \A i, j \in 1..(n - 1) : At(i) = At(j) => i = j
        /\ \A m \in 1..n : m # k => \E i \in 1..(n - 1) : At(i) = m
    <2>1. \A i \in 1..(n - 1) : At(i) \in 1..n /\ At(i) # k
      BY <1>0
    <2>2. \A i, j \in 1..(n - 1) : At(i) = At(j) => i = j
      BY <1>0
    <2>3. ASSUME NEW m \in 1..n, m # k PROVE \E i \in 1..(n - 1) : At(i) = m
      <3>1. CASE m < k
        <4>1. m \in 1..(n - 1) /\ At(m) = m
          BY <1>0, <3>1
        <4> QED
          BY <4>1
      <3>2. CASE m > k
        <4>1. m - 1 \in 1..(n - 1) /\ At(m - 1) = m
          BY <1>0, <3>2
        <4> QED
          BY <4>1
      <3> QED
        BY <1>0, <2>3, <3>1, <3>2
    <2> QED
      BY <2>1, <2>2, <2>3
  <1>8. \A i \in 1..(n - 1) : t[i] = s[At(i)]
    BY <1>6
  <1> HIDE DEF At
  <1>9. NoRepeat(t)
    <2>1. ASSUME NEW i \in 1..(n - 1), NEW j \in 1..(n - 1), t[i] = t[j] PROVE i = j
      <3>1. At(i) \in DOMAIN s /\ At(j) \in DOMAIN s /\ s[At(i)] = s[At(j)]
        BY <1>0, <1>7, <1>8, <2>1
      <3>2. At(i) = At(j)
        BY <3>1, NoRepeat(s) DEF NoRepeat
      <3> QED
        BY <1>7, <3>2
    <2> QED
      BY <1>5, <2>1 DEF NoRepeat
  <1>10. ASSUME NEW g PROVE Holds(t, g) <=> Holds(s, g) /\ g # s[k]
    <2>1. ASSUME Holds(t, g) PROVE Holds(s, g) /\ g # s[k]
      <3>1. PICK i \in 1..(n - 1) : t[i] = g
        BY <1>5, <2>1 DEF Holds
      <3>2. At(i) \in DOMAIN s /\ At(i) # k /\ s[At(i)] = g /\ k \in DOMAIN s
        BY <1>0, <1>7, <1>8, <3>1
      <3> QED
        BY <3>2, NoRepeat(s) DEF Holds, NoRepeat
    <2>2. ASSUME Holds(s, g), g # s[k] PROVE Holds(t, g)
      <3>1. PICK m \in 1..n : s[m] = g
        BY <1>0, <2>2 DEF Holds
      <3>2. m # k
        BY <2>2, <3>1
      <3>3. PICK i \in 1..(n - 1) : At(i) = m
        BY <1>7, <3>2
      <3> QED
        BY <1>5, <1>8, <3>1, <3>3 DEF Holds
    <2> QED
      BY <2>1, <2>2
  <1> QED
    BY <1>5, <1>9, <1>10 DEF t, a, b, n

LEMMA WithoutHolds ==
    ASSUME NEW S, NEW s \in Seq(S), NEW w, NoRepeat(s)
    PROVE  /\ Without(s, w) \in Seq(S) /\ NoRepeat(Without(s, w))
           /\ \A g : Holds(Without(s, w), g) <=> Holds(s, g) /\ g # w
  <1>1. CASE \E i \in DOMAIN s : s[i] = w
    <2> DEFINE First(i) == s[i] = w /\ \A j \in 1..(i - 1) : s[j] # w
               k == CHOOSE i \in DOMAIN s : First(i)
    <2>1. \E i \in DOMAIN s : First(i)
      <3>1. PICK i \in DOMAIN s : s[i] = w
        BY <1>1
      <3>2. \A j \in 1..(i - 1) : j \in DOMAIN s /\ j # i
        OBVIOUS
      <3> QED
        BY <3>1, <3>2, NoRepeat(s) DEF NoRepeat
    <2>2. k \in DOMAIN s /\ First(k)
      BY <2>1
    <2>3. Without(s, w) = SubSeq(s, 1, k - 1) \o SubSeq(s, k + 1, Len(s))
      BY <1>1 DEF Without
    <2> HIDE DEF k
    <2>4. k \in 1..Len(s) /\ s[k] = w
      BY <2>2
    <2> QED
      BY <2>3, <2>4, CutHolds
  <1>2. CASE ~\E i \in DOMAIN s : s[i] = w
    BY <1>2 DEF Without, Holds
  <1> QED
    BY <1>1, <1>2

(* The first n of a queue are n waiters, and leave the rest in it. *)
LEMMA FirstHolds ==
    ASSUME NEW S, NEW s \in Seq(S), NEW n \in 0..Len(s), NoRepeat(s)
    PROVE  LET F == {s[i] : i \in 1..n}
               q == SubSeq(s, n + 1, Len(s))
           IN  /\ q \in Seq(S) /\ NoRepeat(q)
               /\ \A g : Holds(q, g) <=> Holds(s, g) /\ g \notin F
               /\ \A g \in F : Holds(s, g)
               /\ IsFiniteSet(F) /\ Cardinality(F) = n
  <1> DEFINE F == {s[i] : i \in 1..n}
             q == SubSeq(s, n + 1, Len(s))
  <1>0. Len(s) \in Nat /\ n \in Nat /\ n <= Len(s) /\ DOMAIN s = 1..Len(s) /\ 1..n \subseteq DOMAIN s
    OBVIOUS
  <1>1. IsFiniteSet(F) /\ Cardinality(F) = n
    <2> DEFINE f == [i \in 1..n |-> s[i]]
    <2>1. f \in Bijection(1..n, F)
      <3>1. \A i, j \in 1..n : f[i] = f[j] => i = j
        BY <1>0, NoRepeat(s) DEF NoRepeat
      <3>2. f \in [1..n -> F] /\ \A g \in F : \E i \in 1..n : f[i] = g
        OBVIOUS
      <3> QED
        BY <3>1, <3>2 DEF Bijection, Injection, Surjection, IsInjective
    <2>2. ExistsBijection(1..n, F)
      BY <2>1 DEF ExistsBijection
    <2> QED
      BY <1>0, <2>2, FS_CountingElements, FS_NatBijection
  <1>2. CASE n = 0
    <2>1. F = {}
      BY <1>2
    <2>2. q = s
      <3>1. n + 1 = 1
        BY <1>2
      <3> QED
        BY <3>1, SubSeqFull
    <2> QED
      BY <1>1, <2>1, <2>2
  <1>3. CASE n # 0
    <2> DEFINE b == SubSeq(s, 1, n)
    <2>1. n \in 1..Len(s)
      BY <1>0, <1>3
    <2>2. /\ q \in Seq(S) /\ NoRepeat(q)
          /\ \A g : Holds(s, g) <=> Holds(b, g) \/ Holds(q, g)
          /\ \A g : ~(Holds(b, g) /\ Holds(q, g))
      BY <2>1, SplitHolds
    <2>3. \A g : Holds(b, g) <=> g \in F
      <3>1. DOMAIN b = 1..n /\ \A i \in 1..n : b[i] = s[i]
        BY <1>0, <2>1
      <3> QED
        BY <3>1 DEF Holds
    <2> HIDE DEF b, q, F
    <2>4. \A g : Holds(q, g) <=> Holds(s, g) /\ g \notin F
      BY <2>2, <2>3
    <2>5. \A g \in F : Holds(s, g)
      BY <2>2, <2>3
    <2> QED
      BY <1>1, <2>2, <2>4, <2>5 DEF q, F
  <1> QED
    BY <1>2, <1>3

-----------------------------------------------------------------------------
Ok      == {w \in Waits : answer[w] = "ok"}
Awaited == {w \in async : wpc[w] # "returned"}

Places == {"start", "load", "enqueue", "parked", "expired", "recheck", "resolve", "returned"}

Shape ==
    /\ queue \in [Cells -> Seq(Waits)] /\ token \subseteq Waits
    /\ wpc \in [Waits -> Places] /\ cell \in [Waits -> Cells] /\ async \subseteq Waits
    /\ answer \in [Waits -> {"none", "ok", "not-equal", "timed-out"}]
    /\ jsTurn \subseteq Waits /\ promise \in [Waits -> {"none", "pending", "settled"}]

(* Only those who wait are in a queue: in that of their cell, once, and not *)
(* woken.                                                                   *)
QueueInv ==
    \A c \in Cells :
        /\ NoRepeat(queue[c])
        /\ \A w \in Waits : Holds(queue[c], w) =>
             cell[w] = c /\ wpc[w] \in {"parked", "expired"} /\ w \notin token

WaitInv(w) ==
    /\ w \in token => wpc[w] \in {"parked", "expired", "recheck"}
    /\ wpc[w] \in {"parked", "expired"} => w \in token \/ Holds(queue[cell[w]], w)
    /\ answer[w] # "none" => wpc[w] \in {"resolve", "returned"}

PromiseInv(w) ==
    /\ wpc[w] = "start" => w \notin async /\ promise[w] = "none"
    /\ wpc[w] \in {"load", "resolve"} => w \in async
    /\ w \in jsTurn => w \in async /\ promise[w] = "none" /\ wpc[w] # "returned"
    /\ w \in async /\ w \notin jsTurn => promise[w] = IF wpc[w] = "returned" THEN "settled" ELSE "pending"

CountInv ==
    /\ IsFiniteSet(token \cup Ok) /\ woken = Cardinality(token \cup Ok)
    /\ IsFiniteSet(Awaited) /\ waitAsyncCount = Cardinality(Awaited)

IInv ==
    /\ Shape /\ QueueInv /\ CountInv
    /\ \A w \in Waits : WaitInv(w) /\ PromiseInv(w)

LEMMA InitIInv == Init => IInv
  <1> SUFFICES ASSUME Init PROVE IInv
    OBVIOUS
  <1>1. (CHOOSE c \in Cells : TRUE) \in Cells
    BY AtomicsAssumption
  <1>2. Shape
    BY <1>1, EmptyQueue DEF Init, Shape, Places
  <1>3. QueueInv
    BY EmptyQueue DEF Init, QueueInv
  <1>4. token \cup Ok = {} /\ Awaited = {}
    BY DEF Init, Ok, Awaited
  <1>5. CountInv
    BY <1>4, FS_EmptySet DEF Init, CountInv
  <1>6. ASSUME NEW w \in Waits PROVE WaitInv(w) /\ PromiseInv(w)
    BY DEF Init, WaitInv, PromiseInv
  <1> QED
    BY <1>2, <1>3, <1>5, <1>6 DEF IInv

-----------------------------------------------------------------------------
(* A step that moves wait w alone. *)
Moves(w) ==
    \A v \in Waits \ {w} :
        /\ wpc'[v] = wpc[v] /\ cell'[v] = cell[v] /\ answer'[v] = answer[v] /\ promise'[v] = promise[v]
        /\ v \in token' <=> v \in token
        /\ v \in async' <=> v \in async
        /\ v \in jsTurn' <=> v \in jsTurn

(* What the queues hold after it, apart from w. *)
QueuesKeep(w) ==
    \A c \in Cells :
        /\ NoRepeat(queue'[c])
        /\ \A v \in Waits \ {w} : Holds(queue'[c], v) <=> Holds(queue[c], v)

LEMMA OthersKeep ==
    ASSUME IInv, Shape', NEW w \in Waits, Moves(w), QueuesKeep(w), WaitInv(w)', PromiseInv(w)', CountInv',
           \A c \in Cells : Holds(queue'[c], w) =>
               cell'[w] = c /\ wpc'[w] \in {"parked", "expired"} /\ w \notin token'
    PROVE  IInv'
  <1>1. QueueInv'
    <2> SUFFICES ASSUME NEW c \in Cells
                 PROVE  /\ NoRepeat(queue'[c])
                        /\ \A v \in Waits : Holds(queue'[c], v) =>
                             cell'[v] = c /\ wpc'[v] \in {"parked", "expired"} /\ v \notin token'
      BY DEF QueueInv
    <2>1. ASSUME NEW v \in Waits \ {w}, Holds(queue'[c], v)
          PROVE  cell'[v] = c /\ wpc'[v] \in {"parked", "expired"} /\ v \notin token'
      BY <2>1 DEF QueuesKeep, Moves, IInv, QueueInv
    <2> QED
      BY <2>1 DEF QueuesKeep
  <1>2. ASSUME NEW v \in Waits \ {w} PROVE WaitInv(v)' /\ PromiseInv(v)'
    <2>1. WaitInv(v) /\ PromiseInv(v) /\ cell[v] \in Cells
      BY DEF IInv, Shape
    <2>2. Holds(queue[cell[v]], v) => Holds(queue'[cell[v]], v)
      BY <2>1 DEF QueuesKeep
    <2>3. WaitInv(v)'
      BY <2>1, <2>2 DEF WaitInv, Moves
    <2>4. PromiseInv(v)'
      BY <2>1 DEF PromiseInv, Moves
    <2> QED
      BY <2>3, <2>4
  <1> QED
    BY <1>1, <1>2 DEF IInv

(* A step that only agents see. *)
LEMMA QuietKeeps ==
    ASSUME IInv, UNCHANGED <<queue, token, wpc, cell, async, answer, jsTurn, promise, waitAsyncCount, woken>>
    PROVE  IInv'
  <1>1. Shape' /\ QueueInv'
    BY DEF IInv, Shape, QueueInv
  <1>2. CountInv'
    BY DEF IInv, CountInv, Ok, Awaited
  <1>3. \A w \in Waits : WaitInv(w)' /\ PromiseInv(w)'
    BY DEF IInv, WaitInv, PromiseInv
  <1> QED
    BY <1>1, <1>2, <1>3 DEF IInv

(* The queues stay as they are. *)
LEMMA SameQueues ==
    ASSUME IInv, queue' = queue, NEW w \in Waits
    PROVE  /\ QueuesKeep(w)
           /\ wpc[w] \notin {"parked", "expired"} => \A c \in Cells : ~Holds(queue'[c], w)
           /\ \A c \in Cells : Holds(queue'[c], w) => cell[w] = c /\ w \notin token
  BY DEF IInv, QueueInv, QueuesKeep

(* The counters, when a wait leaves the tokens and the answers "ok" alone, or *)
(* its token becomes its answer.                                              *)
LEMMA SameCount ==
    ASSUME IInv, woken' = woken, waitAsyncCount' = waitAsyncCount,
           token' \cup Ok' = token \cup Ok, Awaited' = Awaited
    PROVE  CountInv'
  BY DEF IInv, CountInv

-----------------------------------------------------------------------------
(* sabAtomicWait looks at the cell, called by a script or by the goroutine *)
(* of waitAsync.                                                           *)
LEMMA StepLoad ==
    ASSUME IInv, NEW w \in Waits, wpc[w] \in {"start", "load"}, NEW c \in Cells, NEW v, NEW t,
           LoadValue(w, c, v, t), UNCHANGED <<queue, token, promises, woken>>
    PROVE  IInv'
  <1>0. Shape /\ WaitInv(w) /\ PromiseInv(w)
    BY DEF IInv
  <1>1. PICK l \in {"enqueue", "resolve", "returned"}, r \in {"none", "not-equal", "timed-out"}, d \in Cells :
          /\ wpc' = [wpc EXCEPT ![w] = l] /\ cell' = [cell EXCEPT ![w] = d]
          /\ answer' = [answer EXCEPT ![w] = r] \/ answer' = answer
          /\ async' = async
          /\ w \in async => l # "returned"
          /\ l = "resolve" => w \in async
          /\ l = "enqueue" => answer' = answer
    <2>1. CASE Answer(w, "not-equal") \/ Answer(w, "timed-out")
      BY <1>0, <2>1 DEF Answer, Arguments, Shape
    <2>2. CASE wpc' = [wpc EXCEPT ![w] = "enqueue"] /\ Arguments(w, c, v, t) /\ UNCHANGED <<async, answer>>
      BY <1>0, <2>2 DEF Arguments
    <2> QED
      BY <2>1, <2>2 DEF LoadValue
  <1>2. /\ queue' = queue /\ token' = token /\ jsTurn' = jsTurn /\ promise' = promise
        /\ waitAsyncCount' = waitAsyncCount /\ woken' = woken
    BY DEF promises
  <1>3. Shape'
    BY <1>0, <1>1, <1>2 DEF Shape, Places
  <1>4. Moves(w)
    BY <1>0, <1>1, <1>2 DEF Moves, Shape
  <1>5. wpc'[w] = l /\ w \notin token /\ answer[w] # "ok" /\ answer'[w] # "ok"
    BY <1>0, <1>1 DEF Shape, WaitInv
  <1>6. Ok' = Ok /\ Awaited' = Awaited
    <2>1. Ok' = Ok
      BY <1>4, <1>5 DEF Ok, Moves
    <2>2. Awaited' = Awaited
      BY <1>1, <1>4, <1>5 DEF Awaited, Moves
    <2> QED
      BY <2>1, <2>2
  <1>7. CountInv'
    BY <1>2, <1>6, SameCount
  <1>8. WaitInv(w)' /\ PromiseInv(w)'
    <2>1. WaitInv(w)'
      BY <1>0, <1>1, <1>2, <1>5 DEF WaitInv, Shape
    <2>2. PromiseInv(w)'
      BY <1>0, <1>1, <1>2, <1>5 DEF PromiseInv
    <2> QED
      BY <2>1, <2>2
  <1>9. QueuesKeep(w) /\ \A e \in Cells : ~Holds(queue'[e], w)
    BY <1>2, SameQueues
  <1> QED
    BY <1>3, <1>4, <1>7, <1>8, <1>9, OthersKeep

LEMMA StepWaitAsync ==
    ASSUME IInv, NEW w \in Waits, WaitAsync(w)
    PROVE  IInv'
  <1>0. Shape /\ WaitInv(w) /\ PromiseInv(w) /\ CountInv
    BY DEF IInv
  <1>1. wpc[w] = "start" /\ w \notin async /\ w \notin token /\ answer[w] # "ok" /\ w \notin jsTurn
    BY <1>0 DEF WaitAsync, WaitInv, PromiseInv
  <1>2. queue' = queue /\ token' = token /\ woken' = woken /\ promise' = promise
    BY DEF WaitAsync, promises
  <1>3. QueuesKeep(w) /\ \A e \in Cells : ~Holds(queue'[e], w)
    BY <1>1, <1>2, SameQueues
  <1>4. CASE Answer(w, "not-equal") /\ UNCHANGED promises
    <2>1. /\ wpc' = [wpc EXCEPT ![w] = "returned"] /\ cell' = [cell EXCEPT ![w] = cell[w]]
          /\ answer' = [answer EXCEPT ![w] = "not-equal"] /\ async' = async
          /\ jsTurn' = jsTurn /\ waitAsyncCount' = waitAsyncCount
      BY <1>1, <1>4 DEF Answer, Arguments, promises
    <2>2. Shape' /\ Moves(w)
      BY <1>0, <1>2, <2>1 DEF Shape, Places, Moves
    <2>3. Ok' = Ok
      BY <1>0, <1>1, <2>1 DEF Ok, Shape
    <2>4. Awaited' = Awaited
      BY <1>0, <1>1, <2>1 DEF Awaited, Shape
    <2>5. CountInv'
      BY <1>2, <2>1, <2>3, <2>4, SameCount
    <2>6. WaitInv(w)' /\ PromiseInv(w)'
      BY <1>0, <1>1, <1>2, <2>1 DEF Shape, WaitInv, PromiseInv
    <2> QED
      BY <1>3, <2>2, <2>5, <2>6, OthersKeep
  <1>5. CASE /\ async' = async \cup {w} /\ waitAsyncCount' = waitAsyncCount + 1 /\ jsTurn' = jsTurn \cup {w}
             /\ wpc' = [wpc EXCEPT ![w] = "load"] /\ answer' = answer
             /\ \E c \in Cells : cell' = [cell EXCEPT ![w] = c]
    <2>1. Shape' /\ Moves(w)
      BY <1>0, <1>2, <1>5 DEF Shape, Places, Moves
    <2>2. w \notin Awaited /\ Awaited' = Awaited \cup {w}
      BY <1>0, <1>1, <1>5 DEF Awaited, Shape
    <2>3. IsFiniteSet(Awaited') /\ waitAsyncCount' = Cardinality(Awaited')
      BY <1>0, <1>5, <2>2, FS_AddElement DEF CountInv
    <2>4. token' \cup Ok' = token \cup Ok
      BY <1>2, <1>5 DEF Ok
    <2>5. CountInv'
      BY <1>0, <1>2, <2>3, <2>4 DEF CountInv
    <2>6. WaitInv(w)'
      BY <1>0, <1>1, <1>2, <1>5 DEF Shape, WaitInv
    <2>7. promise[w] = "none"
      BY <1>0, <1>1 DEF PromiseInv
    <2>8. PromiseInv(w)'
      BY <1>0, <1>1, <1>2, <1>5, <2>7 DEF Shape, PromiseInv
    <2> QED
      BY <1>3, <2>1, <2>5, <2>6, <2>8, OthersKeep
  <1> QED
    BY <1>4, <1>5 DEF WaitAsync, Arguments

LEMMA StepRegister ==
    ASSUME IInv, NEW w \in Waits, Register(w)
    PROVE  IInv'
  <1>0. Shape /\ WaitInv(w) /\ PromiseInv(w)
    BY DEF IInv
  <1>1. /\ w \in jsTurn /\ jsTurn' = jsTurn \ {w} /\ promise' = [promise EXCEPT ![w] = "pending"]
        /\ UNCHANGED <<queue, token, wpc, cell, async, answer, waitAsyncCount, woken>>
    BY DEF Register, waitArgs
  <1>2. Shape' /\ Moves(w)
    BY <1>0, <1>1 DEF Shape, Moves
  <1>3. CountInv'
    BY <1>1, SameCount DEF Ok, Awaited
  <1>4. WaitInv(w)' /\ PromiseInv(w)'
    BY <1>0, <1>1 DEF Shape, WaitInv, PromiseInv
  <1>5. QueuesKeep(w) /\ \A c \in Cells : Holds(queue'[c], w) =>
               cell'[w] = c /\ wpc'[w] \in {"parked", "expired"} /\ w \notin token'
    BY <1>1, SameQueues
  <1> QED
    BY <1>2, <1>3, <1>4, <1>5, OthersKeep

LEMMA StepAddWaiter ==
    ASSUME IInv, NEW w \in Waits, addWaiter(w)
    PROVE  IInv'
  <1>0. Shape /\ WaitInv(w) /\ PromiseInv(w) /\ QueueInv /\ cell[w] \in Cells
    BY DEF IInv, Shape
  <1>1. /\ wpc[w] = "enqueue" /\ queue' = [queue EXCEPT ![cell[w]] = Append(@, w)]
        /\ wpc' = [wpc EXCEPT ![w] = "parked"]
        /\ UNCHANGED <<token, cell, async, answer, jsTurn, promise, waitAsyncCount, woken>>
    BY DEF addWaiter, promises
  <1>2. ~Holds(queue[cell[w]], w) /\ w \notin token /\ \A c \in Cells : ~Holds(queue[c], w)
    BY <1>0, <1>1 DEF QueueInv, WaitInv
  <1>3. /\ queue'[cell[w]] = Append(queue[cell[w]], w) /\ queue[cell[w]] \in Seq(Waits)
        /\ \A c \in Cells \ {cell[w]} : queue'[c] = queue[c]
    BY <1>0, <1>1 DEF Shape
  <1>4. /\ queue'[cell[w]] \in Seq(Waits) /\ NoRepeat(queue'[cell[w]])
        /\ \A v : Holds(queue'[cell[w]], v) <=> Holds(queue[cell[w]], v) \/ v = w
    BY <1>0, <1>2, <1>3, AppendHolds DEF QueueInv
  <1>5. Shape' /\ Moves(w)
    <2>1. queue' \in [Cells -> Seq(Waits)]
      BY <1>0, <1>1, <1>3, <1>4 DEF Shape
    <2> QED
      BY <1>0, <1>1, <2>1 DEF Shape, Places, Moves
  <1>6. QueuesKeep(w)
    BY <1>0, <1>3, <1>4 DEF QueuesKeep, QueueInv
  <1>7. \A c \in Cells : Holds(queue'[c], w) => c = cell[w]
    BY <1>2, <1>3
  <1>8. Awaited' = Awaited /\ Ok' = Ok
    BY <1>0, <1>1 DEF Awaited, Ok, Shape
  <1>9. CountInv'
    BY <1>1, <1>8, SameCount
  <1>10. WaitInv(w)' /\ PromiseInv(w)'
    <2>1. wpc'[w] = "parked" /\ Holds(queue'[cell'[w]], w)
      BY <1>0, <1>1, <1>4 DEF Shape
    <2>2. PromiseInv(w)'
      BY <1>0, <1>1, <2>1 DEF PromiseInv
    <2>3. WaitInv(w)'
      BY <1>0, <1>1, <1>2, <2>1 DEF WaitInv
    <2> QED
      BY <2>2, <2>3
  <1> QED
    BY <1>0, <1>1, <1>2, <1>5, <1>6, <1>7, <1>9, <1>10, OthersKeep DEF Shape

(* A waiter that goes on leaves the queue alone; its token, if it has one, *)
(* becomes its answer.                                                     *)
LEMMA StepAnswer ==
    ASSUME IInv, NEW w \in Waits, Signalled(w) \/ Recheck(w)
    PROVE  IInv'
  <1>0. Shape /\ WaitInv(w) /\ PromiseInv(w) /\ CountInv /\ QueueInv
    BY DEF IInv
  <1>1. PICK r \in {"ok", "timed-out"} :
          /\ r = "ok" <=> w \in token
          /\ token' = token \ {w} /\ Answer(w, r)
          /\ UNCHANGED <<queue, jsTurn, promise, waitAsyncCount, woken>>
    BY DEF Signalled, Recheck, promises
  <1>2. PICK l \in {"resolve", "returned"} :
          /\ l = (IF w \in async THEN "resolve" ELSE "returned")
          /\ wpc' = [wpc EXCEPT ![w] = l] /\ cell' = [cell EXCEPT ![w] = cell[w]]
          /\ answer' = [answer EXCEPT ![w] = r] /\ async' = async
    BY <1>1 DEF Answer, Arguments
  <1>3. wpc[w] \in {"parked", "recheck"} /\ (wpc[w] = "parked" => w \in token) /\ answer[w] # "ok"
    BY <1>0 DEF Signalled, Recheck, WaitInv
  <1>4. Shape' /\ Moves(w)
    BY <1>0, <1>1, <1>2 DEF Shape, Places, Moves
  <1>5. \A c \in Cells : ~Holds(queue'[c], w)
    BY <1>0, <1>1, <1>3 DEF QueueInv
  <1>6. CountInv'
    <2>1. Ok' = IF w \in token THEN Ok \cup {w} ELSE Ok
      BY <1>0, <1>1, <1>2, <1>3 DEF Ok, Shape
    <2>2. token' \cup Ok' = token \cup Ok
      BY <1>1, <2>1
    <2>3. Awaited' = Awaited
      BY <1>0, <1>2, <1>3 DEF Awaited, Shape
    <2> QED
      BY <1>1, <2>2, <2>3, SameCount
  <1>7. WaitInv(w)' /\ PromiseInv(w)'
    BY <1>0, <1>1, <1>2, <1>3 DEF Shape, WaitInv, PromiseInv
  <1>8. QueuesKeep(w)
    BY <1>1, SameQueues
  <1> QED
    BY <1>4, <1>5, <1>6, <1>7, <1>8, OthersKeep

LEMMA StepExpires ==
    ASSUME IInv, NEW w \in Waits, TimerFires(w)
    PROVE  IInv'
  <1>0. Shape /\ WaitInv(w) /\ PromiseInv(w)
    BY DEF IInv
  <1>1. /\ wpc[w] = "parked" /\ wpc' = [wpc EXCEPT ![w] = "expired"]
        /\ UNCHANGED <<queue, token, cell, async, answer, jsTurn, promise, waitAsyncCount, woken>>
    BY DEF TimerFires, WaitGoto, waitArgs, promises
  <1>2. Shape' /\ Moves(w)
    BY <1>0, <1>1 DEF Shape, Places, Moves
  <1>3. Ok' = Ok /\ Awaited' = Awaited
    BY <1>0, <1>1 DEF Ok, Awaited, Shape
  <1>4. CountInv'
    BY <1>1, <1>3, SameCount
  <1>5. WaitInv(w)' /\ PromiseInv(w)'
    BY <1>0, <1>1 DEF Shape, WaitInv, PromiseInv
  <1>6. QueuesKeep(w) /\ \A c \in Cells : Holds(queue'[c], w) =>
               cell'[w] = c /\ wpc'[w] \in {"parked", "expired"} /\ w \notin token'
    BY <1>0, <1>1, SameQueues DEF Shape
  <1> QED
    BY <1>2, <1>4, <1>5, <1>6, OthersKeep

LEMMA StepRemoveWaiter ==
    ASSUME IInv, NEW w \in Waits, removeWaiter(w)
    PROVE  IInv'
  <1>0. Shape /\ WaitInv(w) /\ PromiseInv(w) /\ QueueInv /\ cell[w] \in Cells
    BY DEF IInv, Shape
  <1>1. /\ wpc[w] = "expired" /\ queue' = [queue EXCEPT ![cell[w]] = Without(@, w)]
        /\ wpc' = [wpc EXCEPT ![w] = "recheck"]
        /\ UNCHANGED <<token, cell, async, answer, jsTurn, promise, waitAsyncCount, woken>>
    BY DEF removeWaiter, WaitGoto, waitArgs, promises
  <1>2. /\ queue'[cell[w]] = Without(queue[cell[w]], w) /\ queue[cell[w]] \in Seq(Waits)
        /\ NoRepeat(queue[cell[w]])
        /\ \A c \in Cells \ {cell[w]} : queue'[c] = queue[c]
    BY <1>0, <1>1 DEF Shape, QueueInv
  <1>3. /\ queue'[cell[w]] \in Seq(Waits) /\ NoRepeat(queue'[cell[w]])
        /\ \A v : Holds(queue'[cell[w]], v) <=> Holds(queue[cell[w]], v) /\ v # w
    BY <1>2, WithoutHolds
  <1>4. Shape' /\ Moves(w)
    <2>1. queue' \in [Cells -> Seq(Waits)]
      BY <1>0, <1>1, <1>2, <1>3 DEF Shape
    <2> QED
      BY <1>0, <1>1, <2>1 DEF Shape, Places, Moves
  <1>5. QueuesKeep(w)
    BY <1>0, <1>2, <1>3 DEF QueuesKeep, QueueInv
  <1>6. \A c \in Cells : ~Holds(queue'[c], w)
    BY <1>0, <1>2, <1>3 DEF QueueInv
  <1>7. Ok' = Ok /\ Awaited' = Awaited
    BY <1>0, <1>1 DEF Ok, Awaited, Shape
  <1>8. CountInv'
    BY <1>1, <1>7, SameCount
  <1>9. WaitInv(w)' /\ PromiseInv(w)'
    BY <1>0, <1>1 DEF Shape, WaitInv, PromiseInv
  <1> QED
    BY <1>4, <1>5, <1>6, <1>8, <1>9, OthersKeep

LEMMA StepResolve ==
    ASSUME IInv, NEW w \in Waits, Resolve(w)
    PROVE  IInv'
  <1>0. Shape /\ WaitInv(w) /\ PromiseInv(w) /\ CountInv
    BY DEF IInv
  <1>1. /\ wpc[w] = "resolve" /\ w \notin jsTurn /\ wpc' = [wpc EXCEPT ![w] = "returned"]
        /\ promise' = [promise EXCEPT ![w] = IF @ = "pending" THEN "settled" ELSE @]
        /\ waitAsyncCount' = waitAsyncCount - 1
        /\ UNCHANGED <<queue, token, cell, async, answer, jsTurn, woken>>
    BY DEF Resolve, WaitGoto, waitArgs
  <1>2. w \in async /\ promise[w] = "pending" /\ w \in Awaited
    BY <1>0, <1>1 DEF PromiseInv, Awaited
  <1>3. promise'[w] = "settled" /\ wpc'[w] = "returned"
    BY <1>0, <1>1, <1>2 DEF Shape
  <1>4. Shape' /\ Moves(w)
    <2>1. promise' \in [Waits -> {"none", "pending", "settled"}]
      BY <1>0, <1>1 DEF Shape
    <2> QED
      BY <1>0, <1>1, <2>1 DEF Shape, Places, Moves
  <1>5. Awaited' = Awaited \ {w} /\ Ok' = Ok
    BY <1>0, <1>1 DEF Awaited, Ok, Shape
  <1>6. CountInv'
    <2>1. IsFiniteSet(Awaited') /\ Cardinality(Awaited') = Cardinality(Awaited) - 1
      BY <1>0, <1>2, <1>5, FS_RemoveElement DEF CountInv
    <2> QED
      BY <1>0, <1>1, <1>5, <2>1 DEF CountInv
  <1>7. WaitInv(w)' /\ PromiseInv(w)'
    BY <1>0, <1>1, <1>2, <1>3 DEF WaitInv, PromiseInv
  <1>8. QueuesKeep(w) /\ \A c \in Cells : ~Holds(queue'[c], w)
    BY <1>1, SameQueues
  <1> QED
    BY <1>4, <1>6, <1>7, <1>8, OthersKeep

(* The same of a queue of waits, for whatever number of them is taken. *)
LEMMA FirstOfLine ==
    \A s \in Seq(Waits) : \A n \in 0..Len(s) : NoRepeat(s) =>
        /\ SubSeq(s, n + 1, Len(s)) \in Seq(Waits) /\ NoRepeat(SubSeq(s, n + 1, Len(s)))
        /\ \A g : Holds(SubSeq(s, n + 1, Len(s)), g) <=> Holds(s, g) /\ g \notin {s[i] : i \in 1..n}
        /\ \A g \in {s[i] : i \in 1..n} : Holds(s, g)
        /\ IsFiniteSet({s[i] : i \in 1..n}) /\ Cardinality({s[i] : i \in 1..n}) = n
  BY FirstHolds

(* Notify moves the first n waiters from the queue to the tokens. *)
LEMMA StepNotify ==
    ASSUME IInv, NEW a, Notify(a)
    PROVE  IInv'
  <1>0. Shape /\ CountInv /\ QueueInv
    BY DEF IInv
  <1>1. /\ UNCHANGED <<wpc, cell, async, answer, jsTurn, promise, waitAsyncCount>>
        /\ \E c \in Cells : \E n \in 0..Len(queue[c]) : WakeFirst(c, n) /\ woken' = woken + n
    BY DEF Notify, waitVars, waitArgs, promises
  <1>a. PICK c \in Cells : \E n \in 0..Len(queue[c]) : WakeFirst(c, n) /\ woken' = woken + n
    BY <1>1
  <1>2. PICK n \in 0..Len(queue[c]) : WakeFirst(c, n) /\ woken' = woken + n
    BY <1>a
  <1>3. queue[c] \in Seq(Waits) /\ NoRepeat(queue[c]) /\ n \in 0..Len(queue[c])
    <2>1. queue[c] \in Seq(Waits) /\ NoRepeat(queue[c])
      BY <1>0 DEF Shape, QueueInv
    <2> QED
      BY <1>2, <2>1
  <1> DEFINE F == {queue[c][i] : i \in 1..n}
  <1>4. /\ token' = token \cup F
        /\ queue'[c] = SubSeq(queue[c], n + 1, Len(queue[c]))
        /\ \A d \in Cells \ {c} : queue'[d] = queue[d]
        /\ queue' = [queue EXCEPT ![c] = queue'[c]]
    BY <1>0, <1>2 DEF WakeFirst, Shape
  <1>5. /\ queue'[c] \in Seq(Waits) /\ NoRepeat(queue'[c])
        /\ \A g : Holds(queue'[c], g) <=> Holds(queue[c], g) /\ g \notin F
        /\ \A g \in F : Holds(queue[c], g)
        /\ IsFiniteSet(F) /\ Cardinality(F) = n
    <2> DEFINE q == SubSeq(queue[c], n + 1, Len(queue[c]))
    <2>1. /\ q \in Seq(Waits) /\ NoRepeat(q)
          /\ \A g : Holds(q, g) <=> Holds(queue[c], g) /\ g \notin F
          /\ \A g \in F : Holds(queue[c], g)
          /\ IsFiniteSet(F) /\ Cardinality(F) = n
      <3> HIDE DEF F, q
      <3> QED BY <1>3, FirstOfLine DEF F, q
    <2>2. queue'[c] = q
      BY <1>4
    <2> HIDE DEF q, F
    <2> QED
      BY <2>1, <2>2
  <1>6. F \subseteq Waits
    BY <1>3
  <1> HIDE DEF F
  <1>7. \A w \in F : w \in Waits /\ cell[w] = c /\ wpc[w] \in {"parked", "expired"} /\ w \notin token
    BY <1>0, <1>5, <1>6 DEF QueueInv
  <1>8. Shape'
    <2>1. queue' \in [Cells -> Seq(Waits)]
      BY <1>0, <1>4, <1>5 DEF Shape
    <2> QED
      BY <1>0, <1>1, <1>4, <1>6, <2>1 DEF Shape
  <1>9. QueueInv'
    <2> SUFFICES ASSUME NEW d \in Cells
                 PROVE  /\ NoRepeat(queue'[d])
                        /\ \A w \in Waits : Holds(queue'[d], w) =>
                             cell'[w] = d /\ wpc'[w] \in {"parked", "expired"} /\ w \notin token'
      BY DEF QueueInv
    <2>1. CASE d = c
      BY <1>0, <1>1, <1>4, <1>5, <2>1 DEF QueueInv
    <2>2. CASE d # c
      BY <1>0, <1>1, <1>4, <1>7, <2>2 DEF QueueInv
    <2> QED
      BY <2>1, <2>2
  <1>10. ASSUME NEW w \in Waits PROVE WaitInv(w)' /\ PromiseInv(w)'
    <2>1. WaitInv(w) /\ PromiseInv(w) /\ cell[w] \in Cells
      BY <1>0 DEF IInv, Shape
    <2>2. Holds(queue[cell[w]], w) => w \in token' \/ Holds(queue'[cell[w]], w)
      BY <1>4, <1>5, <2>1
    <2>3. WaitInv(w)'
      BY <1>1, <1>4, <1>7, <2>1, <2>2 DEF WaitInv
    <2>4. PromiseInv(w)'
      BY <1>1, <2>1 DEF PromiseInv
    <2> QED
      BY <2>3, <2>4
  <1>11. CountInv'
    <2>1. Ok' = Ok /\ Awaited' = Awaited
      BY <1>1 DEF Ok, Awaited
    <2>2. F \cap (token \cup Ok) = {}
      <3>1. \A w \in F : w \notin Ok
        BY <1>7 DEF Ok, IInv, WaitInv
      <3> QED
        BY <1>7, <3>1
    <2>3. token' \cup Ok' = (token \cup Ok) \cup F
      BY <1>4, <2>1
    <2>4. /\ IsFiniteSet((token \cup Ok) \cup F)
          /\ Cardinality((token \cup Ok) \cup F)
               = Cardinality(token \cup Ok) + Cardinality(F) - Cardinality((token \cup Ok) \cap F)
      BY <1>0, <1>5, FS_Union DEF CountInv
    <2>5. Cardinality((token \cup Ok) \cap F) = 0
      BY <2>2, FS_EmptySet
    <2>6. Cardinality(token \cup Ok) \in Nat /\ n \in Nat
      BY <1>0, <1>3, FS_CardinalityType DEF CountInv
    <2>7. Cardinality(token' \cup Ok') = woken'
      <3>1. \A x \in Nat : x + n - 0 = x + n
        BY <2>6
      <3>2. Cardinality(token' \cup Ok') = Cardinality(token \cup Ok) + n - 0
        BY <1>5, <2>3, <2>4, <2>5
      <3>3. woken' = Cardinality(token \cup Ok) + n
        BY <1>0, <1>2 DEF CountInv
      <3> QED
        BY <2>6, <3>1, <3>2, <3>3
    <2> QED
      BY <1>0, <1>1, <2>1, <2>3, <2>4, <2>7 DEF CountInv
  <1> QED
    BY <1>8, <1>9, <1>10, <1>11 DEF IInv

-----------------------------------------------------------------------------
LEMMA StepIInv == IInv /\ [Next]_vars => IInv'
  <1> SUFFICES ASSUME IInv, [Next]_vars PROVE IInv'
    OBVIOUS
  <1>1. ASSUME NEW w \in Waits, Wait(w) PROVE IInv'
    BY <1>1, StepLoad DEF Wait
  <1>2. ASSUME NEW w \in Waits, WaitAsync(w) PROVE IInv'
    BY <1>2, StepWaitAsync
  <1>3. ASSUME NEW w \in Waits, Load(w) PROVE IInv'
    <2>1. cell[w] \in Cells
      BY DEF IInv, Shape
    <2> QED
      BY <1>3, <2>1, StepLoad DEF Load
  <1>4. ASSUME NEW w \in Waits, WaitStep(w), ~Load(w) PROVE IInv'
    BY <1>4, StepRegister, StepAddWaiter, StepAnswer, StepExpires, StepRemoveWaiter, StepResolve DEF WaitStep
  <1>5. ASSUME NEW a \in Agents, Notify(a) PROVE IInv'
    BY <1>5, StepNotify
  <1>6. ASSUME NEW a \in Agents, AgentStep(a), ~Notify(a) PROVE IInv'
    <2>1. UNCHANGED <<queue, token, waitVars, woken>>
      BY <1>6 DEF AgentStep, Update, BeginLooped, BeginCompareExchange, Swap, LoadAgain, CompareExchange, Return
    <2>2. UNCHANGED <<queue, token, wpc, cell, async, answer, jsTurn, promise, waitAsyncCount, woken>>
      BY <2>1 DEF waitVars, waitArgs, promises
    <2> QED
      BY <2>2, QuietKeeps
  <1>7. CASE UNCHANGED vars
    BY <1>7, QuietKeeps DEF vars, waitVars, waitArgs, promises
  <1> QED
    BY <1>1, <1>2, <1>3, <1>4, <1>5, <1>6, <1>7 DEF Next

(* The inductive invariant: where a wait is, in which queue, whether it has a *)
(* token, and what the counters count.                                        *)
THEOREM Invariance == Spec => []IInv
  <1> QED
    BY InitIInv, StepIInv, PTL DEF Spec

(* However notify and timers meet, a waiter is queued, or woken, or gone. *)
THEOREM EndsOneWay == Spec => []OneWayOut
  <1>1. IInv => OneWayOut
    <2> SUFFICES ASSUME IInv, NEW w \in Waits
                 PROVE  /\ w \in token => ~Queued(w) /\ wpc[w] \in {"parked", "expired", "recheck"}
                        /\ wpc[w] \in {"parked", "expired"} => Queued(w) \/ w \in token
                        /\ Queued(w) => wpc[w] \in {"parked", "expired"}
                        /\ \A c \in Cells : Cardinality({i \in DOMAIN queue[c] : queue[c][i] = w}) <= 1
      BY DEF OneWayOut
    <2>1. WaitInv(w) /\ QueueInv /\ cell[w] \in Cells
      BY DEF IInv, Shape
    <2>2. Queued(w) <=> Holds(queue[cell[w]], w)
      BY DEF Queued, Holds
    <2>3. ASSUME NEW c \in Cells
          PROVE  Cardinality({i \in DOMAIN queue[c] : queue[c][i] = w}) <= 1
      <3> DEFINE I == {i \in DOMAIN queue[c] : queue[c][i] = w}
      <3>1. I = {} \/ \E i : I = {i}
        BY <2>1 DEF QueueInv, NoRepeat
      <3>2. Cardinality(I) = 0 \/ Cardinality(I) = 1
        BY <3>1, FS_EmptySet, FS_Singleton
      <3> QED
        BY <3>2
    <2> QED
      BY <2>1, <2>2, <2>3 DEF WaitInv, QueueInv
  <1> QED
    BY <1>1, Invariance, PTL

(* As many waits return "ok", or are about to, as the notifies counted. *)
THEOREM NotifyCounts == Spec => []WokenAreOk
  <1>1. IInv => WokenAreOk
    BY DEF IInv, CountInv, Ok, WokenAreOk
  <1> QED
    BY <1>1, Invariance, PTL

(* A promise of waitAsync is settled when its wait has returned, and keeps the *)
(* event loop alive until then.                                                *)
THEOREM KeepsPromise == Spec => []PromiseKept
  <1>1. IInv => PromiseKept
    <2> SUFFICES ASSUME IInv, NEW w \in async
                 PROVE  /\ wpc[w] = "returned" => promise[w] = "settled"
                        /\ promise[w] # "settled" => waitAsyncCount > 0
      BY DEF PromiseKept
    <2>1. w \in Waits /\ PromiseInv(w) /\ CountInv
      BY DEF IInv, Shape
    <2>2. wpc[w] = "returned" => promise[w] = "settled"
      BY <2>1 DEF PromiseInv
    <2>3. ASSUME promise[w] # "settled" PROVE waitAsyncCount > 0
      <3>1. w \in Awaited
        BY <2>2, <2>3 DEF Awaited
      <3>2. Cardinality(Awaited) \in Nat /\ Cardinality(Awaited) # 0
        BY <2>1, <3>1, FS_EmptySet, FS_CardinalityType DEF CountInv
      <3> QED
        BY <2>1, <3>2 DEF CountInv
    <2> QED
      BY <2>2, <2>3
  <1> QED
    BY <1>1, Invariance, PTL

-----------------------------------------------------------------------------
(* The values of the cells.  No theorem of the library about induction can be *)
(* cited with a predicate, so induction is over a set of numbers.             *)
LEMMA SetInduction ==
    ASSUME NEW S \in SUBSET Nat, 0 \in S, \A n \in S : n + 1 \in S
    PROVE  S = Nat
  <1> SUFFICES ASSUME S # Nat PROVE FALSE
    OBVIOUS
  <1> DEFINE T == Nat \ S
  <1>1. T \subseteq Nat /\ T # {}
    OBVIOUS
  <1> HIDE DEF T
  <1>2. PICK x \in T : \A y \in T : ~ (<<y, x>> \in OpToRel(<, Nat))
    BY <1>1, NatLessThanWellFounded, WFMin
  <1> USE DEF T
  <1>3. x \in Nat /\ x \notin S
    BY <1>2
  <1>4. x # 0
    BY <1>3, 0 \in S
  <1>5. x - 1 \in Nat /\ x - 1 < x /\ (x - 1) + 1 = x
    BY <1>3, <1>4
  <1>6. <<x - 1, x>> \in OpToRel(<, Nat)
    BY <1>3, <1>5 DEF OpToRel
  <1>7. x - 1 \in S
    BY <1>2, <1>5, <1>6
  <1> QED
    BY <1>3, <1>5, <1>7, \A n \in S : n + 1 \in S

(* g is the recursive function on 0 .. n with values in V that starts with z *)
(* and whose step from i to i + 1 is s[i].                                   *)
Recursion(g, n, V, z, s) ==
    g \in [0..n -> V] /\ g[0] = z /\ \A i \in 0..(n - 1) : g[i + 1] = s[i][g[i]]

LEMMA RecursionExists ==
    ASSUME NEW V, NEW z \in V, NEW s \in [Nat -> [V -> V]], NEW m \in Nat
    PROVE  \E g : Recursion(g, m, V, z, s)
  <1> DEFINE S == {n \in Nat : \E g : Recursion(g, n, V, z, s)}
  <1>1. 0 \in S
    <2> DEFINE g == [i \in 0..0 |-> z]
    <2>1. g \in [0..0 -> V] /\ g[0] = z /\ 0..(0 - 1) = {}
      OBVIOUS
    <2> QED
      BY <2>1 DEF Recursion
  <1>2. ASSUME NEW n \in S PROVE n + 1 \in S
    <2>1. n \in Nat /\ n \in 0..n /\ (n + 1) - 1 = n
      OBVIOUS
    <2>2. PICK g : Recursion(g, n, V, z, s)
      OBVIOUS
    <2> DEFINE h == [i \in 0..(n + 1) |-> IF i = n + 1 THEN s[n][g[n]] ELSE g[i]]
    <2>3. s[n][g[n]] \in V
      BY <2>1, <2>2 DEF Recursion
    <2>4. h \in [0..(n + 1) -> V]
      BY <2>1, <2>2, <2>3 DEF Recursion
    <2>5. h[n + 1] = s[n][g[n]] /\ \A i \in 0..n : h[i] = g[i]
      BY <2>1
    <2> HIDE DEF h
    <2>6. h[0] = z
      BY <2>1, <2>2, <2>5 DEF Recursion
    <2>7. ASSUME NEW i \in 0..n PROVE h[i + 1] = s[i][h[i]]
      <3>1. CASE i = n
        BY <2>1, <2>5, <3>1
      <3>2. CASE i # n
        <4>1. i \in 0..(n - 1) /\ i + 1 \in 0..n
          BY <2>1, <3>2
        <4>2. g[i + 1] = s[i][g[i]]
          BY <2>2, <4>1 DEF Recursion
        <4> QED
          BY <2>5, <4>1, <4>2
      <3> QED
        BY <3>1, <3>2
    <2>8. Recursion(h, n + 1, V, z, s)
      BY <2>1, <2>4, <2>6, <2>7 DEF Recursion
    <2> QED
      BY <2>1, <2>8
  <1>3. S \in SUBSET Nat
    OBVIOUS
  <1> HIDE DEF S
  <1>4. S = Nat
    BY <1>1, <1>2, <1>3, SetInduction
  <1> QED
    BY <1>4 DEF S

LEMMA PowerDef ==
    Power \in [0..Width -> Nat \ {0}] /\ Power[0] = 1 /\ \A i \in 1..Width : Power[i] = 2 * Power[i - 1]
  <1> DEFINE V == Nat \ {0}
             s == [i \in Nat |-> [v \in V |-> 2 * v]]
  <1>1. Width \in Nat /\ 0 \in 0..Width
    BY AtomicsAssumption
  <1>2. s \in [Nat -> [V -> V]]
    OBVIOUS
  <1>a. 1 \in V
    OBVIOUS
  <1>3. PICK g : Recursion(g, Width, V, 1, s)
    <2> HIDE DEF V, s
    <2> QED
      BY <1>1, <1>2, <1>a, RecursionExists
  <1>4. g = [i \in 0..Width |-> IF i = 0 THEN 1 ELSE 2 * g[i - 1]]
    <2>1. ASSUME NEW i \in 1..Width PROVE g[i] = 2 * g[i - 1]
      <3>1. i - 1 \in 0..Width /\ i - 1 \in 0..(Width - 1) /\ i - 1 \in Nat /\ (i - 1) + 1 = i
        BY <1>1
      <3>2. g[i - 1] \in V /\ g[i] = s[i - 1][g[i - 1]]
        BY <1>3, <3>1 DEF Recursion
      <3> QED
        BY <3>1, <3>2
    <2> QED
      BY <1>1, <1>3, <2>1 DEF Recursion
  <1> HIDE DEF V, s
  <1>5. Power = [i \in 0..Width |-> IF i = 0 THEN 1 ELSE 2 * Power[i - 1]]
    BY <1>4, Zenon DEF Power
  <1>6. /\ DOMAIN Power = 0..Width /\ Power[0] = 1
        /\ \A i \in 1..Width : Power[i] = 2 * Power[i - 1]
    <2> DEFINE F == [i \in 0..Width |-> IF i = 0 THEN 1 ELSE 2 * Power[i - 1]]
    <2>1. DOMAIN F = 0..Width /\ \A i \in 0..Width : F[i] = IF i = 0 THEN 1 ELSE 2 * Power[i - 1]
      OBVIOUS
    <2> QED
      BY <1>1, <1>5, <2>1
  <1> DEFINE S == {n \in Nat : n <= Width => Power[n] \in Nat \ {0}}
  <1>7. S = Nat
    <2>1. 0 \in S
      BY <1>6
    <2>2. ASSUME NEW n \in S PROVE n + 1 \in S
      <3> SUFFICES ASSUME n + 1 <= Width PROVE Power[n + 1] \in Nat \ {0}
        OBVIOUS
      <3>1. n \in Nat /\ n <= Width /\ n + 1 \in 1..Width /\ (n + 1) - 1 = n
        BY <1>1
      <3>2. Power[n] \in Nat \ {0} /\ Power[n + 1] = 2 * Power[n]
        BY <1>6, <3>1
      <3> QED
        BY <3>2
    <2>3. S \in SUBSET Nat
      OBVIOUS
    <2> HIDE DEF S
    <2> QED
      BY <2>1, <2>2, <2>3, SetInduction
  <1>8. ASSUME NEW i \in 0..Width PROVE Power[i] \in Nat \ {0}
    BY <1>1, <1>7
  <1>9. Power = [i \in 0..Width |-> Power[i]]
    <2> DEFINE F == [i \in 0..Width |-> IF i = 0 THEN 1 ELSE 2 * Power[i - 1]]
    <2>1. F = [i \in 0..Width |-> F[i]]
      OBVIOUS
    <2>2. Power = F
      BY <1>5
    <2> HIDE DEF F
    <2> QED
      BY <2>1, <2>2
  <1> QED
    BY <1>6, <1>8, <1>9

(* Values are bits put together. *)
LEMMA BitType == \A x \in Nat, i \in 0..Width : Bit(x, i) \in 0..1
  <1> SUFFICES ASSUME NEW x \in Nat, NEW i \in 0..Width PROVE Bit(x, i) \in 0..1
    OBVIOUS
  <1>1. Power[i] \in Nat \ {0}
    BY PowerDef
  <1>2. x \div Power[i] \in Int
    BY <1>1
  <1> QED
    BY <1>2 DEF Bit

LEMMA BitOfType == \A f \in {"and", "or", "xor"}, x, y \in 0..1 : BitOf(f, x, y) \in 0..1
  <1> SUFFICES ASSUME NEW f \in {"and", "or", "xor"}, NEW x \in 0..1, NEW y \in 0..1
               PROVE  BitOf(f, x, y) \in 0..1
    OBVIOUS
  <1>1. /\ f = "and" => BitOf(f, x, y) = x * y
        /\ f = "or"  => BitOf(f, x, y) = x + y - x * y
        /\ f = "xor" => BitOf(f, x, y) = (x + y) % 2
    BY Zenon DEF BitOf
  <1>2. x * y \in 0..1 /\ x + y - x * y \in 0..1
    <2>1. x = 0 \/ x = 1
      OBVIOUS
    <2> QED
      BY <2>1
  <1>3. (x + y) % 2 \in 0..1
    OBVIOUS
  <1> QED
    BY <1>1, <1>2, <1>3

LEMMA DivUnique ==
    ASSUME NEW p \in Nat \ {0}, NEW q \in Int, NEW r \in 0..(p - 1)
    PROVE  (p * q + r) \div p = q
  OBVIOUS

(* Adding a multiple of 2 * p leaves the bit of weight p as it is. *)
LEMMA HigherBits ==
    ASSUME NEW x \in Nat, NEW p \in Nat \ {0}, NEW k \in Nat
    PROVE  ((x + 2 * p * k) \div p) % 2 = (x \div p) % 2
  <1> DEFINE q == x \div p
             r == x % p
  <1>1. x = p * q + r /\ r \in 0..(p - 1) /\ q \in Int
    OBVIOUS
  <1> HIDE DEF q, r
  <1>2. x + 2 * p * k = p * (q + 2 * k) + r
    BY <1>1
  <1>3. (x + 2 * p * k) \div p = q + 2 * k
    BY <1>1, <1>2, DivUnique
  <1>4. (q + 2 * k) % 2 = q % 2
    BY <1>1
  <1> QED
    BY <1>3, <1>4 DEF q

(* A power of 2 is a multiple of twice each lower one. *)
LEMMA PowerMultiple ==
    ASSUME NEW n \in 0..Width, NEW j \in 0..(n - 1)
    PROVE  \E k \in Nat : Power[n] = 2 * Power[j] * k
  <1> DEFINE S == {d \in Nat : j + 1 + d <= Width => \E k \in Nat : Power[j + 1 + d] = 2 * Power[j] * k}
  <1>0. Width \in Nat /\ j \in Nat /\ j \in 0..Width /\ j + 1 \in 1..Width /\ (j + 1) - 1 = j
    BY AtomicsAssumption
  <1>1. Power[j] \in Nat /\ Power[j + 1] = 2 * Power[j]
    BY <1>0, PowerDef
  <1>2. 0 \in S
    <2>1. Power[j + 1 + 0] = 2 * Power[j] * 1
      BY <1>0, <1>1
    <2> QED
      BY <2>1
  <1>3. ASSUME NEW d \in S PROVE d + 1 \in S
    <2> SUFFICES ASSUME j + 1 + (d + 1) <= Width
                 PROVE  \E k \in Nat : Power[j + 1 + (d + 1)] = 2 * Power[j] * k
      OBVIOUS
    <2> DEFINE m == j + 1 + d
    <2>1. d \in Nat /\ m \in Nat /\ m <= Width /\ m + 1 \in 1..Width /\ (m + 1) - 1 = m /\ m + 1 = j + 1 + (d + 1)
      BY <1>0
    <2>2. PICK k \in Nat : Power[m] = 2 * Power[j] * k
      BY <2>1
    <2>3. Power[m + 1] = 2 * Power[m]
      BY <2>1, PowerDef
    <2> HIDE DEF m
    <2>4. Power[m + 1] = 2 * Power[j] * (2 * k)
      BY <1>1, <2>2, <2>3
    <2> QED
      BY <2>1, <2>4
  <1>4. S \in SUBSET Nat
    OBVIOUS
  <1> HIDE DEF S
  <1>5. S = Nat
    BY <1>2, <1>3, <1>4, SetInduction
  <1>6. PICK d \in Nat : j + 1 + d = n /\ n <= Width
    <2>1. n - (j + 1) \in Nat /\ j + 1 + (n - (j + 1)) = n /\ n <= Width
      BY <1>0
    <2> QED
      BY <2>1
  <1>7. d \in S
    BY <1>5
  <1>8. \E k \in Nat : Power[j + 1 + d] = 2 * Power[j] * k
    BY <1>6, <1>7 DEF S
  <1> QED
    BY <1>6, <1>8

(* and, or and xor give a value, and each bit of it is what they make of the *)
(* two bits at its place.                                                    *)
LEMMA PerBitCorrect ==
    ASSUME NEW f \in {"and", "or", "xor"}, NEW x \in Nat, NEW y \in Nat
    PROVE  /\ PerBit(f, x, y) \in 0..(Modulus - 1)
           /\ \A i \in 0..(Width - 1) : Bit(PerBit(f, x, y), i) = BitOf(f, Bit(x, i), Bit(y, i))
  <1> DEFINE b == [i \in 0..(Width - 1) |-> BitOf(f, Bit(x, i), Bit(y, i))]
             s == [i \in Nat |-> [v \in Nat |-> IF i < Width THEN v + b[i] * Power[i] ELSE v]]
             F(low) == [i \in 0..Width |-> IF i = 0 THEN 0 ELSE low[i - 1] + BitOf(f, Bit(x, i - 1), Bit(y, i - 1)) * Power[i - 1]]
             G == CHOOSE low : low = F(low)
  <1>0. Width \in Nat /\ 0 \in 0..Width /\ Width \in 0..Width /\ Width <= Width
    BY AtomicsAssumption
  <1>1. \A i \in 0..(Width - 1) :
          /\ b[i] = BitOf(f, Bit(x, i), Bit(y, i)) /\ b[i] \in 0..1
          /\ Power[i] \in Nat /\ Power[i + 1] = 2 * Power[i] /\ b[i] * Power[i] \in Nat
    <2> SUFFICES ASSUME NEW i \in 0..(Width - 1)
                 PROVE  /\ b[i] = BitOf(f, Bit(x, i), Bit(y, i)) /\ b[i] \in 0..1
                        /\ Power[i] \in Nat /\ Power[i + 1] = 2 * Power[i] /\ b[i] * Power[i] \in Nat
      OBVIOUS
    <2>1. i \in 0..Width /\ i + 1 \in 1..Width /\ (i + 1) - 1 = i
      BY <1>0
    <2>2. b[i] = BitOf(f, Bit(x, i), Bit(y, i)) /\ b[i] \in 0..1
      BY <2>1, BitType, BitOfType
    <2>3. Power[i] \in Nat /\ Power[i + 1] = 2 * Power[i]
      BY <2>1, PowerDef
    <2> HIDE DEF b
    <2>4. b[i] * Power[i] \in Nat
      BY <2>2, <2>3
    <2> QED
      BY <2>2, <2>3, <2>4
  <1> HIDE DEF b
  <1>2. PICK g : Recursion(g, Width, Nat, 0, s)
    <2>1. s \in [Nat -> [Nat -> Nat]] /\ 0 \in Nat
      BY <1>0, <1>1
    <2> HIDE DEF s
    <2> QED
      BY <1>0, <2>1, RecursionExists
  <1>3. g = F(g)
    <2>1. ASSUME NEW i \in 0..Width
          PROVE  g[i] = IF i = 0 THEN 0 ELSE g[i - 1] + BitOf(f, Bit(x, i - 1), Bit(y, i - 1)) * Power[i - 1]
      <3>1. CASE i = 0
        BY <1>2, <3>1 DEF Recursion
      <3>2. CASE i # 0
        <4>1. /\ i - 1 \in 0..(Width - 1) /\ i - 1 \in 0..Width /\ i - 1 \in Nat
              /\ i - 1 < Width /\ (i - 1) + 1 = i
          BY <1>0, <3>2
        <4>2. g[i] = s[i - 1][g[i - 1]] /\ g[i - 1] \in Nat
          BY <1>2, <4>1 DEF Recursion
        <4>3. g[i] = g[i - 1] + b[i - 1] * Power[i - 1]
          BY <4>1, <4>2
        <4> QED
          BY <1>1, <3>2, <4>1, <4>3
      <3> QED
        BY <3>1, <3>2
    <2> QED
      BY <1>2, <2>1 DEF Recursion
  <1>4. G = F(G)
    <2> HIDE DEF F
    <2> QED
      BY <1>3, Zenon
  <1>5. PerBit(f, x, y) = G[Width]
    BY Zenon DEF PerBit
  <1>6. G[0] = 0 /\ \A i \in 0..(Width - 1) : G[i + 1] = G[i] + b[i] * Power[i]
    <2>1. \A i \in 0..Width : F(G)[i] = IF i = 0 THEN 0 ELSE G[i - 1] + BitOf(f, Bit(x, i - 1), Bit(y, i - 1)) * Power[i - 1]
      <3> HIDE DEF G
      <3> QED
        OBVIOUS
    <2> HIDE DEF F, G
    <2>2. \A i \in 0..Width : G[i] = IF i = 0 THEN 0 ELSE G[i - 1] + BitOf(f, Bit(x, i - 1), Bit(y, i - 1)) * Power[i - 1]
      BY <1>4, <2>1
    <2>3. ASSUME NEW i \in 0..(Width - 1) PROVE G[i + 1] = G[i] + b[i] * Power[i]
      <3>1. i + 1 \in 0..Width /\ (i + 1) - 1 = i /\ i + 1 # 0
        BY <1>0
      <3> QED
        BY <1>1, <2>2, <3>1
    <2> QED
      BY <1>0, <2>2, <2>3
  <1> HIDE DEF F, G, s
  <1> DEFINE S == {n \in Nat : n <= Width => G[n] \in Nat /\ G[n] < Power[n]}
  <1>7. S = Nat
    <2>1. 0 \in S
      BY <1>6, PowerDef
    <2>2. ASSUME NEW n \in S PROVE n + 1 \in S
      <3> SUFFICES ASSUME n + 1 <= Width PROVE G[n + 1] \in Nat /\ G[n + 1] < Power[n + 1]
        OBVIOUS
      <3>1. n \in Nat /\ n <= Width /\ n \in 0..(Width - 1)
        BY <1>0
      <3>2. /\ G[n] \in Nat /\ G[n] < Power[n] /\ G[n + 1] = G[n] + b[n] * Power[n]
            /\ b[n] \in 0..1 /\ Power[n] \in Nat /\ Power[n + 1] = 2 * Power[n]
        BY <1>1, <1>6, <3>1
      <3>3. b[n] = 0 \/ b[n] = 1
        BY <3>2
      <3> QED
        BY <3>2, <3>3
    <2>3. S \in SUBSET Nat
      OBVIOUS
    <2> HIDE DEF S
    <2> QED
      BY <2>1, <2>2, <2>3, SetInduction
  <1> DEFINE U == {n \in Nat : n <= Width => \A j \in 0..(n - 1) : Bit(G[n], j) = b[j]}
  <1>8. U = Nat
    <2>1. 0 \in U
      OBVIOUS
    <2>2. ASSUME NEW n \in U PROVE n + 1 \in U
      <3> SUFFICES ASSUME n + 1 <= Width, NEW j \in 0..n PROVE Bit(G[n + 1], j) = b[j]
        <4>1. (n + 1) - 1 = n /\ n + 1 \in Nat
          OBVIOUS
        <4> QED
          BY <4>1
      <3>1. n \in Nat /\ n <= Width /\ n \in 0..(Width - 1) /\ n \in 0..Width /\ j \in 0..Width
        BY <1>0
      <3>2. /\ G[n] \in Nat /\ G[n] < Power[n] /\ G[n + 1] = G[n] + b[n] * Power[n]
            /\ b[n] \in 0..1
        BY <1>1, <1>6, <1>7, <3>1 DEF S
      <3>a. Power[n] \in Nat \ {0} /\ Power[j] \in Nat \ {0}
        BY <3>1, PowerDef
      <3>3. CASE j = n
        <4>1. G[n + 1] = Power[n] * b[n] + G[n] /\ G[n] \in 0..(Power[n] - 1)
          BY <3>2, <3>a
        <4>a. (Power[n] * b[n] + G[n]) \div Power[n] = b[n]
          <5> DEFINE p == Power[n]
                     q == b[n]
                     r == G[n]
          <5>1. p \in Nat \ {0} /\ q \in Int /\ r \in 0..(p - 1)
            BY <3>2, <3>a, <4>1
          <5> HIDE DEF p, q, r
          <5>2. (p * q + r) \div p = q
            BY <5>1, DivUnique
          <5> QED
            BY <5>2 DEF p, q, r
        <4>2. G[n + 1] \div Power[n] = b[n]
          BY <4>1, <4>a
        <4>3. b[n] % 2 = b[n]
          BY <3>2
        <4> QED
          BY <3>3, <4>2, <4>3 DEF Bit
      <3>4. CASE j # n
        <4>1. j \in 0..(n - 1)
          BY <3>1, <3>4
        <4>2. PICK k \in Nat : Power[n] = 2 * Power[j] * k
          BY <3>1, <4>1, PowerMultiple
        <4>3. b[n] * k \in Nat /\ G[n + 1] = G[n] + 2 * Power[j] * (b[n] * k)
          BY <3>2, <3>a, <4>2
        <4>a. ((G[n] + 2 * Power[j] * (b[n] * k)) \div Power[j]) % 2 = (G[n] \div Power[j]) % 2
          BY <3>2, <3>a, <4>3, HigherBits
        <4>4. Bit(G[n + 1], j) = Bit(G[n], j)
          BY <4>3, <4>a DEF Bit
        <4> QED
          BY <3>1, <4>1, <4>4
      <3> QED
        BY <3>3, <3>4
    <2>3. U \in SUBSET Nat
      OBVIOUS
    <2> HIDE DEF U
    <2> QED
      BY <2>1, <2>2, <2>3, SetInduction
  <1>9. G[Width] \in Nat /\ G[Width] < Modulus
    BY <1>0, <1>7 DEF Modulus
  <1>10. Modulus \in Nat
    BY <1>0, PowerDef DEF Modulus
  <1>11. \A j \in 0..(Width - 1) : Bit(G[Width], j) = BitOf(f, Bit(x, j), Bit(y, j))
    BY <1>0, <1>1, <1>8
  <1> QED
    BY <1>5, <1>9, <1>10, <1>11

(***************************************************************************)
(* sabAtomicCAS with a & b, a | b, a ^ b: what it makes of a cell has, at  *)
(* each of its bits, what they make of the two bits there, for any width.  *)
(***************************************************************************)
THEOREM Bitwise ==
    \A f \in Looped, old, v \in Values :
        /\ Apply(f, old, v) \in Values
        /\ \A i \in 0..(Width - 1) : Bit(Apply(f, old, v), i) = BitOf(f, Bit(old, i), Bit(v, i))
  <1> SUFFICES ASSUME NEW f \in Looped, NEW old \in Values, NEW v \in Values
               PROVE  /\ Apply(f, old, v) \in Values
                      /\ \A i \in 0..(Width - 1) : Bit(Apply(f, old, v), i) = BitOf(f, Bit(old, i), Bit(v, i))
    OBVIOUS
  <1>1. Apply(f, old, v) = PerBit(f, old, v)
    BY Zenon DEF Apply, Looped
  <1>2. old \in Nat /\ v \in Nat /\ f \in {"and", "or", "xor"}
    BY DEF Values, Looped
  <1>3. /\ PerBit(f, old, v) \in 0..(Modulus - 1)
        /\ \A i \in 0..(Width - 1) : Bit(PerBit(f, old, v), i) = BitOf(f, Bit(old, i), Bit(v, i))
    BY <1>2, PerBitCorrect
  <1> QED
    BY <1>1, <1>3, Zenon DEF Values

LEMMA ModulusType == Modulus \in Nat \ {0} /\ 0 \in Values
  <1>1. Modulus \in Nat \ {0}
    BY AtomicsAssumption, PowerDef DEF Modulus
  <1> QED
    BY <1>1 DEF Values

(* One addition or subtraction goes round the values at most once. *)
LEMMA Wraps ==
    ASSUME NEW m \in Nat \ {0}, NEW x \in 0..(m - 1)
    PROVE  x % m = x /\ (x + m) % m = x
  OBVIOUS

LEMMA AddBack ==
    ASSUME NEW m \in Nat \ {0}, NEW x \in 0..(m - 1), NEW y \in 0..(m - 1)
    PROVE  /\ (x + y) % m \in 0..(m - 1) /\ (x + m - y) % m \in 0..(m - 1)
           /\ (((x + y) % m) + m - y) % m = x
           /\ (((x + m - y) % m) + y) % m = x
  <1>1. (x + y) % m \in 0..(m - 1) /\ (((x + y) % m) + m - y) % m = x
    <2>1. CASE x + y < m
      <3>1. (x + y) % m = x + y
        <4>1. x + y \in 0..(m - 1)
          BY <2>1
        <4> QED
          BY <4>1, Wraps
      <3>2. (x + y) + m - y = x + m
        OBVIOUS
      <3> QED
        BY <2>1, <3>1, <3>2, Wraps
    <2>2. CASE x + y >= m
      <3>1. (x + y) - m \in 0..(m - 1) /\ ((x + y) - m) + m = x + y
        BY <2>2
      <3>2. (x + y) % m = (x + y) - m
        BY <3>1, Wraps
      <3>3. ((x + y) - m) + m - y = x
        OBVIOUS
      <3> QED
        BY <3>1, <3>2, <3>3, Wraps
    <2> QED
      BY <2>1, <2>2
  <1>2. (x + m - y) % m \in 0..(m - 1) /\ (((x + m - y) % m) + y) % m = x
    <2>1. CASE x < y
      <3>1. x + m - y \in 0..(m - 1) /\ (x + m - y) + y = x + m
        BY <2>1
      <3>2. (x + m - y) % m = x + m - y
        BY <3>1, Wraps
      <3> QED
        BY <3>1, <3>2, Wraps
    <2>2. CASE x >= y
      <3>1. x - y \in 0..(m - 1) /\ (x - y) + m = x + m - y /\ (x - y) + y = x
        BY <2>2
      <3>2. (x + m - y) % m = x - y
        BY <3>1, Wraps
      <3> QED
        BY <3>1, <3>2, Wraps
    <2> QED
      BY <2>1, <2>2
  <1> QED
    BY <1>1, <1>2

(* What an operation makes of a value is a value; what it returns is the value *)
(* that was there, or the one that it stored.                                  *)
LEMMA ReturnsOld ==
    ASSUME NEW f \in Simple \cup Looped, NEW old \in Values, NEW v \in Values
    PROVE  /\ Apply(f, old, v) \in Values
           /\ Returned(f, old, v) = IF f = "store" THEN v ELSE old
  <1>1. CASE f \in Looped
    <2>1. Returned(f, old, v) = old /\ f # "store"
      BY <1>1, Zenon DEF Returned, Looped
    <2> QED
      BY <1>1, <2>1, Bitwise
  <1>a. /\ Modulus \in Nat \ {0} /\ old \in 0..(Modulus - 1) /\ v \in 0..(Modulus - 1)
        /\ (old + v) % Modulus \in Values /\ (old + Modulus - v) % Modulus \in Values
        /\ (((old + v) % Modulus) + Modulus - v) % Modulus = old
        /\ (((old + Modulus - v) % Modulus) + v) % Modulus = old
    <2>1. Modulus \in Nat \ {0} /\ old \in 0..(Modulus - 1) /\ v \in 0..(Modulus - 1)
      BY ModulusType DEF Values
    <2> QED
      BY <2>1, AddBack DEF Values
  <1>2. CASE f = "add"
    <2>1. Apply(f, old, v) = (old + v) % Modulus
      BY <1>2, Zenon DEF Apply, Looped
    <2>2. Returned(f, old, v) = (Apply(f, old, v) + Modulus - v) % Modulus
      BY <1>2, Zenon DEF Returned
    <2> QED
      BY <1>2, <1>a, <2>1, <2>2
  <1>3. CASE f = "sub"
    <2>1. Apply(f, old, v) = (old + Modulus - v) % Modulus
      BY <1>3, Zenon DEF Apply, Looped
    <2>2. Returned(f, old, v) = (Apply(f, old, v) + v) % Modulus
      BY <1>3, Zenon DEF Returned
    <2> QED
      BY <1>3, <1>a, <2>1, <2>2
  <1>4. CASE f = "store"
    <2>1. Apply(f, old, v) = v
      BY <1>4, Zenon DEF Apply, Looped
    <2>2. Returned(f, old, v) = v
      BY <1>4, Zenon DEF Returned
    <2> QED
      BY <1>4, <2>1, <2>2
  <1>5. CASE f = "exchange"
    <2>1. Apply(f, old, v) = v
      BY <1>5, Zenon DEF Apply, Looped
    <2>2. Returned(f, old, v) = old
      BY <1>5, Zenon DEF Returned
    <2> QED
      BY <1>5, <2>1, <2>2
  <1> QED
    BY <1>1, <1>2, <1>3, <1>4, <1>5 DEF Simple

-----------------------------------------------------------------------------
AgentKinds == Simple \cup Looped \cup {"none", "compareExchange"}

(* What the waits and the agents work with. *)
ValueInv ==
    /\ cast \in Casts /\ mem \in [Cells -> Values]
    /\ expect \in [Waits -> Values] /\ timeout \in [Waits -> Timeouts]
    /\ apc \in [Agents -> {"idle", "load", "swap", "return"}]
    /\ op \in [Agents -> AgentKinds] /\ at \in [Agents -> Cells]
    /\ val \in [Agents -> Values] /\ repl \in [Agents -> Values] /\ seen \in [Agents -> Values]
    /\ ops \in 0 .. OpsBound

LEMMA InitValueInv == Init => ValueInv
  <1>1. (CHOOSE c \in Cells : TRUE) \in Cells
    BY AtomicsAssumption
  <1>2. 0 \in 0 .. OpsBound
    BY AtomicsAssumption
  <1> QED
    BY <1>1, <1>2, ModulusType DEF Init, ValueInv, Timeouts, AgentKinds

(* A wait changes its own arguments alone. *)
LEMMA WaitValues ==
    ASSUME ValueInv, NEW w \in Waits, Wait(w) \/ WaitAsync(w) \/ WaitStep(w)
    PROVE  ValueInv' /\ UNCHANGED <<mem, apc>>
  <1>1. UNCHANGED <<cast, mem, agentVars>>
    BY DEF Wait, WaitAsync, WaitStep, Register, Load, addWaiter, Signalled, TimerFires, removeWaiter, Recheck, Resolve
  <1>2. UNCHANGED <<cast, mem, apc, op, at, val, repl, seen, ops>>
    BY <1>1 DEF agentVars, callArgs
  <1>3. \A c, r, v, t : LoadValue(w, c, v, t) /\ v \in Values /\ t \in Timeouts =>
          expect' \in [Waits -> Values] /\ timeout' \in [Waits -> Timeouts]
    BY ModulusType DEF ValueInv, LoadValue, Answer, Arguments, Timeouts
  <1>4. \A r : Answer(w, r) => expect' \in [Waits -> Values] /\ timeout' \in [Waits -> Timeouts]
    BY ModulusType DEF ValueInv, Answer, Arguments, Timeouts
  <1>5. expect' \in [Waits -> Values] /\ timeout' \in [Waits -> Timeouts]
    <2>1. CASE Wait(w)
      BY <1>3, <2>1 DEF Wait
    <2>2. CASE WaitAsync(w)
      BY <1>4, <2>2 DEF WaitAsync, Arguments, ValueInv
    <2>3. CASE Load(w)
      BY <1>3, <2>3 DEF Load, ValueInv
    <2>4. CASE Signalled(w) \/ Recheck(w)
      BY <1>4, <2>4 DEF Signalled, Recheck
    <2>5. CASE addWaiter(w)
      BY <2>5, ModulusType DEF addWaiter, ValueInv
    <2>6. CASE Register(w) \/ TimerFires(w) \/ removeWaiter(w) \/ Resolve(w)
      BY <2>6 DEF Register, TimerFires, removeWaiter, Resolve, WaitGoto, waitArgs, ValueInv
    <2> QED
      BY <2>1, <2>2, <2>3, <2>4, <2>5, <2>6 DEF WaitStep
  <1> QED
    BY <1>2, <1>5 DEF ValueInv

(* A step of agent a that completes an update. *)
Atomic(a) ==
    apc'[a] = "return" /\ op'[a] \in Updates =>
        /\ mem'[at'[a]] = Apply(op'[a], mem[at'[a]], val'[a])
        /\ seen'[a] = IF op'[a] = "store" THEN val'[a] ELSE mem[at'[a]]

LEMMA BeginValues ==
    ASSUME ValueInv, NEW a \in Agents, NEW f \in AgentKinds \ {"none"}, NEW c \in Cells, NEW v \in Values, Begin(a, f, c, v)
    PROVE  /\ op' \in [Agents -> AgentKinds] /\ at' \in [Agents -> Cells] /\ val' \in [Agents -> Values]
           /\ op'[a] = f /\ at'[a] = c /\ val'[a] = v
           /\ ops' \in 0 .. OpsBound
  <1>1. ops' \in 0 .. OpsBound
    BY AtomicsAssumption DEF Begin, ValueInv
  <1> QED
    BY <1>1 DEF Begin, ValueInv

LEMMA AgentValues ==
    ASSUME ValueInv, NEW a \in Agents, AgentStep(a)
    PROVE  ValueInv' /\ (apc[a] # "return" => Atomic(a)) /\ \A b \in Agents \ {a} : apc'[b] = apc[b]
  <1>1. UNCHANGED <<cast, waitVars>>
    BY DEF AgentStep, Update, BeginLooped, BeginCompareExchange, Swap, LoadAgain, CompareExchange, Return, Notify
  <1>2. UNCHANGED <<cast, expect, timeout>>
    BY <1>1 DEF waitVars, waitArgs
  <1>3. ASSUME Update(a) PROVE ValueInv' /\ Atomic(a) /\ \A b \in Agents \ {a} : apc'[b] = apc[b]
    <2>1. PICK f \in Simple, c \in Cells, v \in Values :
            /\ Begin(a, f, c, v) /\ mem' = [mem EXCEPT ![c] = Apply(f, mem[c], v)]
            /\ seen' = [seen EXCEPT ![a] = Returned(f, mem[c], v)]
            /\ AgentGoto(a, "return") /\ UNCHANGED repl
      BY <1>3 DEF Update
    <2>2. /\ op' \in [Agents -> AgentKinds] /\ at' \in [Agents -> Cells] /\ val' \in [Agents -> Values]
          /\ op'[a] = f /\ at'[a] = c /\ val'[a] = v /\ ops' \in 0 .. OpsBound
      BY <2>1, BeginValues DEF AgentKinds, Simple
    <2>3. /\ Apply(f, mem[c], v) \in Values
          /\ Returned(f, mem[c], v) = IF f = "store" THEN v ELSE mem[c]
      BY ReturnsOld DEF ValueInv
    <2>4. mem[c] \in Values /\ Returned(f, mem[c], v) \in Values
      BY <2>3 DEF ValueInv
    <2>5. /\ mem' \in [Cells -> Values] /\ mem'[c] = Apply(f, mem[c], v)
          /\ seen' \in [Agents -> Values] /\ seen'[a] = Returned(f, mem[c], v)
          /\ apc' \in [Agents -> {"idle", "load", "swap", "return"}]
          /\ \A b \in Agents \ {a} : apc'[b] = apc[b]
      BY <2>1, <2>3, <2>4 DEF ValueInv, AgentGoto
    <2>6. Atomic(a)
      BY <2>2, <2>3, <2>5 DEF Atomic
    <2> QED
      BY <1>2, <2>1, <2>2, <2>5, <2>6 DEF ValueInv
  <1>4. ASSUME BeginLooped(a) \/ BeginCompareExchange(a)
        PROVE  ValueInv' /\ Atomic(a) /\ \A b \in Agents \ {a} : apc'[b] = apc[b]
    <2>1. PICK f \in AgentKinds \ {"none"}, c \in Cells, v \in Values, r \in Values :
            /\ Begin(a, f, c, v) /\ mem' = mem /\ seen' = [seen EXCEPT ![a] = mem[c]]
            /\ AgentGoto(a, "swap") /\ repl' = [repl EXCEPT ![a] = r]
      <3>1. CASE BeginLooped(a)
        <4>1. PICK f \in Looped, c \in Cells, v \in Values :
                /\ Begin(a, f, c, v) /\ mem' = mem /\ seen' = [seen EXCEPT ![a] = mem[c]]
                /\ AgentGoto(a, "swap") /\ repl' = repl
          BY <3>1 DEF BeginLooped
        <4>2. repl = [repl EXCEPT ![a] = repl[a]] /\ f \in AgentKinds \ {"none"} /\ repl[a] \in Values
          BY DEF ValueInv, AgentKinds, Looped
        <4>3. repl' = [repl EXCEPT ![a] = repl[a]]
          BY <4>1, <4>2
        <4> QED
          BY <4>1, <4>2, <4>3
      <3>2. CASE BeginCompareExchange(a)
        BY <3>2 DEF BeginCompareExchange, AgentKinds
      <3> QED
        BY <1>4, <3>1, <3>2
    <2>2. /\ op' \in [Agents -> AgentKinds] /\ at' \in [Agents -> Cells] /\ val' \in [Agents -> Values]
          /\ ops' \in 0 .. OpsBound
      BY <2>1, BeginValues
    <2>3. /\ seen' \in [Agents -> Values] /\ repl' \in [Agents -> Values]
          /\ apc' \in [Agents -> {"idle", "load", "swap", "return"}] /\ apc'[a] = "swap"
          /\ \A b \in Agents \ {a} : apc'[b] = apc[b]
      BY <2>1 DEF ValueInv, AgentGoto
    <2> QED
      BY <1>2, <2>1, <2>2, <2>3 DEF ValueInv, Atomic
  <1>5. ASSUME Swap(a) PROVE ValueInv' /\ Atomic(a) /\ \A b \in Agents \ {a} : apc'[b] = apc[b]
    <2>1. op[a] \in Looped /\ UNCHANGED <<op, at, val, repl, seen, ops>>
      BY <1>5 DEF Swap, callArgs
    <2>2. Apply(op[a], seen[a], val[a]) \in Values /\ at[a] \in Cells
      BY <2>1, ReturnsOld DEF ValueInv
    <2>3. CASE mem[at[a]] = seen[a]
      <3>1. mem' = [mem EXCEPT ![at[a]] = Apply(op[a], seen[a], val[a])] /\ AgentGoto(a, "return")
        BY <1>5, <2>3 DEF Swap
      <3>2. /\ mem' \in [Cells -> Values] /\ mem'[at[a]] = Apply(op[a], seen[a], val[a])
            /\ apc' \in [Agents -> {"idle", "load", "swap", "return"}]
            /\ \A b \in Agents \ {a} : apc'[b] = apc[b]
        BY <2>2, <3>1 DEF ValueInv, AgentGoto
      <3>3. Atomic(a)
        BY <2>1, <2>3, <3>2 DEF Atomic, Looped
      <3> QED
        BY <1>2, <2>1, <3>2, <3>3 DEF ValueInv
    <2>4. CASE mem[at[a]] # seen[a]
      <3>1. mem' = mem /\ AgentGoto(a, "load")
        BY <1>5, <2>4 DEF Swap
      <3> QED
        BY <1>2, <2>1, <3>1 DEF ValueInv, AgentGoto, Atomic
    <2> QED
      BY <2>3, <2>4
  <1>6. ASSUME LoadAgain(a) PROVE ValueInv' /\ Atomic(a) /\ \A b \in Agents \ {a} : apc'[b] = apc[b]
    BY <1>2, <1>6 DEF LoadAgain, ValueInv, AgentGoto, Atomic
  <1>7. ASSUME CompareExchange(a) PROVE ValueInv' /\ Atomic(a) /\ \A b \in Agents \ {a} : apc'[b] = apc[b]
    <2>1. op[a] = "compareExchange" /\ UNCHANGED <<op, at, val, repl, seen, ops>>
      BY <1>7 DEF CompareExchange, callArgs
    <2>2. op'[a] \notin Updates
      BY <2>1 DEF Updates, Simple, Looped
    <2>3. mem' \in [Cells -> Values]
      BY <1>7 DEF CompareExchange, ValueInv
    <2> QED
      BY <1>2, <1>7, <2>1, <2>2, <2>3 DEF CompareExchange, ValueInv, AgentGoto, Atomic
  <1>8. ASSUME Return(a) PROVE ValueInv' /\ apc[a] = "return" /\ \A b \in Agents \ {a} : apc'[b] = apc[b]
    <2>1. apc[a] = "return" /\ UNCHANGED <<mem, at, ops>>
      BY <1>8 DEF Return
    <2>2. /\ apc' \in [Agents -> {"idle", "load", "swap", "return"}] /\ op' \in [Agents -> AgentKinds]
          /\ \A b \in Agents \ {a} : apc'[b] = apc[b]
      BY <1>8 DEF Return, ValueInv, AgentGoto, AgentKinds
    <2>3. val' \in [Agents -> Values] /\ repl' \in [Agents -> Values] /\ seen' \in [Agents -> Values]
      BY <1>8, ModulusType DEF Return, ValueInv
    <2> QED
      BY <1>2, <2>1, <2>2, <2>3 DEF ValueInv
  <1>9. ASSUME Notify(a) PROVE ValueInv' /\ Atomic(a) /\ \A b \in Agents \ {a} : apc'[b] = apc[b]
    <2>1. UNCHANGED <<mem, apc, op, at, val, repl, seen>> /\ apc[a] = "idle"
      BY <1>9 DEF Notify, callArgs
    <2>2. ops' \in 0 .. OpsBound
      BY <1>9, AtomicsAssumption DEF Notify, ValueInv
    <2> QED
      BY <1>2, <2>1, <2>2 DEF ValueInv, Atomic
  <1> QED
    BY <1>3, <1>4, <1>5, <1>6, <1>7, <1>8, <1>9 DEF AgentStep

LEMMA StepValueInv == ValueInv /\ [Next]_vars => ValueInv'
  <1> SUFFICES ASSUME ValueInv, [Next]_vars PROVE ValueInv'
    OBVIOUS
  <1>1. CASE UNCHANGED vars
    BY <1>1 DEF vars, waitVars, waitArgs, agentVars, callArgs, ValueInv
  <1> QED
    BY <1>1, WaitValues, AgentValues DEF Next

LEMMA ValuesCorrect == Spec => []ValueInv
  <1> QED
    BY InitValueInv, StepValueInv, PTL DEF Spec

(* Cells hold int32 values whatever is done to them, and the counters of     *)
(* waitAsync and notify stay within the number of waits.                     *)
THEOREM TypeCorrect == Spec => []TypeOK
  <1>1. IInv /\ ValueInv => TypeOK
    <2> SUFFICES ASSUME IInv, ValueInv PROVE TypeOK
      OBVIOUS
    <2>1. Shape /\ CountInv
      BY DEF IInv
    <2>2. Awaited \subseteq Waits /\ token \cup Ok \subseteq Waits /\ IsFiniteSet(Waits)
      BY <2>1, AtomicsAssumption DEF Shape, Awaited, Ok
    <2>3. \A S \in SUBSET Waits : Cardinality(S) \in 0 .. Cardinality(Waits)
      <3> SUFFICES ASSUME NEW S \in SUBSET Waits PROVE Cardinality(S) \in 0 .. Cardinality(Waits)
        OBVIOUS
      <3>1. IsFiniteSet(S) /\ Cardinality(S) <= Cardinality(Waits)
        BY <2>2, FS_Subset
      <3>2. Cardinality(S) \in Nat /\ Cardinality(Waits) \in Nat
        BY <2>2, <3>1, FS_CardinalityType
      <3> QED
        BY <3>1, <3>2
    <2>4. waitAsyncCount \in 0 .. Cardinality(Waits) /\ woken \in 0 .. Cardinality(Waits)
      BY <2>1, <2>2, <2>3 DEF CountInv
    <2> QED
      BY <2>1, <2>4 DEF TypeOK, Shape, Places, ValueInv, AgentKinds
  <1> QED
    BY <1>1, Invariance, ValuesCorrect, PTL

(* An update is atomic although and, or and xor are a loop, and returns the  *)
(* value it replaced although add and sub work it out of a wrapped sum.      *)
THEOREM UpdatesAreAtomic == Spec => UpdatesAtomic
  <1>1. ValueInv /\ [Next]_vars =>
          [\A a \in Agents : Completes(a) /\ op'[a] \in Updates =>
             LET c == at'[a]
             IN  /\ mem'[c] = Apply(op'[a], mem[c], val'[a])
                 /\ seen'[a] = IF op'[a] = "store" THEN val'[a] ELSE mem[c]]_vars
    <2> SUFFICES ASSUME ValueInv, Next, NEW a \in Agents, Completes(a), op'[a] \in Updates
                 PROVE  /\ mem'[at'[a]] = Apply(op'[a], mem[at'[a]], val'[a])
                        /\ seen'[a] = IF op'[a] = "store" THEN val'[a] ELSE mem[at'[a]]
      OBVIOUS
    <2>1. apc'[a] = "return" /\ apc[a] # "return"
      BY DEF Completes
    <2>2. AgentStep(a)
      <3>1. ASSUME NEW w \in Waits, Wait(w) \/ WaitAsync(w) \/ WaitStep(w) PROVE FALSE
        BY <2>1, <3>1, WaitValues
      <3>2. ASSUME NEW b \in Agents \ {a}, AgentStep(b) PROVE FALSE
        BY <2>1, <3>2, AgentValues
      <3> QED
        BY <3>1, <3>2 DEF Next
    <2>3. Atomic(a)
      BY <2>1, <2>2, AgentValues
    <2> QED
      BY <2>1, <2>3 DEF Atomic
  <1> QED
    BY <1>1, ValuesCorrect, PTL DEF Spec, UpdatesAtomic

-----------------------------------------------------------------------------
(* Atomics implements WaitLine. *)

(* Only a wait with a timeout expires. *)
TimedInv == \A w \in Waits : wpc[w] = "expired" => timeout[w] = "finite"

LEMMA StepTimed == TypeOK /\ TimedInv /\ [Next]_vars => TimedInv'
  <1> SUFFICES ASSUME TypeOK, TimedInv, [Next]_vars, NEW w \in Waits, wpc'[w] = "expired"
               PROVE  timeout'[w] = "finite"
    BY DEF TimedInv
  <1>1. CASE UNCHANGED <<wpc, timeout>>
    BY <1>1 DEF TimedInv
  <1>2. ASSUME NEW v \in Waits, Wait(v) \/ WaitAsync(v) \/ Load(v) \/ addWaiter(v) \/ Signalled(v) \/ Recheck(v)
        PROVE  wpc[w] = "expired" /\ timeout'[w] = timeout[w]
    BY <1>2 DEF Wait, WaitAsync, Load, LoadValue, Answer, Arguments, addWaiter, Signalled, Recheck, TypeOK
  <1>3. ASSUME NEW v \in Waits, TimerFires(v) PROVE timeout'[w] = "finite"
    BY <1>3 DEF TimerFires, WaitGoto, waitArgs, TimedInv, TypeOK
  <1>4. ASSUME NEW v \in Waits, Register(v) \/ removeWaiter(v) \/ Resolve(v)
        PROVE  wpc[w] = "expired" /\ timeout'[w] = timeout[w]
    BY <1>4 DEF Register, removeWaiter, Resolve, WaitGoto, waitArgs, TypeOK
  <1>5. ASSUME NEW a \in Agents, AgentStep(a) PROVE UNCHANGED <<wpc, timeout>>
    BY <1>5 DEF AgentStep, Update, BeginLooped, BeginCompareExchange, Swap, LoadAgain, CompareExchange, Return, Notify,
                waitVars, waitArgs
  <1>6. UNCHANGED vars => UNCHANGED <<wpc, timeout>>
    BY DEF vars, waitVars, waitArgs
  <1> QED
    BY <1>1, <1>2, <1>3, <1>4, <1>5, <1>6 DEF Next, WaitStep, TimedInv

LEMMA FateCases ==
    \A w :
        /\ answer[w] # "none" => Fate(w) = answer[w]
        /\ answer[w] = "none" /\ w \in token => Fate(w) = "woken"
        /\ answer[w] = "none" /\ w \notin token /\ wpc[w] \in {"parked", "expired"} => Fate(w) = "in"
        /\ answer[w] = "none" /\ w \notin token /\ wpc[w] = "recheck" => Fate(w) = "left"
        /\ answer[w] = "none" /\ w \notin token /\ wpc[w] \notin {"parked", "expired", "recheck"} => Fate(w) = "out"
  BY Zenon DEF Fate

(* A step that moves wait w alone leaves the fates of the others as they are. *)
LEMMA OtherFates ==
    ASSUME Shape, NEW w \in Waits, NEW v \in Waits \ {w}, Moves(w)
    PROVE  Fate(v)' = Fate(v)
  <1>1. wpc'[v] = wpc[v] /\ answer'[v] = answer[v] /\ (v \in token' <=> v \in token)
    BY DEF Moves
  <1> QED
    BY <1>1, Zenon DEF Fate

Timing == {w \in Waits : Timed(w)}
Fates  == [w \in Waits |-> Fate(w)]

LEMMA InitLine == Init => L!Init
  <1> SUFFICES ASSUME Init PROVE L!Init
    OBVIOUS
  <1>1. \A w \in Waits : Fate(w) = "out" /\ ~Timed(w)
    <2>1. \A w \in Waits : answer[w] = "none" /\ w \notin token /\ wpc[w] = "start"
      BY DEF Init
    <2> QED
      BY <2>1, FateCases DEF Timed
  <1> QED
    BY <1>1 DEF Init, L!Init

(* What a step of one wait is, seen from the line. *)
LEMMA OneMoves ==
    ASSUME Shape, NEW w \in Waits, Moves(w), NEW f, Fate(w)' = f,
           \A v \in Waits \ {w} : timeout'[v] = timeout[v]
    PROVE  /\ Fates' = [Fates EXCEPT ![w] = f]
           /\ Timing' \ {w} = Timing \ {w}
  <1>1. \A v \in Waits \ {w} : Fate(v)' = Fate(v)
    BY OtherFates
  <1>2. \A v \in Waits \ {w} : Timed(v)' <=> Timed(v)
    BY DEF Timed, Moves
  <1>3. Fates' = [Fates EXCEPT ![w] = f]
    BY <1>1 DEF Fates
  <1>4. Timing' \ {w} = Timing \ {w}
    BY <1>2 DEF Timing
  <1> QED
    BY <1>3, <1>4
(* The steps of the line, by what they make of the fates. *)
LEMMA ToRefuse ==
    ASSUME NEW w \in Waits, Fate(w) = "out", NEW r \in {"not-equal", "timed-out"},
           Fates' = [Fates EXCEPT ![w] = r], UNCHANGED <<queue, Timing, woken>>
    PROVE  L!Next
  <1>1. L!Refuse(w)
    BY DEF L!Refuse, L!Becomes, Fates, Timing
  <1> QED
    BY <1>1 DEF L!Next

LEMMA ToEnter ==
    ASSUME NEW w \in Waits, NEW c \in Cells, Fate(w) = "out", Fates' = [Fates EXCEPT ![w] = "in"],
           queue' = [queue EXCEPT ![c] = Append(@, w)], Timing' \in {Timing, Timing \cup {w}}, woken' = woken
    PROVE  L!Next
  <1>1. L!Enter(w, c)
    BY DEF L!Enter, L!Becomes, Fates, Timing
  <1> QED
    BY <1>1 DEF L!Next

LEMMA ToGiveUp ==
    ASSUME NEW w \in Waits, NEW c \in Cells, NEW i \in 1..Len(queue[c]), queue[c][i] = w, w \in Timing,
           Fate(w) = "in", Fates' = [Fates EXCEPT ![w] = "left"],
           queue' = [queue EXCEPT ![c] = SubSeq(@, 1, i - 1) \o SubSeq(@, i + 1, Len(@))],
           UNCHANGED <<Timing, woken>>
    PROVE  L!Next
  <1>1. L!GiveUp(w, c, i)
    BY DEF L!GiveUp, L!Becomes, Fates, Timing
  <1> QED
    BY <1>1 DEF L!Next

LEMMA ToReturn ==
    ASSUME NEW w \in Waits, NEW r,
           \/ Fate(w) = "woken" /\ r = "ok"
           \/ Fate(w) = "left" /\ r = "timed-out",
           Fates' = [Fates EXCEPT ![w] = r], Timing' = Timing \ {w}, UNCHANGED <<queue, woken>>
    PROVE  L!Next
  <1>1. L!Return(w)
    BY DEF L!Return, L!Becomes, Fates, Timing
  <1> QED
    BY <1>1 DEF L!Next

LEMMA ToNotify ==
    ASSUME NEW c \in Cells, NEW n \in 0..Len(queue[c]),
           Fates' = [w \in Waits |-> IF \E i \in 1..n : queue[c][i] = w THEN "woken" ELSE Fate(w)],
           queue' = [queue EXCEPT ![c] = SubSeq(@, n + 1, Len(@))], woken' = woken + n, UNCHANGED Timing
    PROVE  L!Next
  <1>1. L!Notify(c, n)
    BY DEF L!Notify, Fates, Timing
  <1> QED
    BY <1>1 DEF L!Next

LEMMA ToStutter ==
    ASSUME UNCHANGED <<queue, Fates, Timing, woken>>
    PROVE  UNCHANGED L!vars
  BY DEF L!vars, Fates, Timing

LEMMA WaitMoves ==
    ASSUME TypeOK, NEW w \in Waits, Wait(w) \/ WaitAsync(w) \/ WaitStep(w)
    PROVE  Moves(w) /\ \A v \in Waits \ {w} : timeout'[v] = timeout[v]
  <1>1. ASSUME NEW c, NEW v, NEW t, LoadValue(w, c, v, t), UNCHANGED <<token, promises>>
        PROVE  Moves(w) /\ \A u \in Waits \ {w} : timeout'[u] = timeout[u]
    <2>1. \/ Answer(w, "not-equal") \/ Answer(w, "timed-out")
          \/ /\ wpc' = [wpc EXCEPT ![w] = "enqueue"]
             /\ Arguments(w, c, v, t) /\ UNCHANGED <<async, answer>>
      BY <1>1 DEF LoadValue
    <2> QED
      BY <1>1, <2>1 DEF Answer, Arguments, promises, Moves, TypeOK
  <1>2. CASE Wait(w)
    BY <1>1, <1>2 DEF Wait
  <1>3. CASE WaitAsync(w)
    BY <1>3 DEF WaitAsync, Answer, Arguments, promises, Moves, TypeOK
  <1>4. CASE Load(w)
    BY <1>1, <1>4 DEF Load
  <1>5. CASE addWaiter(w)
    BY <1>5 DEF addWaiter, promises, Moves, TypeOK
  <1>6. CASE Signalled(w) \/ Recheck(w)
    BY <1>6 DEF Signalled, Recheck, Answer, Arguments, promises, Moves, TypeOK
  <1>7. CASE TimerFires(w) \/ removeWaiter(w)
    BY <1>7 DEF TimerFires, removeWaiter, WaitGoto, waitArgs, promises, Moves, TypeOK
  <1>8. CASE Register(w) \/ Resolve(w)
    BY <1>8 DEF Register, Resolve, WaitGoto, waitArgs, Moves, TypeOK
  <1> QED
    BY <1>2, <1>3, <1>4, <1>5, <1>6, <1>7, <1>8 DEF WaitStep

(* A step of one wait: what it does to its own fate and timing. *)
LEMMA Moved ==
    ASSUME TypeOK, Shape, NEW w \in Waits, Wait(w) \/ WaitAsync(w) \/ WaitStep(w), NEW f, Fate(w)' = f
    PROVE  /\ Fates' = [Fates EXCEPT ![w] = f]
           /\ Fate(w) = f => Fates' = Fates
           /\ Timing' = IF Timed(w)' THEN (Timing \ {w}) \cup {w} ELSE Timing \ {w}
           /\ (Timed(w)' <=> Timed(w)) => Timing' = Timing
  <1>1. Moves(w) /\ \A v \in Waits \ {w} : timeout'[v] = timeout[v]
    BY WaitMoves
  <1>2. Fates' = [Fates EXCEPT ![w] = f] /\ Timing' \ {w} = Timing \ {w}
    BY <1>1, OneMoves
  <1>3. Fate(w) = f => Fates' = Fates
    BY <1>2 DEF Fates
  <1>4. (w \in Timing' <=> Timed(w)') /\ (w \in Timing <=> Timed(w))
    BY DEF Timing
  <1> QED
    BY <1>2, <1>3, <1>4

LEMMA Outside ==
    ASSUME IInv, NEW w \in Waits, wpc[w] \in {"start", "load", "enqueue"}
    PROVE  Fate(w) = "out" /\ ~Timed(w) /\ answer[w] = "none" /\ w \notin token
  <1>1. answer[w] = "none" /\ w \notin token
    BY DEF IInv, WaitInv
  <1> QED
    BY <1>1, FateCases DEF Timed

LEMMA LineLoad ==
    ASSUME IInv, TypeOK, NEW w \in Waits, Wait(w) \/ WaitAsync(w) \/ Load(w)
    PROVE  [L!Next]_(L!vars)
  <1>1. wpc[w] \in {"start", "load"} /\ UNCHANGED <<queue, token, woken>>
    BY DEF Wait, WaitAsync, Load
  <1>2. Fate(w) = "out" /\ ~Timed(w) /\ answer[w] = "none" /\ w \notin token
    BY <1>1, Outside
  <1>3. ASSUME NEW r \in {"not-equal", "timed-out"}, Answer(w, r) PROVE L!Next
    <2>1. answer'[w] = r /\ wpc'[w] \in {"resolve", "returned"}
      BY <1>3 DEF Answer, TypeOK
    <2>2. Fate(w)' = r /\ ~Timed(w)'
      <3>1. answer'[w] # "none" => Fate(w)' = answer'[w]
        BY Zenon DEF Fate
      <3> QED
        BY <2>1, <3>1 DEF Timed
    <2>3. Fates' = [Fates EXCEPT ![w] = r] /\ Timing' = Timing
      BY <1>2, <2>2, Moved DEF IInv, WaitStep
    <2> QED
      BY <1>1, <1>2, <2>3, ToRefuse
  <1>4. ASSUME NEW l \in {"enqueue", "load"}, wpc' = [wpc EXCEPT ![w] = l], answer' = answer PROVE UNCHANGED L!vars
    <2>1. answer'[w] = "none" /\ w \notin token' /\ wpc'[w] \notin {"parked", "expired", "recheck"}
      BY <1>1, <1>2, <1>4 DEF TypeOK
    <2>2. Fate(w)' = "out" /\ ~Timed(w)'
      <3>1. answer'[w] = "none" /\ w \notin token' /\ wpc'[w] \notin {"parked", "expired", "recheck"} => Fate(w)' = "out"
        BY Zenon DEF Fate
      <3> QED
        BY <2>1, <3>1 DEF Timed
    <2>3. Fates' = Fates /\ Timing' = Timing
      BY <1>2, <2>2, Moved DEF IInv, WaitStep
    <2> QED
      BY <1>1, <2>3, ToStutter
  <1> QED
    BY <1>3, <1>4 DEF Wait, WaitAsync, Load, LoadValue

LEMMA LineEnter ==
    ASSUME IInv, TypeOK, NEW w \in Waits, addWaiter(w)
    PROVE  L!Next
  <1>1. /\ wpc[w] = "enqueue" /\ wpc'[w] = "parked" /\ cell[w] \in Cells
        /\ queue' = [queue EXCEPT ![cell[w]] = Append(@, w)] /\ UNCHANGED <<token, answer, woken>>
    BY DEF addWaiter, TypeOK
  <1>2. Fate(w) = "out" /\ ~Timed(w) /\ answer[w] = "none" /\ w \notin token
    BY <1>1, Outside
  <1>3. Fate(w)' = "in"
    <2>1. answer'[w] = "none" /\ w \notin token' /\ wpc'[w] \in {"parked", "expired"} => Fate(w)' = "in"
      BY Zenon DEF Fate
    <2> QED
      BY <1>1, <1>2, <2>1
  <1>4. Fates' = [Fates EXCEPT ![w] = "in"] /\ Timing' \in {Timing, Timing \cup {w}}
    <2>1. Timing \ {w} = Timing
      BY <1>2 DEF Timing
    <2> QED
      BY <1>3, <2>1, Moved DEF IInv, WaitStep
  <1> QED
    BY <1>1, <1>2, <1>4, ToEnter

LEMMA LineReturn ==
    ASSUME IInv, TypeOK, NEW w \in Waits, Signalled(w) \/ Recheck(w)
    PROVE  L!Next
  <1>1. PICK r \in {"ok", "timed-out"} :
          /\ r = "ok" <=> w \in token
          /\ wpc[w] = "recheck" \/ (wpc[w] = "parked" /\ w \in token)
          /\ Answer(w, r) /\ UNCHANGED <<queue, woken>>
    <2>1. CASE Signalled(w)
      BY <2>1 DEF Signalled
    <2>2. CASE Recheck(w)
      <3>1. CASE w \in token
        BY <2>2, <3>1 DEF Recheck
      <3>2. CASE w \notin token
        BY <2>2, <3>2 DEF Recheck
      <3> QED
        BY <3>1, <3>2
    <2> QED
      BY <2>1, <2>2
  <1>2. answer'[w] = r /\ wpc'[w] \in {"resolve", "returned"}
    BY <1>1 DEF Answer, TypeOK
  <1>3. Fate(w)' = r /\ ~Timed(w)'
    <2>1. answer'[w] # "none" => Fate(w)' = answer'[w]
      BY Zenon DEF Fate
    <2> QED
      BY <1>2, <2>1 DEF Timed
  <1>4. Fate(w) = IF w \in token THEN "woken" ELSE "left"
    <2>1. answer[w] = "none"
      BY <1>1 DEF IInv, WaitInv
    <2> QED
      BY <1>1, <2>1, FateCases
  <1>5. Fates' = [Fates EXCEPT ![w] = r] /\ Timing' = Timing \ {w}
    BY <1>3, Moved DEF IInv, WaitStep
  <1> QED
    BY <1>1, <1>4, <1>5, ToReturn

LEMMA LineQuiet ==
    ASSUME IInv, TypeOK, NEW w \in Waits, TimerFires(w) \/ Register(w) \/ Resolve(w)
    PROVE  UNCHANGED L!vars
  <1>1. UNCHANGED <<queue, token, answer, timeout, woken>>
    BY DEF TimerFires, Register, Resolve, WaitGoto, waitArgs
  <1>2. \/ wpc[w] = "parked" /\ wpc'[w] = "expired" /\ timeout[w] = "finite"
        \/ wpc'[w] = wpc[w]
        \/ wpc[w] = "resolve" /\ wpc'[w] = "returned"
    BY DEF TimerFires, Register, Resolve, WaitGoto, TypeOK
  <1>3. Fate(w)' = Fate(w)
    <2>1. w \in token' <=> w \in token
      BY <1>1
    <2>2. answer'[w] = answer[w]
      BY <1>1
    <2>3. (wpc'[w] \in {"parked", "expired"} <=> wpc[w] \in {"parked", "expired"}) /\ (wpc'[w] = "recheck" <=> wpc[w] = "recheck")
      BY <1>2
    <2> QED
      BY <2>1, <2>2, <2>3, Zenon DEF Fate
  <1>4. Timed(w)' <=> Timed(w)
    BY <1>1, <1>2 DEF Timed
  <1>5. Fates' = Fates /\ Timing' = Timing
    BY <1>3, <1>4, Moved DEF IInv, WaitStep
  <1> QED
    BY <1>1, <1>5, ToStutter

(* The timer was first, or a notify has come in between. *)
LEMMA LineGiveUp ==
    ASSUME IInv, TypeOK, TimedInv, NEW w \in Waits, removeWaiter(w)
    PROVE  [L!Next]_(L!vars)
  <1> DEFINE q == queue[cell[w]]
             First(i) == q[i] = w /\ \A j \in 1 .. (i - 1) : q[j] # w
             k == CHOOSE i \in DOMAIN q : First(i)
  <1>1. /\ wpc[w] = "expired" /\ wpc'[w] = "recheck" /\ timeout'[w] = timeout[w] /\ timeout[w] = "finite"
        /\ cell[w] \in Cells /\ q \in Seq(Waits) /\ NoRepeat(q)
        /\ queue' = [queue EXCEPT ![cell[w]] = Without(q, w)] /\ UNCHANGED <<token, answer, woken>>
    BY DEF removeWaiter, WaitGoto, waitArgs, TimedInv, TypeOK, IInv, QueueInv
  <1>2. answer[w] = "none" /\ (w \in token \/ Holds(q, w)) /\ ~(w \in token /\ Holds(q, w))
    BY <1>1 DEF IInv, WaitInv, QueueInv
  <1>3. Timed(w) /\ Timed(w)'
    BY <1>1 DEF Timed
  <1>4. Fate(w)' = IF w \in token THEN "woken" ELSE "left"
    <2>1. /\ answer'[w] = "none" /\ w \in token' => Fate(w)' = "woken"
          /\ answer'[w] = "none" /\ w \notin token' /\ wpc'[w] = "recheck" => Fate(w)' = "left"
      BY Zenon DEF Fate
    <2> QED
      BY <1>1, <1>2, <2>1
  <1>5. Fate(w) = IF w \in token THEN "woken" ELSE "in"
    BY <1>1, <1>2, FateCases
  <1>6. CASE Holds(q, w)
    <2>1. \E i \in DOMAIN q : First(i)
      <3>1. PICK i \in DOMAIN q : q[i] = w
        BY <1>6 DEF Holds
      <3>2. \A j \in 1..(i - 1) : j \in DOMAIN q /\ j # i
        BY <1>1
      <3> QED
        BY <1>1, <3>1, <3>2 DEF NoRepeat
    <2>2. k \in DOMAIN q /\ First(k)
      BY <2>1
    <2>3. Without(q, w) = SubSeq(q, 1, k - 1) \o SubSeq(q, k + 1, Len(q))
      BY <2>1 DEF Without
    <2> HIDE DEF k
    <2>4. k \in 1..Len(q) /\ q[k] = w
      BY <1>1, <2>2
    <2>5. Fates' = [Fates EXCEPT ![w] = "left"] /\ Timing' = Timing
      BY <1>2, <1>3, <1>4, <1>6, Moved DEF IInv, WaitStep
    <2>6. w \in Timing /\ Fate(w) = "in"
      BY <1>2, <1>3, <1>5, <1>6 DEF Timing
    <2> QED
      BY <1>1, <2>3, <2>4, <2>5, <2>6, ToGiveUp
  <1>7. CASE ~Holds(q, w)
    <2>1. Without(q, w) = q
      BY <1>7 DEF Without, Holds
    <2>2. queue' = queue
      BY <1>1, <2>1 DEF TypeOK
    <2>3. Fates' = Fates /\ Timing' = Timing
      BY <1>2, <1>3, <1>4, <1>5, <1>7, Moved DEF IInv, WaitStep
    <2> QED
      BY <1>1, <2>2, <2>3, ToStutter
  <1> QED
    BY <1>6, <1>7

(* Notify takes the first of the line, and turns no other fate. *)
LEMMA LineNotify ==
    ASSUME IInv, TypeOK, NEW a, Notify(a)
    PROVE  L!Next
  <1>1. UNCHANGED <<wpc, timeout, answer>>
    BY DEF Notify, waitVars, waitArgs
  <1>2. PICK c \in Cells : \E n \in 0..Len(queue[c]) : WakeFirst(c, n) /\ woken' = woken + n
    BY DEF Notify
  <1>3. PICK n \in 0..Len(queue[c]) : WakeFirst(c, n) /\ woken' = woken + n
    BY <1>2
  <1>4. n \in 0..Len(queue[c]) /\ queue[c] \in Seq(Waits)
    BY <1>3 DEF TypeOK
  <1>5. Timing' = Timing
    BY <1>1 DEF Timing, Timed
  <1>6. ASSUME NEW w \in Waits
        PROVE  Fate(w)' = IF \E i \in 1..n : queue[c][i] = w THEN "woken" ELSE Fate(w)
    <2>1. w \in token' <=> w \in token \/ \E i \in 1..n : queue[c][i] = w
      BY <1>3 DEF WakeFirst
    <2>2. CASE \E i \in 1..n : queue[c][i] = w
      <3>1. Holds(queue[c], w)
        BY <1>4, <2>2 DEF Holds
      <3>2. answer'[w] = "none"
        BY <1>1, <3>1 DEF IInv, QueueInv, WaitInv, TypeOK
      <3>3. answer'[w] = "none" /\ w \in token' => Fate(w)' = "woken"
        BY Zenon DEF Fate
      <3> QED
        BY <2>1, <2>2, <3>2, <3>3
    <2>3. CASE ~\E i \in 1..n : queue[c][i] = w
      <3>1. w \in token' <=> w \in token
        BY <2>1, <2>3
      <3>2. Fate(w)' = Fate(w)
        BY <1>1, <3>1, Zenon DEF Fate
      <3> QED
        BY <2>3, <3>2
    <2> QED
      BY <2>2, <2>3
  <1>7. Fates' = [w \in Waits |-> IF \E i \in 1..n : queue[c][i] = w THEN "woken" ELSE Fate(w)]
    BY <1>6 DEF Fates
  <1>8. queue' = [queue EXCEPT ![c] = SubSeq(@, n + 1, Len(@))] /\ woken' = woken + n
    BY <1>3 DEF WakeFirst
  <1> QED
    BY <1>4, <1>5, <1>7, <1>8, ToNotify

LEMMA LineStays ==
    ASSUME UNCHANGED <<queue, token, wpc, timeout, answer, woken>>
    PROVE  UNCHANGED L!vars
  <1>1. \A w \in Waits : Fate(w)' = Fate(w) /\ (Timed(w)' <=> Timed(w))
    <2> SUFFICES ASSUME NEW w \in Waits PROVE Fate(w)' = Fate(w) /\ (Timed(w)' <=> Timed(w))
      OBVIOUS
    <2>1. Fate(w)' = Fate(w)
      BY Zenon DEF Fate
    <2>2. Timed(w)' <=> Timed(w)
      BY DEF Timed
    <2> QED
      BY <2>1, <2>2
  <1>2. Fates' = Fates /\ Timing' = Timing
    BY <1>1 DEF Fates, Timing
  <1> QED
    BY <1>2, ToStutter

LEMMA StepLine == IInv /\ TypeOK /\ TimedInv /\ [Next]_vars => [L!Next]_(L!vars)
  <1> SUFFICES ASSUME IInv, TypeOK, TimedInv, [Next]_vars PROVE [L!Next]_(L!vars)
    OBVIOUS
  <1>1. ASSUME NEW w \in Waits, Wait(w) \/ WaitAsync(w) \/ WaitStep(w) PROVE [L!Next]_(L!vars)
    BY <1>1, LineLoad, LineEnter, LineReturn, LineQuiet, LineGiveUp DEF WaitStep
  <1>2. ASSUME NEW a \in Agents, Notify(a) PROVE [L!Next]_(L!vars)
    BY <1>2, LineNotify
  <1>3. ASSUME NEW a \in Agents, AgentStep(a), ~Notify(a) PROVE [L!Next]_(L!vars)
    <2>1. UNCHANGED <<queue, token, waitVars, woken>>
      BY <1>3 DEF AgentStep, Update, BeginLooped, BeginCompareExchange, Swap, LoadAgain, CompareExchange, Return
    <2>2. UNCHANGED <<queue, token, wpc, timeout, answer, woken>>
      BY <2>1 DEF waitVars, waitArgs
    <2> QED
      BY <2>2, LineStays
  <1>4. CASE UNCHANGED vars
    BY <1>4, LineStays DEF vars, waitVars, waitArgs
  <1> QED
    BY <1>1, <1>2, <1>3, <1>4 DEF Next

(* However a wait is interrupted between looking at the cell and returning,  *)
(* notify serves those who wait in their order, the waits it counted return  *)
(* "ok", and only a timeout lets a wait go by itself.                        *)
THEOREM Refinement == Spec => ImplementsWaitLine
  <1>1. Init => TimedInv
    BY DEF Init, TimedInv
  <1>2. Spec => []TimedInv
    BY <1>1, StepTimed, TypeCorrect, PTL DEF Spec
  <1> QED
    BY <1>2, InitLine, StepLine, Invariance, TypeCorrect, PTL DEF Spec, ImplementsWaitLine, L!Spec
=============================================================================

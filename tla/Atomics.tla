------------------------------ MODULE Atomics ------------------------------
(***************************************************************************)
(* SharedArrayBuffer and Atomics.  The memory of a buffer is a Go []byte   *)
(* that the goroutines of several runtimes (a parent and its workers) work *)
(* on at once: with atomic instructions, with a compare-and-swap loop for  *)
(* and, or and xor, and with wait, waitAsync and notify, which share a     *)
(* queue of waiters for each cell under a mutex, waitMu.                   *)
(*                                                                         *)
(* A cell is an int32, here of Width bits in two's complement: 0 .. 2^Width*)
(* - 1.  A wait is one call of Atomics.wait or Atomics.waitAsync; an agent *)
(* is a goroutine that updates cells and notifies.                         *)
(***************************************************************************)
EXTENDS Integers, Sequences, FiniteSets

CONSTANTS
    Cells,      \* int32 cells of shared buffers
    Width,      \* bits of a cell (32 in the code)
    Waits,      \* calls of wait and waitAsync
    Agents,     \* goroutines that update and notify
    Casts,      \* settings: the waits, agents and kinds of operations that take part
    OpsBound    \* operations the agents perform together (a bound of the model)

Power[i \in 0 .. Width] == IF i = 0 THEN 1 ELSE 2 * Power[i - 1]     \* 2^i
Modulus == Power[Width]
Values  == 0 .. (Modulus - 1)

Simple   == {"store", "add", "sub", "exchange"}   \* one atomic instruction
Looped   == {"and", "or", "xor"}                  \* sabAtomicCAS
Kinds    == Simple \cup Looped \cup {"compareExchange", "notify"}
Timeouts == {"zero", "finite", "forever"}         \* "forever": negative or Infinity

ASSUME AtomicsAssumption ==
    /\ Cells # {} /\ IsFiniteSet(Waits)
    /\ Width \in Nat \ {0}
    /\ OpsBound \in Nat
    /\ Casts \subseteq [waits : SUBSET Waits, agents : SUBSET Agents, kinds : SUBSET Kinds]

VARIABLES
    cast,       \* the setting of this behaviour
    mem,        \* the value of each cell
    queue,      \* the waiters of each cell, in the order they came
    token,      \* waiters whose channel holds a token
    \* waits: where each is, its arguments, and what it returned
    wpc, cell, expect, timeout, async, answer,
    \* waitAsync: calls whose script still runs, promises, the counter of the runtime
    jsTurn, promise, waitAsyncCount,
    woken,      \* how many waiters the notifies said they woke, together
    \* agents: where each is, its operation, its arguments, and the value it
    \* loaded and will return; how many operations were begun
    apc, op, at, val, repl, seen, ops

waitArgs  == <<cell, expect, timeout, async>>
promises  == <<jsTurn, promise, waitAsyncCount>>
waitVars  == <<wpc, waitArgs, answer, promises>>
callArgs  == <<op, at, val, repl, seen>>
agentVars == <<apc, callArgs, ops>>
vars      == <<cast, mem, queue, token, waitVars, woken, agentVars>>

TypeOK ==
    /\ cast \in Casts
    /\ mem \in [Cells -> Values]
    /\ queue \in [Cells -> Seq(Waits)]
    /\ token \subseteq Waits
    /\ wpc \in [Waits -> {"start", "load", "enqueue", "parked", "expired", "recheck", "resolve", "returned"}]
    /\ cell \in [Waits -> Cells] /\ expect \in [Waits -> Values]
    /\ timeout \in [Waits -> Timeouts] /\ async \subseteq Waits
    /\ answer \in [Waits -> {"none", "ok", "not-equal", "timed-out"}]
    /\ jsTurn \subseteq Waits
    /\ promise \in [Waits -> {"none", "pending", "settled"}]
    /\ waitAsyncCount \in 0 .. Cardinality(Waits)
    /\ woken \in 0 .. Cardinality(Waits)
    /\ apc \in [Agents -> {"idle", "load", "swap", "return"}]
    /\ op \in [Agents -> Simple \cup Looped \cup {"none", "compareExchange"}]
    /\ at \in [Agents -> Cells]
    /\ val \in [Agents -> Values] /\ repl \in [Agents -> Values]
    /\ seen \in [Agents -> Values]
    /\ ops \in 0 .. OpsBound

Init ==
    /\ cast \in Casts
    /\ mem = [c \in Cells |-> 0]
    /\ queue = [c \in Cells |-> << >>]
    /\ token = {}
    /\ wpc = [w \in Waits |-> "start"]
    /\ cell = [w \in Waits |-> CHOOSE c \in Cells : TRUE]
    /\ expect = [w \in Waits |-> 0]
    /\ timeout = [w \in Waits |-> "forever"]
    /\ async = {}
    /\ answer = [w \in Waits |-> "none"]
    /\ jsTurn = {}
    /\ promise = [w \in Waits |-> "none"]
    /\ waitAsyncCount = 0
    /\ woken = 0
    /\ apc = [a \in Agents |-> "idle"]
    /\ op = [a \in Agents |-> "none"]
    /\ at = [a \in Agents |-> CHOOSE c \in Cells : TRUE]
    /\ val = [a \in Agents |-> 0]
    /\ repl = [a \in Agents |-> 0]
    /\ seen = [a \in Agents |-> 0]
    /\ ops = 0

-----------------------------------------------------------------------------
(* Waiting *)

Arguments(w, c, v, t) ==
    /\ cell' = [cell EXCEPT ![w] = c]
    /\ expect' = [expect EXCEPT ![w] = v]
    /\ timeout' = [timeout EXCEPT ![w] = t]

WaitGoto(w, l) ==
    /\ wpc' = [wpc EXCEPT ![w] = l]
    /\ UNCHANGED <<answer, waitArgs>>

(* sabAtomicWait returns, and its arguments are gone. *)
Answer(w, r) ==
    /\ answer' = [answer EXCEPT ![w] = r]
    /\ wpc' = [wpc EXCEPT ![w] = IF w \in async THEN "resolve" ELSE "returned"]
    /\ Arguments(w, cell[w], 0, "forever")
    /\ UNCHANGED async

(* sabAtomicWait: the value is looked at before the waiter is in the queue.  *)
LoadValue(w, c, v, t) ==
    IF mem[c] # v THEN Answer(w, "not-equal")
    ELSE IF t = "zero" THEN Answer(w, "timed-out")
    ELSE /\ wpc' = [wpc EXCEPT ![w] = "enqueue"]
         /\ Arguments(w, c, v, t)
         /\ UNCHANGED <<async, answer>>

(* Atomics.wait *)
Wait(w) ==
    /\ wpc[w] = "start" /\ w \in cast.waits
    /\ \E c \in Cells, v \in Values, t \in Timeouts : LoadValue(w, c, v, t)
    /\ UNCHANGED <<cast, mem, queue, token, promises, woken, agentVars>>

(* Atomics.waitAsync looks at the cell first; a match is counted, and a      *)
(* goroutine waits for it while the script goes on.                          *)
WaitAsync(w) ==
    /\ wpc[w] = "start" /\ w \in cast.waits
    /\ \E c \in Cells, v \in Values, t \in Timeouts :
         IF mem[c] # v
           THEN Answer(w, "not-equal") /\ UNCHANGED promises
           ELSE /\ Arguments(w, c, v, t)
                /\ async' = async \cup {w}
                /\ waitAsyncCount' = waitAsyncCount + 1
                /\ jsTurn' = jsTurn \cup {w}
                /\ wpc' = [wpc EXCEPT ![w] = "load"]
                /\ UNCHANGED <<answer, promise>>
    /\ UNCHANGED <<cast, mem, queue, token, woken, agentVars>>

(* The script goes on: it creates the promise, files its resolve function    *)
(* under the async ID, and lets the engine goroutine go.                     *)
Register(w) ==
    /\ w \in jsTurn
    /\ jsTurn' = jsTurn \ {w}
    /\ promise' = [promise EXCEPT ![w] = "pending"]
    /\ UNCHANGED <<cast, mem, queue, token, wpc, waitArgs, answer, waitAsyncCount, woken, agentVars>>

(* The goroutine of waitAsync calls sabAtomicWait, which looks again. *)
Load(w) ==
    /\ wpc[w] = "load"
    /\ LoadValue(w, cell[w], expect[w], timeout[w])
    /\ UNCHANGED <<cast, mem, queue, token, promises, woken, agentVars>>

addWaiter(w) ==
    /\ wpc[w] = "enqueue"
    /\ queue' = [queue EXCEPT ![cell[w]] = Append(@, w)]
    /\ wpc' = [wpc EXCEPT ![w] = "parked"]
    /\ expect' = [expect EXCEPT ![w] = 0]
    /\ UNCHANGED <<cast, mem, token, cell, timeout, async, answer, promises, woken, agentVars>>

Signalled(w) ==
    /\ wpc[w] = "parked"
    /\ w \in token
    /\ token' = token \ {w}
    /\ Answer(w, "ok")
    /\ UNCHANGED <<cast, mem, queue, promises, woken, agentVars>>

(* The select may see the timer although a token is there. *)
TimerFires(w) ==
    /\ wpc[w] = "parked"
    /\ timeout[w] = "finite"
    /\ WaitGoto(w, "expired")
    /\ UNCHANGED <<cast, mem, queue, token, promises, woken, agentVars>>

(* The first entry of w is cut out; a notify may have taken it already. *)
Without(q, w) ==
    IF \E i \in DOMAIN q : q[i] = w
      THEN LET first == CHOOSE i \in DOMAIN q : q[i] = w /\ \A j \in 1 .. (i - 1) : q[j] # w
           IN  SubSeq(q, 1, first - 1) \o SubSeq(q, first + 1, Len(q))
      ELSE q

removeWaiter(w) ==
    /\ wpc[w] = "expired"
    /\ queue' = [queue EXCEPT ![cell[w]] = Without(@, w)]
    /\ WaitGoto(w, "recheck")
    /\ UNCHANGED <<cast, mem, token, promises, woken, agentVars>>

(* Variant: a timer that has fired is never taken back. *)
RecheckIgnored(w) ==
    /\ wpc[w] = "recheck"
    /\ Answer(w, "timed-out")
    /\ token' = token \ {w}
    /\ UNCHANGED <<cast, mem, queue, promises, woken, agentVars>>

Recheck(w) ==
    /\ wpc[w] = "recheck"
    /\ Answer(w, IF w \in token THEN "ok" ELSE "timed-out")
    /\ token' = token \ {w}
    /\ UNCHANGED <<cast, mem, queue, promises, woken, agentVars>>

(* Variant: the goroutine does not send its function to the engine goroutine. *)
ResolveAtOnce(w) ==
    /\ wpc[w] = "resolve"
    /\ promise' = [promise EXCEPT ![w] = IF @ = "pending" THEN "settled" ELSE @]
    /\ waitAsyncCount' = waitAsyncCount - 1
    /\ WaitGoto(w, "returned")
    /\ UNCHANGED <<cast, mem, queue, token, jsTurn, woken, agentVars>>

(* The function dispatched runs when the script is over: it calls            *)
(* __atomicsWaitAsyncResolve, which ignores an ID that is not on file.       *)
Resolve(w) ==
    /\ wpc[w] = "resolve"
    /\ w \notin jsTurn
    /\ promise' = [promise EXCEPT ![w] = IF @ = "pending" THEN "settled" ELSE @]
    /\ waitAsyncCount' = waitAsyncCount - 1
    /\ WaitGoto(w, "returned")
    /\ UNCHANGED <<cast, mem, queue, token, jsTurn, woken, agentVars>>

-----------------------------------------------------------------------------
(* Updating: the operations return seen *)

Bit(x, i) == (x \div Power[i]) % 2

BitOf(f, x, y) ==
    CASE f = "and" -> x * y
      [] f = "or"  -> x + y - x * y
      [] f = "xor" -> (x + y) % 2

(* and, or, xor: the sum of the bits they make, from the lowest *)
PerBit(f, x, y) ==
    LET low[i \in 0 .. Width] ==
          IF i = 0 THEN 0 ELSE low[i - 1] + BitOf(f, Bit(x, i - 1), Bit(y, i - 1)) * Power[i - 1]
    IN  low[Width]

(* Variant: addition and subtraction do not wrap. *)
ApplyUnwrapped(f, old, v) ==
    CASE f \in {"store", "exchange"} -> v
      [] f = "add" -> old + v
      [] f = "sub" -> old - v
      [] f \in Looped -> PerBit(f, old, v)

(* What an operation makes of a cell. *)
Apply(f, old, v) ==
    CASE f \in {"store", "exchange"} -> v
      [] f = "add" -> (old + v) % Modulus
      [] f = "sub" -> (old + Modulus - v) % Modulus
      [] f \in Looped -> PerBit(f, old, v)

(* What it returns: sabAtomicAdd and sabAtomicSub work the old value out of  *)
(* the new one.                                                              *)
Returned(f, old, v) ==
    CASE f = "store" -> v
      [] f = "add" -> (Apply(f, old, v) + Modulus - v) % Modulus
      [] f = "sub" -> (Apply(f, old, v) + v) % Modulus
      [] OTHER -> old

Begin(a, f, c, v) ==
    /\ apc[a] = "idle" /\ a \in cast.agents /\ f \in cast.kinds
    /\ ops < OpsBound
    /\ ops' = ops + 1
    /\ op' = [op EXCEPT ![a] = f] /\ at' = [at EXCEPT ![a] = c] /\ val' = [val EXCEPT ![a] = v]

AgentGoto(a, l) == apc' = [apc EXCEPT ![a] = l]

(* Atomics.store, add, sub, exchange.  v is what int32() makes of the number  *)
(* the script gives: a fraction is cut off, and one out of range becomes what *)
(* the processor makes of it, so v may be any value.  The element assignment  *)
(* of a typed array, which does not go through sync/atomic, counts as a store.*)
Update(a) ==
    \E f \in Simple, c \in Cells, v \in Values :
        /\ Begin(a, f, c, v)
        /\ mem' = [mem EXCEPT ![c] = Apply(f, @, v)]
        /\ seen' = [seen EXCEPT ![a] = Returned(f, mem[c], v)]
        /\ AgentGoto(a, "return")
        /\ UNCHANGED <<cast, queue, token, waitVars, woken, repl>>

(* Atomics.and, or, xor; Atomics.compareExchange: the cell is loaded first. *)
BeginLooped(a) ==
    \E f \in Looped, c \in Cells, v \in Values :
        /\ Begin(a, f, c, v)
        /\ seen' = [seen EXCEPT ![a] = mem[c]]
        /\ AgentGoto(a, "swap")
        /\ UNCHANGED <<cast, mem, queue, token, waitVars, woken, repl>>

BeginCompareExchange(a) ==
    \E c \in Cells, expected, replacement \in Values :
        /\ Begin(a, "compareExchange", c, expected)
        /\ repl' = [repl EXCEPT ![a] = replacement]
        /\ seen' = [seen EXCEPT ![a] = mem[c]]
        /\ AgentGoto(a, "swap")
        /\ UNCHANGED <<cast, mem, queue, token, waitVars, woken>>

(* Variant: the result is stored without comparing. *)
SwapUnchecked(a) ==
    /\ apc[a] = "swap" /\ op[a] \in Looped
    /\ mem' = [mem EXCEPT ![at[a]] = Apply(op[a], seen[a], val[a])]
    /\ AgentGoto(a, "return")
    /\ UNCHANGED <<cast, queue, token, waitVars, woken, callArgs, ops>>

(* The loop of sabAtomicCAS: the swap is tried until nobody came in between. *)
Swap(a) ==
    /\ apc[a] = "swap" /\ op[a] \in Looped
    /\ IF mem[at[a]] = seen[a]
         THEN /\ mem' = [mem EXCEPT ![at[a]] = Apply(op[a], seen[a], val[a])]
              /\ AgentGoto(a, "return")
         ELSE AgentGoto(a, "load") /\ UNCHANGED mem
    /\ UNCHANGED <<cast, queue, token, waitVars, woken, callArgs, ops>>

LoadAgain(a) ==
    /\ apc[a] = "load"
    /\ seen' = [seen EXCEPT ![a] = mem[at[a]]]
    /\ AgentGoto(a, "swap")
    /\ UNCHANGED <<cast, mem, queue, token, waitVars, woken, op, at, val, repl, ops>>

(* sabAtomicCompareExchange: one swap, and the value loaded before it.       *)
CompareExchange(a) ==
    /\ apc[a] = "swap" /\ op[a] = "compareExchange"
    /\ mem' = [mem EXCEPT ![at[a]] = IF @ = val[a] THEN repl[a] ELSE @]
    /\ AgentGoto(a, "return")
    /\ UNCHANGED <<cast, queue, token, waitVars, woken, callArgs, ops>>

(* The operation returns seen; its arguments are gone. *)
Return(a) ==
    /\ apc[a] = "return"
    /\ AgentGoto(a, "idle")
    /\ op' = [op EXCEPT ![a] = "none"]
    /\ val' = [val EXCEPT ![a] = 0] /\ repl' = [repl EXCEPT ![a] = 0] /\ seen' = [seen EXCEPT ![a] = 0]
    /\ UNCHANGED <<cast, mem, queue, token, waitVars, woken, at, ops>>

(* Variant: the waiters stay in the queue. *)
WakeUnqueued(c, n) ==
    /\ token' = token \cup {queue[c][i] : i \in 1 .. n}
    /\ UNCHANGED queue

(* Variant: the waiters that came last are woken. *)
WakeLast(c, n) ==
    /\ token' = token \cup {queue[c][i] : i \in (Len(queue[c]) - n + 1) .. Len(queue[c])}
    /\ queue' = [queue EXCEPT ![c] = SubSeq(@, 1, Len(@) - n)]

(* The first n waiters of the queue are given a token and leave it. *)
WakeFirst(c, n) ==
    /\ token' = token \cup {queue[c][i] : i \in 1 .. n}
    /\ queue' = [queue EXCEPT ![c] = SubSeq(@, n + 1, Len(@))]

(* Atomics.notify, under waitMu: n is what the count comes to, with as many   *)
(* waiters as there are.  A count left out is Infinity, and int() of that is  *)
(* up to the processor: the largest integer, or the smallest, which wakes     *)
(* nobody.                                                                    *)
Notify(a) ==
    /\ apc[a] = "idle" /\ a \in cast.agents /\ "notify" \in cast.kinds
    /\ ops < OpsBound
    /\ ops' = ops + 1
    /\ \E c \in Cells : \E n \in 0..Len(queue[c]) :
         /\ WakeFirst(c, n)
         /\ woken' = woken + n
    /\ UNCHANGED <<cast, mem, waitVars, apc, callArgs>>

-----------------------------------------------------------------------------
WaitStep(w) ==
    \/ Register(w) \/ Load(w) \/ addWaiter(w) \/ Signalled(w)
    \/ TimerFires(w) \/ removeWaiter(w) \/ Recheck(w) \/ Resolve(w)

AgentStep(a) ==
    \/ Update(a) \/ BeginLooped(a) \/ BeginCompareExchange(a)
    \/ Swap(a) \/ LoadAgain(a) \/ CompareExchange(a) \/ Return(a) \/ Notify(a)

Next ==
    \/ \E w \in Waits : Wait(w) \/ WaitAsync(w) \/ WaitStep(w)
    \/ \E a \in Agents : AgentStep(a)

Spec == Init /\ [][Next]_vars

(* A wait that can go on does, and its timer fires. *)
Fairness == \A w \in Waits : WF_vars(WaitStep(w)) /\ WF_vars(Register(w))

FairSpec == Spec /\ Fairness
=============================================================================

---------------------------- MODULE AtomicsProps ----------------------------
(* What scripts may rely on when they share memory: properties of Atomics. *)
EXTENDS Atomics

Queued(w)   == \E i \in DOMAIN queue[cell[w]] : queue[cell[w]][i] = w
Answered(w) == answer[w] # "none"

(***************************************************************************)
(* notify and a timeout may meet, and each waiter still ends one way: it   *)
(* is in the queue, or a notify took it out and its token waits, or it has *)
(* gone; never two of these, and never in the queue twice.                 *)
(***************************************************************************)
OneWayOut ==
    \A w \in Waits :
        /\ w \in token => ~Queued(w) /\ wpc[w] \in {"parked", "expired", "recheck"}
        /\ wpc[w] \in {"parked", "expired"} => Queued(w) \/ w \in token
        /\ Queued(w) => wpc[w] \in {"parked", "expired"}
        /\ \A c \in Cells : Cardinality({i \in DOMAIN queue[c] : queue[c][i] = w}) <= 1

(***************************************************************************)
(* What notify returns is true: as many waits as the notifies counted      *)
(* return "ok", although a timer may have fired in the meantime.           *)
(***************************************************************************)
WokenAreOk == woken = Cardinality(token \cup {w \in Waits : answer[w] = "ok"})

(***************************************************************************)
(* Atomics implements WaitLine: although a wait looks, joins the queue,    *)
(* sleeps, wakes by its timer and leaves the queue in steps of its own,    *)
(* notify takes waiters in the order in which they came, those it counted  *)
(* return "ok" and nobody else does, and only a timeout lets one go by     *)
(* itself.                                                                 *)
(***************************************************************************)
Fate(w) ==
    CASE answer[w] # "none" -> answer[w]
      [] answer[w] = "none" /\ w \in token -> "woken"
      [] answer[w] = "none" /\ w \notin token /\ wpc[w] \in {"parked", "expired"} -> "in"
      [] answer[w] = "none" /\ w \notin token /\ wpc[w] = "recheck" -> "left"
      [] OTHER -> "out"

Timed(w) == wpc[w] \in {"parked", "expired", "recheck"} /\ timeout[w] = "finite"

L == INSTANCE WaitLine WITH
        line       <- queue,
        fate       <- [w \in Waits |-> Fate(w)],
        hasTimeout <- {w \in Waits : Timed(w)},
        counted    <- woken

ImplementsWaitLine == L!Spec

(***************************************************************************)
(* A promise of waitAsync is not lost: the goroutine cannot look for its   *)
(* resolve function before the script has filed it; and until it is        *)
(* settled waitAsyncCount keeps the event loop alive.                      *)
(***************************************************************************)
PromiseKept ==
    \A w \in async :
        /\ wpc[w] = "returned" => promise[w] = "settled"
        /\ promise[w] # "settled" => waitAsyncCount > 0

(***************************************************************************)
(* Updates are atomic: whatever an update returns is the value it replaced *)
(* (the stored value, for a store), and what it wrote was worked out from  *)
(* that value, although and, or and xor load and swap in two steps, and    *)
(* add and sub work the old value out of a sum that may have wrapped.      *)
(***************************************************************************)
Completes(a) == apc[a] # "return" /\ apc'[a] = "return"
Updates      == Simple \cup Looped
UpdatesAtomic ==
    [][\A a \in Agents : Completes(a) /\ op'[a] \in Updates =>
          LET c == at'[a]
          IN  /\ mem'[c] = Apply(op'[a], mem[c], val'[a])
              /\ seen'[a] = IF op'[a] = "store" THEN val'[a] ELSE mem[c]]_vars

(***************************************************************************)
(* A wait ends: with a token it returns "ok"; with a timeout it returns in *)
(* any case; and a promise of waitAsync is then settled.                   *)
(***************************************************************************)
WaitEnds ==
    \A w \in Waits :
        /\ w \in token ~> answer[w] = "ok"
        /\ (wpc[w] = "parked" /\ timeout[w] = "finite") ~> wpc[w] = "returned"

(***************************************************************************)
(* "Atomic operations on int32 values in shared buffers" (sharedbuf.go):   *)
(* a script that compareExchange returns the value it expected to has      *)
(* found it in the cell, and so has written its replacement.               *)
(***************************************************************************)
CompareExchangeAtomic ==
    [][\A a \in Agents :
          Completes(a) /\ op'[a] = "compareExchange" /\ seen'[a] = val[a] => mem[at[a]] = val[a]]_vars

(***************************************************************************)
(* sabAtomicWait "blocks until the int32 at byteOffset changes from value" *)
(* (sharedbuf.go): a waiter that joins the queue finds that value.         *)
(***************************************************************************)
SleepsOnValue ==
    [][\A w \in Waits : wpc[w] = "enqueue" /\ wpc'[w] = "parked" => mem[cell[w]] = expect[w]]_vars
=============================================================================

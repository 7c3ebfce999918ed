----------------------------- MODULE Dispatcher -----------------------------
(***************************************************************************)
(* What a Runtime promises the goroutines that call it, whatever backend   *)
(* it is built for: their functions are executed one at a time, each at    *)
(* most once, and a caller is told truly what became of its function.  A   *)
(* function is refused only when the runtime has been closed, and then it  *)
(* is never executed; when Close has returned, nothing is executed at all. *)
(* Whoever gives up waiting (its context has ended) knows nothing.         *)
(***************************************************************************)
CONSTANTS Calls, Nobody

VARIABLES
    open,       \* nobody has closed the runtime
    busy,       \* the call whose function is being executed, or Nobody
    done,       \* calls whose function has been executed
    answer,     \* what each call has been told
    down,       \* nothing will be executed any more
    joined      \* a Close has returned

vars == <<open, busy, done, answer, down, joined>>

Init ==
    /\ open = TRUE /\ down = FALSE /\ joined = FALSE
    /\ busy = Nobody /\ done = {}
    /\ answer = [c \in Calls |-> "none"]

Begin(c) ==
    /\ ~down /\ busy = Nobody
    /\ c \notin done /\ answer[c] # "refused"
    /\ busy' = c
    /\ UNCHANGED <<open, done, answer, down, joined>>

Finish ==
    /\ busy # Nobody
    /\ done' = done \cup {busy}
    /\ busy' = Nobody
    /\ UNCHANGED <<open, answer, down, joined>>

Answer(c, a) ==
    /\ answer[c] = "none"
    /\ a = "value" => c \in done
    /\ a = "refused" => ~open /\ c \notin done /\ c # busy
    /\ answer' = [answer EXCEPT ![c] = a]
    /\ UNCHANGED <<open, busy, done, down, joined>>

Close ==
    /\ open /\ open' = FALSE
    /\ UNCHANGED <<busy, done, answer, down, joined>>

GoDown ==
    /\ ~open /\ busy = Nobody /\ ~down
    /\ down' = TRUE
    /\ UNCHANGED <<open, busy, done, answer, joined>>

Join ==
    /\ down /\ ~joined
    /\ joined' = TRUE
    /\ UNCHANGED <<open, busy, done, answer, down>>

Next ==
    \/ \E c \in Calls : Begin(c)
    \/ Finish
    \/ \E c \in Calls, a \in {"value", "refused", "gone"} : Answer(c, a)
    \/ Close \/ GoDown \/ Join

Spec == Init /\ [][Next]_vars
=============================================================================

------------------------------ MODULE WaitLine ------------------------------
(***************************************************************************)
(* What Atomics.wait and Atomics.notify promise each other: those who wait *)
(* for a cell stand in line; a notify takes the first ones of the line,    *)
(* and as many as it says; whoever it took returns "ok", and nobody else   *)
(* does.  A wait may leave the line by itself only if it has a timeout,    *)
(* and then a notify does not count it any more.                           *)
(***************************************************************************)
EXTENDS Naturals, Sequences

CONSTANTS Cells, Waits

VARIABLES
    line,       \* those who stand in line for each cell
    fate,       \* what has become of each wait
    hasTimeout, \* waits that stood in line with a timeout and have not returned
    counted     \* what the notifies have returned, together

vars == <<line, fate, hasTimeout, counted>>

Init ==
    /\ line = [c \in Cells |-> <<>>]
    /\ fate = [w \in Waits |-> "out"]
    /\ hasTimeout = {} /\ counted = 0

Becomes(w, from, to) == fate[w] = from /\ fate' = [fate EXCEPT ![w] = to]

(* It never stood in line: the value had changed, or there was no time. *)
Refuse(w) ==
    /\ \E r \in {"not-equal", "timed-out"} : Becomes(w, "out", r)
    /\ UNCHANGED <<line, hasTimeout, counted>>

Enter(w, c) ==
    /\ Becomes(w, "out", "in")
    /\ line' = [line EXCEPT ![c] = Append(@, w)]
    /\ hasTimeout' \in {hasTimeout, hasTimeout \cup {w}}
    /\ UNCHANGED counted

Notify(c, n) ==
    /\ fate' = [w \in Waits |-> IF \E i \in 1..n : line[c][i] = w THEN "woken" ELSE fate[w]]
    /\ line' = [line EXCEPT ![c] = SubSeq(@, n + 1, Len(@))]
    /\ counted' = counted + n
    /\ UNCHANGED hasTimeout

(* The i-th leaves the line. *)
GiveUp(w, c, i) ==
    /\ line[c][i] = w /\ w \in hasTimeout
    /\ Becomes(w, "in", "left")
    /\ line' = [line EXCEPT ![c] = SubSeq(@, 1, i - 1) \o SubSeq(@, i + 1, Len(@))]
    /\ UNCHANGED <<hasTimeout, counted>>

Return(w) ==
    /\ Becomes(w, "woken", "ok") \/ Becomes(w, "left", "timed-out")
    /\ hasTimeout' = hasTimeout \ {w}
    /\ UNCHANGED <<line, counted>>

Next ==
    \/ \E w \in Waits : Refuse(w) \/ Return(w)
    \/ \E w \in Waits, c \in Cells : Enter(w, c)
    \/ \E c \in Cells : \E n \in 0..Len(line[c]) : Notify(c, n)
    \/ \E w \in Waits, c \in Cells : \E i \in 1..Len(line[c]) : GiveUp(w, c, i)

Spec == Init /\ [][Next]_vars
=============================================================================

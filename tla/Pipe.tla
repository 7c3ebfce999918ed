-------------------------------- MODULE Pipe --------------------------------
(***************************************************************************)
(* What a stream between Go and JavaScript promises, in either direction:  *)
(* the receiving side gets the chunks in the order they were sent, each    *)
(* once; and if it is told that the stream has ended, it has got them all. *)
(* A stream that is cancelled, or whose receiver goes away, just stops.    *)
(***************************************************************************)
EXTENDS Naturals, Sequences

CONSTANT Streams

VARIABLES
    sent,       \* how many chunks have been put in; they are numbered from 1
    got,        \* the chunks that have come out
    ended       \* streams whose receiver has been told of the end

vars == <<sent, got, ended>>

FirstOnes(n) == [i \in 1..n |-> i]

Init ==
    /\ sent = [s \in Streams |-> 0]
    /\ got = [s \in Streams |-> <<>>]
    /\ ended = {}

Send(s) ==
    /\ s \notin ended
    /\ sent' = [sent EXCEPT ![s] = @ + 1]
    /\ UNCHANGED <<got, ended>>

(* Chunks come out of the streams in S, and the streams in E end. *)
Receive(S, E) ==
    /\ (S \cup E) \cap ended = {}
    /\ DOMAIN got' = Streams
    /\ \A s \in S : \E n \in Len(got[s])..sent[s] : got'[s] = FirstOnes(n)
    /\ \A s \in Streams \ S : got'[s] = got[s]
    /\ \A s \in E : Len(got'[s]) = sent[s]
    /\ ended' = ended \cup E
    /\ UNCHANGED sent

Next == \/ \E s \in Streams : Send(s)
        \/ \E S, E \in SUBSET Streams : Receive(S, E)

Spec == Init /\ [][Next]_vars
=============================================================================

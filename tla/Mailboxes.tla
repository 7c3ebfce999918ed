----------------------------- MODULE Mailboxes -----------------------------
(***************************************************************************)
(* What a mailbox between two threads promises, whichever of them is at    *)
(* its ends: what its reader gets was written, came in the order it was    *)
(* written, and came once; and as long as the mailbox is sound nothing is  *)
(* skipped: what was not read yet is all there.  A mailbox that is not     *)
(* sound any more may lose what has waited longest.  The dead neither      *)
(* write nor read.                                                         *)
(***************************************************************************)
EXTENDS Naturals, Sequences

CONSTANT Boxes

VARIABLES
    writers,    \* boxes whose writer is alive ...
    readers,    \* ... and whose reader is
    sound,      \* boxes that lose nothing
    wrote,      \* how many messages were put into each box; they are numbered from 1
    box,        \* what waits in each box
    read        \* what its reader has got

vars == <<writers, readers, sound, wrote, box, read>>

Init ==
    /\ writers = Boxes /\ readers = Boxes /\ sound = Boxes
    /\ wrote = [b \in Boxes |-> 0]
    /\ box = [b \in Boxes |-> <<>>] /\ read = [b \in Boxes |-> <<>>]

Rest(q, k) == SubSeq(q, k + 1, Len(q))

Write(b) ==
    /\ b \in writers
    /\ wrote' = [wrote EXCEPT ![b] = @ + 1]
    /\ box' = [box EXCEPT ![b] = Append(@, wrote'[b])]
    /\ UNCHANGED read

(* n messages of box b leave it, and whatever the unsound boxes lose.        *)
Leave(b, n) ==
    /\ DOMAIN box' = Boxes
    /\ \A c \in Boxes :
         \E k \in (IF c = b THEN n ELSE 0)..Len(box[c]) :
            /\ box'[c] = Rest(box[c], k)
            /\ c \in sound' => k = IF c = b THEN n ELSE 0
    /\ UNCHANGED wrote

Read(b, n) ==
    /\ b \in readers
    /\ read' = [read EXCEPT ![b] = @ \o SubSeq(box[b], 1, n)]
    /\ Leave(b, n)

Lose(b) == Leave(b, 0) /\ UNCHANGED read

(* Threads may die, and boxes get unsound, at any moment.                    *)
Next ==
    /\ writers' \subseteq writers /\ readers' \subseteq readers /\ sound' \subseteq sound
    /\ \E b \in Boxes :
         \/ Write(b) \/ Lose(b)
         \/ \E n \in 1..Len(box[b]) : Read(b, n)

Spec == Init /\ [][Next]_vars
=============================================================================

----------------------------- MODULE LetterQueue -----------------------------
(***************************************************************************)
(* What the producer/consumer programs of lab_03 promise: a bounded first- *)
(* in first-out queue of letters.  Every letter put is the successor of    *)
(* the one put before it, and the letters come out in that order, none     *)
(* lost, none twice.                                                       *)
(***************************************************************************)
EXTENDS Naturals, Sequences

CONSTANTS Capacity, LETTERS

VARIABLES queue,  \* the letters put and not yet consumed, oldest first
          out     \* the last letter consumed

Succ(l) == IF l = LETTERS - 1 THEN 0 ELSE l + 1

\* The last letter put: the newest in the queue, or, if it is empty, the
\* last one consumed.
Newest == IF queue = <<>> THEN out ELSE queue[Len(queue)]

Init == queue = <<>> /\ out = LETTERS - 1

Put == /\ Len(queue) < Capacity
       /\ queue' = Append(queue, Succ(Newest))
       /\ UNCHANGED out

Get == /\ queue # <<>>
       /\ out' = Head(queue)
       /\ queue' = Tail(queue)

Next == Put \/ Get

Spec == Init /\ [][Next]_<<queue, out>>
=============================================================================

--------------------------- MODULE LetterRegister ---------------------------
(***************************************************************************)
(* What the reader/writer program of lab_03 promises: a shared letter that *)
(* a write replaces by its successor in the alphabet, round and round, and *)
(* that a read sees whole, before a write or after it.                     *)
(***************************************************************************)
EXTENDS Integers

CONSTANT LETTERS

VARIABLES value,  \* the letter
          seen    \* the last letter printed

Succ(l) == IF l = LETTERS - 1 THEN 0 ELSE l + 1

Init == value = 0 /\ seen = 0

Write == value' = Succ(value) /\ UNCHANGED seen

Read == seen' = value /\ UNCHANGED value

Next == Write \/ Read

Spec == Init /\ [][Next]_<<value, seen>>
=============================================================================

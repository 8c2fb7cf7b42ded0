---------------------------- MODULE LetterBuffer ----------------------------
(***************************************************************************)
(* What lab_03/prod_cons.c and lab_03/prod_cons_mac.c share, besides the   *)
(* skeleton of ForkWait: a circular buffer of letters in shared memory     *)
(* with its two pointers and the next letter, three semaphores, and the    *)
(* critical sections of the producer and the consumer.  The two programs   *)
(* differ in the semaphore calls around the critical sections.             *)
(*                                                                         *)
(* Each statement of a critical section is a step of its own, so that the  *)
(* SIGALRM of a child can kill it between any two of them.  producep and   *)
(* consumep are offsets from storage; the letters 'a' .. 'z' are           *)
(* 0 .. LETTERS-1, and LETTERS is 'z' + 1.                                 *)
(***************************************************************************)
EXTENDS ForkWait, Integers, Sequences

CONSTANTS ELEMENTS, LETTERS

ASSUME BufferAssumption == ELEMENTS \in Nat \ {0} /\ LETTERS \in Nat \ {0}

VARIABLES sem, storage, producep, consumep, letter,
          out  \* the last letter a consumer printed

buffer == <<storage, producep, consumep, letter, out>>

SEMAPHORE_EMPTY == 0
SEMAPHORE_FULL == 1
SEMAPHORE_BINARY == 2

Nul == -1  \* the contents of fresh shared memory

\* The child forked at index i is a producer iff i is even.
Producers == {c \in Child : c % 2 = 0}
Consumers == Child \ Producers

\* The statements of the two critical sections, the last of them the call
\* that raises SEMAPHORE_BINARY again.
ProducerPcs == {"store", "next", "wrapletter", "wrapp", "end_produce"}
ConsumerPcs == {"get", "advance", "wrapc", "end_consume"}

\* A child in its critical section, alive or killed there.
InCritical(c) == pc[c] \in ProducerPcs \cup ConsumerPcs

BufferInit ==
  /\ FamilyInit
  /\ sem = [n \in 0 .. 2 |-> 0]
  /\ storage = [k \in 0 .. ELEMENTS - 1 |-> Nul]
  /\ producep = 0
  /\ consumep = 0
  /\ letter = 0
  /\ out = LETTERS - 1

\* The values main() gives the semaphores.
SetValues_OneTooMany ==
  [n \in 0 .. 2 |-> CASE n = SEMAPHORE_EMPTY -> ELEMENTS + 1
                      [] n = SEMAPHORE_FULL -> 0
                      [] n = SEMAPHORE_BINARY -> 1]
SetValues == [n \in 0 .. 2 |-> CASE n = SEMAPHORE_EMPTY -> ELEMENTS
                                 [] n = SEMAPHORE_FULL -> 0
                                 [] n = SEMAPHORE_BINARY -> 1]

Setup == SetupSucceeds /\ sem' = SetValues /\ UNCHANGED buffer

\* A statement of a critical section.
Statement(c, from, to) == Move(c, {from}, to) /\ UNCHANGED sem
-----------------------------------------------------------------------------
(* producer(), between its semaphore calls. *)

\* *((*producep)++) = *letter;
Store(c) ==
  /\ Statement(c, "store", "next")
  /\ storage' = [storage EXCEPT ![producep] = letter]
  /\ producep' = producep + 1
  /\ UNCHANGED <<consumep, letter, out>>

\* (*letter)++;
NextLetter(c) ==
  /\ Statement(c, "next", "wrapletter")
  /\ letter' = letter + 1
  /\ UNCHANGED <<storage, producep, consumep, out>>

\* if (*letter == 'z' + 1) *letter = 'a';
WrapLetter_ToB(c) ==
  /\ Statement(c, "wrapletter", "wrapp")
  /\ letter' = IF letter = LETTERS THEN 1 ELSE letter
  /\ UNCHANGED <<storage, producep, consumep, out>>
WrapLetter(c) ==
  /\ Statement(c, "wrapletter", "wrapp")
  /\ letter' = IF letter = LETTERS THEN 0 ELSE letter
  /\ UNCHANGED <<storage, producep, consumep, out>>

\* if (*producep - storage == ELEMENTS) *producep = storage;
WrapProducep_Late(c) ==
  /\ Statement(c, "wrapp", "end_produce")
  /\ producep' = IF producep > ELEMENTS THEN 0 ELSE producep
  /\ UNCHANGED <<storage, consumep, letter, out>>
WrapProducep(c) ==
  /\ Statement(c, "wrapp", "end_produce")
  /\ producep' = IF producep = ELEMENTS THEN 0 ELSE producep
  /\ UNCHANGED <<storage, consumep, letter, out>>

Produce(c) == Store(c) \/ NextLetter(c) \/ WrapLetter(c) \/ WrapProducep(c)
-----------------------------------------------------------------------------
(* consumer(), between its semaphore calls. *)

\* printf("%d get %c\n", getpid(), **consumep);
Get(c) ==
  /\ Statement(c, "get", "advance")
  /\ out' = storage[consumep]
  /\ UNCHANGED <<storage, producep, consumep, letter>>

\* (*consumep)++;
Advance(c) ==
  /\ Statement(c, "advance", "wrapc")
  /\ consumep' = consumep + 1
  /\ UNCHANGED <<storage, producep, letter, out>>

\* if (*consumep - storage == ELEMENTS) *consumep = storage;
WrapConsumep_Late(c) ==
  /\ Statement(c, "wrapc", "end_consume")
  /\ consumep' = IF consumep > ELEMENTS THEN 0 ELSE consumep
  /\ UNCHANGED <<storage, producep, letter, out>>
WrapConsumep(c) ==
  /\ Statement(c, "wrapc", "end_consume")
  /\ consumep' = IF consumep = ELEMENTS THEN 0 ELSE consumep
  /\ UNCHANGED <<storage, producep, letter, out>>

Consume(c) == Get(c) \/ Advance(c) \/ WrapConsumep(c)
-----------------------------------------------------------------------------
(* Properties both programs have. *)

BufferTypeOK ==
  /\ FamilyTypeOK
  /\ sem \in [0 .. 2 -> Nat]
  /\ storage \in [0 .. ELEMENTS - 1 -> {Nul} \cup 0 .. LETTERS - 1]
  /\ producep \in 0 .. ELEMENTS
  /\ consumep \in 0 .. ELEMENTS
  /\ letter \in 0 .. LETTERS
  /\ out \in {Nul} \cup 0 .. LETTERS - 1

\* At most one child is in its critical section, and one killed there still
\* counts: it keeps the others out (prod_cons.c 44-97, prod_cons_mac.c
\* 40-116).
MutualExclusion ==
  \A c, d \in Child : InCritical(c) /\ InCritical(d) => c = d

\* A child that is about to dereference *producep or *consumep finds it
\* inside storage, although the wrap-around is a later statement
\* (prod_cons.c 56, 83; prod_cons_mac.c 59, 98).
PointersInBounds ==
  \A c \in Child : /\ pc[c] = "store" => producep < ELEMENTS
                   /\ pc[c] = "get" => consumep < ELEMENTS

(***************************************************************************)
(* Parts of an inductive invariant: SEMAPHORE_BINARY is 0 exactly while    *)
(* some child is, or died, in its critical section, and the pointers and   *)
(* the letter are one past their range only between the statement that     *)
(* advances them and the one that wraps them.                              *)
(***************************************************************************)
BinaryInv ==
  Ready => /\ sem[SEMAPHORE_BINARY] \in {0, 1}
           /\ sem[SEMAPHORE_BINARY] = 0 <=> \E c \in Child : InCritical(c)

PointerInv ==
  /\ producep = ELEMENTS =>
       \E c \in Child : pc[c] \in {"next", "wrapletter", "wrapp"}
  /\ letter = LETTERS => \E c \in Child : pc[c] = "wrapletter"
  /\ consumep = ELEMENTS => \E c \in Child : pc[c] = "wrapc"

BufferInv ==
  BufferTypeOK /\ FamilyInv /\ MutualExclusion /\ BinaryInv /\ PointerInv
-----------------------------------------------------------------------------
(***************************************************************************)
(* The letters in the buffer, as the abstract queue sees them: QueueHead   *)
(* is the offset of the oldest letter not yet printed, and the letters     *)
(* follow it round the buffer.                                             *)
(***************************************************************************)
QueueHead == consumep + (IF \E c \in Child : pc[c] = "advance" THEN 1 ELSE 0)

\* The slot at offset x, for x in 0 .. 2 * ELEMENTS.
Slot(x) == IF x < ELEMENTS THEN x
           ELSE IF x < 2 * ELEMENTS THEN x - ELEMENTS ELSE x - 2 * ELEMENTS

\* The n letters from offset h of the buffer s.
LettersFrom(s, h, n) == [k \in 1 .. n |-> s[Slot(h + k - 1)]]

QueueOf(length) == LettersFrom(storage, QueueHead, length)

\* The letter put last, if n are in the queue, and the one to come: letter
\* itself, but for the two statements after the store.
SuccLetter(l) == IF l = LETTERS - 1 THEN 0 ELSE l + 1
NewestOf(n) == IF n = 0 THEN out ELSE storage[Slot(QueueHead + n - 1)]
Upcoming == IF \E c \in Child : pc[c] = "next" THEN SuccLetter(letter)
            ELSE IF letter = LETTERS THEN 0 ELSE letter

(***************************************************************************)
(* The part of an inductive invariant that the order of the letters rests  *)
(* on, if n letters are in the queue: it ends where producep stands, and   *)
(* the letter to come is the one after the letter put last.                *)
(***************************************************************************)
OrderInv(n) ==
  /\ Slot(QueueHead + n) = Slot(producep)
  /\ SuccLetter(NewestOf(n)) = Upcoming
=============================================================================

------------------------------ MODULE ProdCons ------------------------------
(***************************************************************************)
(* lab_03/prod_cons.c: producers and consumers over the circular buffer,   *)
(* kept apart by a set of three System V semaphores.  One semop() call     *)
(* takes a slot and the buffer together, another gives both back.          *)
(***************************************************************************)
EXTENDS LetterBuffer, SysVSem

ASSUME ProdConsAssumption == IpcObjects = {"sem", "shm"}

vars == <<family, sem, buffer>>

start_consume_NoBinary == <<sembuf(SEMAPHORE_FULL, P), sembuf(SEMAPHORE_EMPTY, 1)>>
start_consume == <<sembuf(SEMAPHORE_FULL, P), sembuf(SEMAPHORE_BINARY, P)>>
end_consume_KeepsSlot == <<sembuf(SEMAPHORE_BINARY, V), sembuf(SEMAPHORE_EMPTY, 0)>>
end_consume == <<sembuf(SEMAPHORE_BINARY, V), sembuf(SEMAPHORE_EMPTY, V)>>
start_produce == <<sembuf(SEMAPHORE_EMPTY, P), sembuf(SEMAPHORE_BINARY, P)>>
end_produce == <<sembuf(SEMAPHORE_BINARY, V), sembuf(SEMAPHORE_FULL, V)>>

Init == BufferInit
-----------------------------------------------------------------------------
(* main() *)

RemoveSem == Remove("sem")
RemoveShm == "sem" \notin ipc /\ Remove("shm")

Main ==
  \/ Setup
  \/ /\ \/ \E created \in {{}, {"sem"}, IpcObjects} : SetupFails(created)
        \/ Fork \/ ForkFails
        \/ \E c \in Child : Reap(c)
        \/ WaitInterrupted \/ NoMoreChildren \/ SigintParent
        \/ RemoveSem \/ RemoveShm
     /\ UNCHANGED <<sem, buffer>>
-----------------------------------------------------------------------------
(* producer() and consumer() *)

\* semop(semid, ops, 2) at the top of the loop goes through, at once or
\* after a sleep, and the child is in its critical section.
Enter(c, ops, first) ==
  /\ Move(c, {"semop", "sleep"}, first)
  /\ CanSemop2(sem, ops)
  /\ sem' = Semop2(sem, ops)
  /\ UNCHANGED buffer

\* It does not: the child goes to sleep in the kernel.
Sleep(c, ops) ==
  /\ Move(c, {"semop"}, "sleep")
  /\ ~CanSemop2(sem, ops)
  /\ UNCHANGED <<sem, buffer>>

\* The closing semop(), which only raises values and never waits.
Leave(c, last, ops) ==
  /\ Move(c, {last}, "while")
  /\ sem' = Semop2(sem, ops)
  /\ UNCHANGED buffer

Producer(c) ==
  \/ Enter(c, start_produce, "store") \/ Sleep(c, start_produce)
  \/ Produce(c)
  \/ Leave(c, "end_produce", end_produce)

Consumer(c) ==
  \/ Enter(c, start_consume, "get") \/ Sleep(c, start_consume)
  \/ Consume(c)
  \/ Leave(c, "end_consume", end_consume)

\* The part of a child's loop, and the signals, that touch no shared memory.
Loop(c) ==
  /\ \/ Alarm(c) \/ LoopAgain(c) \/ LoopEnds(c)
     \/ Sigint(c, {"sleep"}) \/ SigintAsleep(c, {"sleep"})
     \/ Sigalrm(c)
  /\ UNCHANGED <<sem, buffer>>
-----------------------------------------------------------------------------
Terminated == Over /\ UNCHANGED vars

Next ==
  \/ Main
  \/ \E c \in Child : Loop(c)
  \/ \E c \in Producers : Producer(c)
  \/ \E c \in Consumers : Consumer(c)
  \/ Terminated

Spec == Init /\ [][Next]_vars

(***************************************************************************)
(* The parent and the children before alarm(1) are scheduled; an armed     *)
(* alarm goes off.  Nothing else is fair: a child may never get a          *)
(* semaphore, SIGINT may never come.                                       *)
(***************************************************************************)
ParentGoesOn ==
  \/ Setup
  \/ /\ Fork \/ (\E c \in Child : Reap(c)) \/ NoMoreChildren \/ RemoveSem \/ RemoveShm
     /\ UNCHANGED <<sem, buffer>>

Fairness ==
  /\ WF_vars(ParentGoesOn)
  /\ \A c \in Child : WF_vars((Alarm(c) \/ Sigalrm(c)) /\ UNCHANGED <<sem, buffer>>)

FairSpec == Spec /\ Fairness
-----------------------------------------------------------------------------
(* Properties *)

TypeOK == BufferTypeOK /\ pc \in [Child -> LoopPcs \cup ProducerPcs \cup ConsumerPcs]

\* Every slot is accounted for: free, filled, or in the hands of the one
\* child in its critical section (prod_cons.c 29-37, 117-128).
SlotAccounting ==
  Ready => sem[SEMAPHORE_EMPTY] + sem[SEMAPHORE_FULL]
             + (IF \E c \in Child : InCritical(c) THEN 1 ELSE 0) = ELEMENTS

\* Once a child has been killed between its two semop() calls nobody touches
\* the semaphores or the shared memory again, so the half-done update it
\* left is never seen (prod_cons.c 46-66, 71-95; no SEM_UNDO).
KilledHolderFreezesBuffer ==
  [][(\E c \in Child : InCritical(c) /\ ~Alive(c)) => UNCHANGED <<sem, buffer>>]_vars

\* A living child that only another child's semop() can wake.
Stuck(c) ==
  /\ pc[c] = "sleep"
  /\ ~CanSemop2(sem, IF c \in Producers THEN start_produce ELSE start_consume)

\* The children do not block each other: if all the living ones are stuck,
\* one has died between its two semop() calls, or one of the two kinds has
\* died out (prod_cons.c 44-97).
OnlyDeathsBlock ==
  (\A c \in Child : Alive(c) => Stuck(c)) =>
    \/ \E c \in Child : InCritical(c) /\ ~Alive(c)
    \/ \A c \in Producers : ~Alive(c)
    \/ \A c \in Consumers : ~Alive(c)

\* The inductive invariant behind these properties.
IInv == TypeOK /\ BufferInv /\ SlotAccounting
-----------------------------------------------------------------------------
(***************************************************************************)
(* The buffer implements the abstract queue.  A letter is in the queue     *)
(* from the producer's store to the consumer's printf.                     *)
(***************************************************************************)
InFlight(S) == IF \E c \in Child : pc[c] \in S THEN 1 ELSE 0

QueueLen ==
  sem[SEMAPHORE_FULL] + InFlight(ProducerPcs \ {"store"}) + InFlight({"get"})

Abstract == INSTANCE LetterQueue
              WITH Capacity <- ELEMENTS, queue <- QueueOf(QueueLen), out <- out

\* Letters leave the buffer in the order of the alphabet, none lost and none
\* twice, whoever is killed or interrupted when (prod_cons.c 44-97).
ImplementsLetterQueue == Abstract!Spec
=============================================================================

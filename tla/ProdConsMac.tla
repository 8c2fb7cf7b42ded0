----------------------------- MODULE ProdConsMac -----------------------------
(***************************************************************************)
(* lab_03/prod_cons_mac.c: the producers and consumers over the circular   *)
(* buffer with three named POSIX semaphores.  A child takes a slot and the *)
(* buffer in two calls, and gives them back in two calls, so it can be     *)
(* interrupted or killed with the one and without the other.  The names of *)
(* what prod_cons.c has too begin with Mac, so that one module can reason  *)
(* about both programs.                                                    *)
(***************************************************************************)
EXTENDS LetterBuffer, FiniteSets

ASSUME ProdConsMacAssumption == IpcObjects = {"sem", "shm"}

VARIABLE names  \* the semaphore names that exist in the system

macVars == <<family, sem, buffer, names>>

Names == {"/empty", "/full", "/binary"}

\* The labels with a slot in hand but not the buffer: the second sem_wait(),
\* the sleep in it, and the second sem_post().
HandoverPcs == {"wait_binary", "sleep_binary", "post"}

\* An earlier run, or another program, may have left any of the names behind.
MacInit == BufferInit /\ names \in SUBSET Names
-----------------------------------------------------------------------------
(* main() *)

\* The three sem_open(O_CREAT | O_EXCL) and the calls after them succeed:
\* none of the names existed.
Open == Setup /\ names = {} /\ names' = Names

\* main() tries all three even if the first fails, and keeps what it made.
OpenFails ==
  /\ SetupFails({})
  /\ \E made \in SUBSET (Names \ names) :
       made # Names /\ names' = names \cup made

\* shmget() or shmat() fails after that: the names stay too.
SharedMemoryFails ==
  /\ \E created \in {{"sem"}, {"sem", "shm"}} : SetupFails(created)
  /\ names = {} /\ names' = Names

\* shmctl(IPC_RMID) first, then sem_close() and sem_unlink() of all three.
MacRemoveShm == Remove("shm") /\ UNCHANGED names
CloseAndUnlink_OnlyCloses == "shm" \notin ipc /\ Remove("sem") /\ UNCHANGED names
CloseAndUnlink == "shm" \notin ipc /\ Remove("sem") /\ names' = {}

MacMain ==
  \/ Open
  \/ /\ \/ OpenFails \/ SharedMemoryFails \/ MacRemoveShm \/ CloseAndUnlink
        \/ /\ \/ Fork \/ ForkFails
              \/ \E c \in Child : Reap(c)
              \/ WaitInterrupted \/ NoMoreChildren \/ SigintParent
           /\ UNCHANGED names
     /\ UNCHANGED <<sem, buffer>>
-----------------------------------------------------------------------------
(* The semaphore calls of a child. *)

\* sem_wait(s) at one of the labels `from` goes through.
Wait(c, s, from, to) ==
  /\ Move(c, from, to)
  /\ sem[s] > 0
  /\ sem' = [sem EXCEPT ![s] = @ - 1]
  /\ UNCHANGED buffer

\* sem_wait(s) blocks.
MacSleep(c, s, from, to) ==
  /\ Move(c, {from}, to)
  /\ sem[s] = 0
  /\ UNCHANGED <<sem, buffer>>

Post(c, s, from, to) ==
  /\ Move(c, {from}, to)
  /\ sem' = [sem EXCEPT ![s] = @ + 1]
  /\ UNCHANGED buffer

\* sem_wait(slot), sem_wait(sem_binary), and in the end sem_post(sem_binary),
\* sem_post(other), around the critical section from `first` to `last`.
Calls_BinaryFirst(c, slot, first, last, other) ==
  \/ Wait(c, SEMAPHORE_BINARY, {"semop", "sleep"}, "wait_binary")
  \/ MacSleep(c, SEMAPHORE_BINARY, "semop", "sleep")
  \/ Wait(c, slot, {"wait_binary", "sleep_binary"}, first)
  \/ MacSleep(c, slot, "wait_binary", "sleep_binary")
  \/ Post(c, SEMAPHORE_BINARY, last, "post")
  \/ Post(c, other, "post", "while")
Calls(c, slot, first, last, other) ==
  \/ Wait(c, slot, {"semop", "sleep"}, "wait_binary")
  \/ MacSleep(c, slot, "semop", "sleep")
  \/ Wait(c, SEMAPHORE_BINARY, {"wait_binary", "sleep_binary"}, first)
  \/ MacSleep(c, SEMAPHORE_BINARY, "wait_binary", "sleep_binary")
  \/ Post(c, SEMAPHORE_BINARY, last, "post")
  \/ Post(c, other, "post", "while")

MacProducer(c) ==
  \/ Calls(c, SEMAPHORE_EMPTY, "store", "end_produce", SEMAPHORE_FULL)
  \/ Produce(c)

MacConsumer(c) ==
  \/ Calls(c, SEMAPHORE_FULL, "get", "end_consume", SEMAPHORE_EMPTY)
  \/ Consume(c)

\* The part of a child's loop, and the signals, that touch no shared memory.
\* A SIGINT in either sem_wait() ends the child, in the second one with the
\* slot it has taken.
MacLoop(c) ==
  /\ \/ Alarm(c) \/ LoopAgain(c) \/ LoopEnds(c)
     \/ Sigint(c, {"sleep", "sleep_binary"})
     \/ SigintAsleep(c, {"sleep", "sleep_binary"})
     \/ Sigalrm(c)
  /\ UNCHANGED <<sem, buffer>>
-----------------------------------------------------------------------------
MacTerminated == Over /\ UNCHANGED macVars

MacNext ==
  \/ MacMain
  \/ /\ \/ \E c \in Child : MacLoop(c)
        \/ \E c \in Producers : MacProducer(c)
        \/ \E c \in Consumers : MacConsumer(c)
     /\ UNCHANGED names
  \/ MacTerminated

MacSpec == MacInit /\ [][MacNext]_macVars

-----------------------------------------------------------------------------
(* Properties *)

MacTypeOK ==
  /\ BufferTypeOK
  /\ pc \in [Child -> LoopPcs \cup ProducerPcs \cup ConsumerPcs \cup HandoverPcs]
  /\ names \subseteq Names

\* A child, alive or dead, that has taken a slot and not given it back.
HasSlot(c) == InCritical(c) \/ pc[c] \in HandoverPcs

\* Every slot is free, filled, or in somebody's hands: a child that ends
\* between its calls keeps one for ever, and that is the only way the buffer
\* loses slots (prod_cons_mac.c 40-116, the exits 45, 52, 83, 92).
MacSlotAccounting ==
  Ready => sem[SEMAPHORE_EMPTY] + sem[SEMAPHORE_FULL]
             + Cardinality({c \in Child : HasSlot(c)}) = ELEMENTS

\* A living child that nobody's next step but another child's post can wake.
MacStuck(c) ==
  \/ /\ pc[c] = "sleep"
     /\ sem[IF c \in Producers THEN SEMAPHORE_EMPTY ELSE SEMAPHORE_FULL] = 0
  \/ pc[c] = "sleep_binary" /\ sem[SEMAPHORE_BINARY] = 0

\* The children do not block each other: if all the living ones are stuck,
\* a child has died with a slot in its hands, or one of the two kinds has
\* died out (prod_cons_mac.c 40-116: the slot is taken before the buffer).
MacOnlyDeathsBlock ==
  (\A c \in Child : Alive(c) => MacStuck(c)) =>
    \/ \E c \in Child : HasSlot(c) /\ ~Alive(c)
    \/ \A c \in Producers : ~Alive(c)
    \/ \A c \in Consumers : ~Alive(c)

\* A run that started and returned 0 leaves no name behind, so the next one
\* can start; while it runs, no other can (prod_cons_mac.c 128-136, 208-213).
NamesFollowTheRun ==
  /\ main = "exit0" => names = {}
  /\ main \in {"fork", "wait"} => names = Names
-----------------------------------------------------------------------------
(***************************************************************************)
(* The buffer implements the abstract queue.  A letter is in the queue     *)
(* from the producer's store to the consumer's printf: it is counted by    *)
(* SEMAPHORE_FULL only after the producer's last post and before the       *)
(* consumer's first wait.                                                  *)
(***************************************************************************)
MacQueueLen ==
  sem[SEMAPHORE_FULL]
    + Cardinality({c \in Producers : pc[c] \in (ProducerPcs \ {"store"}) \cup {"post"}})
    + Cardinality({c \in Consumers : pc[c] \in {"wait_binary", "sleep_binary", "get"}})

MacAbstract == INSTANCE LetterQueue
              WITH Capacity <- ELEMENTS, queue <- QueueOf(MacQueueLen), out <- out

\* Letters leave the buffer in the order of the alphabet, none lost and none
\* twice, although several producers can have stored a letter and not yet
\* posted it, and some never will (prod_cons_mac.c 40-116).
MacImplementsLetterQueue == MacAbstract!Spec
=============================================================================

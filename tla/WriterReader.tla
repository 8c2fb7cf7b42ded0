---------------------------- MODULE WriterReader ----------------------------
(***************************************************************************)
(* lab_03/writer_reader.c: readers and writers of one letter in shared     *)
(* memory, kept apart by four System V semaphores used as counters: a      *)
(* reader enters when no writer is active, a writer when nobody is.        *)
(*                                                                         *)
(* The writer's increment of the letter and the wrap-around after it are   *)
(* two steps, and SIGALRM can kill a child between any two steps.  The     *)
(* letters 'a' .. 'z' are 0 .. LETTERS-1, and LETTERS is 'z' + 1.          *)
(***************************************************************************)
EXTENDS ForkWait, SysVSem, FiniteSets

CONSTANT LETTERS

ASSUME WriterReaderAssumption ==
  /\ LETTERS \in Nat \ {0}
  /\ IpcObjects = {"sem", "shm"}

VARIABLES sem, var,
          seen  \* the last letter a reader or a writer printed

letters == <<var, seen>>
vars == <<family, sem, letters>>

WRITE_QUEUE == 0
READ_QUEUE == 1
ACTIVE_WRITER == 2
ACTIVE_READERS == 3

\* The child forked at index i is a writer iff i is even.
Writers == {c \in Child : c % 2 = 0}
Readers == Child \ Writers

start_read_StaysQueued ==
  <<sembuf(READ_QUEUE, V), sembuf(WRITE_QUEUE, 0), sembuf(ACTIVE_WRITER, 0),
    sembuf(ACTIVE_READERS, V), sembuf(READ_QUEUE, 0)>>
start_read ==
  <<sembuf(READ_QUEUE, V), sembuf(WRITE_QUEUE, 0), sembuf(ACTIVE_WRITER, 0),
    sembuf(ACTIVE_READERS, V), sembuf(READ_QUEUE, P)>>
end_read == <<sembuf(ACTIVE_READERS, P)>>
start_write_NoReaderCheck ==
  <<sembuf(WRITE_QUEUE, V), sembuf(ACTIVE_WRITER, 0), sembuf(ACTIVE_WRITER, 0),
    sembuf(ACTIVE_WRITER, V), sembuf(WRITE_QUEUE, P)>>
start_write ==
  <<sembuf(WRITE_QUEUE, V), sembuf(ACTIVE_WRITER, 0), sembuf(ACTIVE_READERS, 0),
    sembuf(ACTIVE_WRITER, V), sembuf(WRITE_QUEUE, P)>>
end_write_WrongCounter == <<sembuf(ACTIVE_READERS, V)>>
end_write == <<sembuf(ACTIVE_WRITER, P)>>

ReaderPcs == {"get", "end_read"}
WriterPcs == {"inc", "wrap", "put", "end_write"}

Init ==
  /\ FamilyInit
  /\ sem = [n \in 0 .. 3 |-> 0]
  /\ var = 0
  /\ seen = 0
-----------------------------------------------------------------------------
(* main() *)

\* semctl() sets the four semaphores to 0, and *storage = 'a'.
Setup ==
  /\ SetupSucceeds
  /\ sem' = [n \in 0 .. 3 |-> 0]
  /\ var' = 0
  /\ UNCHANGED seen

RemoveSem == Remove("sem")
RemoveShm == "sem" \notin ipc /\ Remove("shm")

Main ==
  \/ Setup
  \/ /\ \/ \E created \in {{}, {"sem"}, IpcObjects} : SetupFails(created)
        \/ Fork \/ ForkFails
        \/ \E c \in Child : Reap(c)
        \/ WaitInterrupted \/ NoMoreChildren \/ SigintParent
        \/ RemoveSem \/ RemoveShm
     /\ UNCHANGED <<sem, letters>>
-----------------------------------------------------------------------------
(* The semaphore calls of a child. *)

\* semop(semid, ops, 5) at the top of the loop goes through, at once or
\* after a sleep.
Enter(c, ops, first) ==
  /\ Move(c, {"semop", "sleep"}, first)
  /\ CanSemop5(sem, ops)
  /\ sem' = Semop5(sem, ops)
  /\ UNCHANGED letters

\* It does not: none of the five operations is applied, and the child sleeps.
Sleep(c, ops) ==
  /\ Move(c, {"semop"}, "sleep")
  /\ ~CanSemop5(sem, ops)
  /\ UNCHANGED <<sem, letters>>

\* The closing semop(semid, ops, 1) lowers a counter the child has raised.
Leave(c, last, ops) ==
  /\ Move(c, {last}, "while")
  /\ CanSemop1(sem, ops)
  /\ sem' = Semop1(sem, ops)
  /\ UNCHANGED letters

Statement(c, from, to) == Move(c, {from}, to) /\ UNCHANGED sem
-----------------------------------------------------------------------------
(* reader() *)

StartRead(c) == Enter(c, start_read, "get")

\* printf("%d reader %c\n", getpid(), *var);
Get(c) ==
  /\ Statement(c, "get", "end_read")
  /\ seen' = var
  /\ UNCHANGED var

EndRead(c) == Leave(c, "end_read", end_read)

Reader(c) == StartRead(c) \/ Sleep(c, start_read) \/ Get(c) \/ EndRead(c)
-----------------------------------------------------------------------------
(* writer() *)

StartWrite(c) == Enter(c, start_write, "inc")

\* (*var)++;
Increment(c) ==
  /\ Statement(c, "inc", "wrap")
  /\ var' = var + 1
  /\ UNCHANGED seen

\* if (*var == 'z' + 1) *var = 'a';
Wrap_AtZ(c) ==
  /\ Statement(c, "wrap", "put")
  /\ var' = IF var = LETTERS - 1 THEN 0 ELSE var
  /\ UNCHANGED seen
Wrap(c) ==
  /\ Statement(c, "wrap", "put")
  /\ var' = IF var = LETTERS THEN 0 ELSE var
  /\ UNCHANGED seen

\* printf("%d writer %c\n", getpid(), *var);
Put(c) ==
  /\ Statement(c, "put", "end_write")
  /\ seen' = var
  /\ UNCHANGED var

EndWrite(c) == Leave(c, "end_write", end_write)

Writer(c) ==
  \/ StartWrite(c) \/ Sleep(c, start_write)
  \/ Increment(c) \/ Wrap(c) \/ Put(c)
  \/ EndWrite(c)
-----------------------------------------------------------------------------
\* The part of a child's loop, and the signals, that touch no shared memory.
Loop(c) ==
  /\ \/ Alarm(c) \/ LoopAgain(c) \/ LoopEnds(c)
     \/ Sigint(c, {"sleep"}) \/ SigintAsleep(c, {"sleep"})
     \/ Sigalrm(c)
  /\ UNCHANGED <<sem, letters>>

Terminated == Over /\ UNCHANGED vars

Next ==
  \/ Main
  \/ \E c \in Child : Loop(c)
  \/ \E c \in Readers : Reader(c)
  \/ \E c \in Writers : Writer(c)
  \/ Terminated

Spec == Init /\ [][Next]_vars
-----------------------------------------------------------------------------
(* Properties *)

Reading(c) == pc[c] \in ReaderPcs
Writing(c) == pc[c] \in WriterPcs

TypeOK ==
  /\ FamilyTypeOK
  /\ pc \in [Child -> LoopPcs \cup ReaderPcs \cup WriterPcs]
  /\ sem \in [0 .. 3 -> Nat]
  /\ var \in 0 .. LETTERS
  /\ seen \in 0 .. LETTERS - 1

\* A writer shares the letter with nobody, and a child killed between its
\* two semop() calls still counts (writer_reader.c 49-95).
WriterExcludesAll ==
  \A c, d \in Child : Writing(c) /\ (Writing(d) \/ Reading(d)) => c = d

\* The two ACTIVE counters count the children between their two semop()
\* calls, the killed ones included: nobody takes back a dead child's share
\* (writer_reader.c 28-42; no SEM_UNDO).
CountersCount ==
  /\ sem[ACTIVE_READERS] = Cardinality({c \in Child : Reading(c)})
  /\ sem[ACTIVE_WRITER] = Cardinality({c \in Child : Writing(c)})

\* The queue counters are raised and lowered within one atomic call, so they
\* are 0 whenever anyone looks: a reader never waits for a queued writer,
\* only for an active one (writer_reader.c 28-32, 36-40).
QueuesNeverHold ==
  /\ CanSemop5(sem, start_read) <=> sem[ACTIVE_WRITER] = 0
  /\ CanSemop5(sem, start_write) <=> sem[ACTIVE_WRITER] + sem[ACTIVE_READERS] = 0

\* Nobody ever prints the 'z' + 1 a writer leaves between its increment and
\* its wrap-around, even if it is killed there (writer_reader.c 60, 82-87).
OnlyLettersPrinted ==
  \A c \in Child : pc[c] \in {"get", "put"} => var < LETTERS

\* A reader killed between its two semop() calls shuts the writers out for
\* ever, a writer killed there everybody (writer_reader.c 51-66, 72-93).
KilledHolderShutsOut ==
  [][/\ (\E c \in Child : Reading(c) /\ ~Alive(c)) => var' = var
     /\ (\E c \in Child : Writing(c) /\ ~Alive(c)) => UNCHANGED <<sem, letters>>]_vars
-----------------------------------------------------------------------------
(***************************************************************************)
(* The program implements the abstract register.  A write takes effect     *)
(* with the wrap-around: before it, the register has the old letter.       *)
(***************************************************************************)
Value == IF \E c \in Child : pc[c] = "wrap" THEN var - 1 ELSE var

Abstract == INSTANCE LetterRegister WITH value <- Value, seen <- seen

\* The letter goes round the alphabet, one at a time, and every letter
\* printed is the current one (writer_reader.c 49-95).
ImplementsLetterRegister == Abstract!Spec
=============================================================================

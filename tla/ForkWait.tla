------------------------------ MODULE ForkWait ------------------------------
(***************************************************************************)
(* The skeleton the programs of lab_03 share: a parent that creates its    *)
(* IPC objects, forks its children, waits for all of them and removes the  *)
(* objects; children that arm alarm(1) and loop `while (flag)` around a    *)
(* blocking semaphore operation; SIGINT, whose handler clears the `flag`   *)
(* of the process it reaches; and SIGALRM, which has no handler and kills. *)
(*                                                                         *)
(* Each program module extends this one, adds its semaphores and shared    *)
(* memory, and supplies the body of the loop.                              *)
(***************************************************************************)
EXTENDS Naturals

CONSTANTS
  ChildCount,  \* the length of the fork loop, CONSUMER_COUNT + PRODUCER_COUNT
  IpcObjects   \* the kernel objects the program creates

ASSUME FamilyAssumption == ChildCount \in Nat \ {0} /\ IpcObjects # {}

VARIABLES
  main,      \* where the parent is
  forked,    \* the loop index i of the parent's fork loop
  mainFlag,  \* the parent's copy of flag
  flag,      \* each living child's copy of flag
  life,      \* what has become of each child
  pc,        \* where each child is, or the statement of its critical
             \* section at which it was killed
  ipc        \* the IPC objects that exist

family == <<main, forked, mainFlag, flag, life, pc, ipc>>

Child == 0 .. ChildCount - 1

MainPc == {"setup", "fork", "wait", "cleanup", "exit0", "setup_err", "fork_err"}

\* A child that has ended stays a zombie until the parent waits for it.  How
\* it ended (exit(0), exit(1), SIGALRM) the parent only prints.
Life == {"unborn", "alive", "zombie", "reaped"}

\* The labels of a child outside its critical section.
LoopPcs == {"alarm", "while", "semop", "sleep", "gone"}

Alive(c) == life[c] = "alive"

Goto(c, l) == pc' = [pc EXCEPT ![c] = l]

\* A step of the living child c from one of the labels `from` to `to`.
Move(c, from, to) ==
  /\ Alive(c) /\ pc[c] \in from
  /\ Goto(c, to)
  /\ UNCHANGED <<main, forked, mainFlag, flag, life, ipc>>

\* Child c ends.  The flag dies with it, and its place too, unless it dies
\* in its critical section, where others depend on how far it got.
End(c) ==
  /\ life' = [life EXCEPT ![c] = "zombie"]
  /\ pc' = [pc EXCEPT ![c] = IF @ \in LoopPcs THEN "gone" ELSE @]
  /\ flag' = [flag EXCEPT ![c] = FALSE]
  /\ UNCHANGED <<main, forked, mainFlag, ipc>>

\* main() has installed the SIGINT handler and created nothing yet.
FamilyInit ==
  /\ main = "setup"
  /\ forked = 0
  /\ mainFlag = TRUE
  /\ flag = [c \in Child |-> TRUE]
  /\ life = [c \in Child |-> "unborn"]
  /\ pc = [c \in Child |-> "alarm"]
  /\ ipc = {}
-----------------------------------------------------------------------------
(* The parent. *)

\* Every creation call succeeds, and main() goes on to the fork loop.
SetupSucceeds ==
  /\ main = "setup"
  /\ main' = "fork"
  /\ ipc' = IpcObjects
  /\ UNCHANGED <<forked, mainFlag, flag, life, pc>>

\* One of the creation calls fails: main() returns at once, and what the
\* earlier calls created stays.
SetupFails(created) ==
  /\ main = "setup"
  /\ main' = "setup_err"
  /\ ipc' = created
  /\ UNCHANGED <<forked, mainFlag, flag, life, pc>>

\* The child starts with the parent's copy of flag.
Fork ==
  /\ main = "fork"
  /\ life' = [life EXCEPT ![forked] = "alive"]
  /\ flag' = [flag EXCEPT ![forked] = mainFlag]
  /\ forked' = forked + 1
  /\ main' = IF forked' = ChildCount THEN "wait" ELSE "fork"
  /\ UNCHANGED <<mainFlag, pc, ipc>>

\* fork() returns -1: the parent exits, leaving the children and the objects.
ForkFails ==
  /\ main = "fork"
  /\ main' = "fork_err"
  /\ UNCHANGED <<forked, mainFlag, flag, life, pc, ipc>>

\* wait() returns the pid of a child that has ended.
Reap(c) ==
  /\ main = "wait"
  /\ life[c] = "zombie"
  /\ life' = [life EXCEPT ![c] = "reaped"]
  /\ UNCHANGED <<main, forked, mainFlag, flag, pc, ipc>>

\* wait() fails with EINTR under a SIGINT: wpid is set to 0 and the loop goes on.
WaitInterrupted_GivesUp ==
  /\ main = "wait"
  /\ mainFlag' = FALSE
  /\ main' = "cleanup"
  /\ UNCHANGED <<forked, flag, life, pc, ipc>>
WaitInterrupted ==
  /\ main = "wait"
  /\ mainFlag' = FALSE
  /\ UNCHANGED <<main, forked, flag, life, pc, ipc>>

\* wait() fails with ECHILD: every child has been waited for.
NoMoreChildren_Waits ==
  /\ main = "wait"
  /\ \A c \in Child : life[c] = "reaped"
  /\ UNCHANGED family
NoMoreChildren ==
  /\ main = "wait"
  /\ \A c \in Child : life[c] = "reaped"
  /\ main' = "cleanup"
  /\ UNCHANGED <<forked, mainFlag, flag, life, pc, ipc>>

\* The parent removes the object x; with the last one gone main() returns 0.
Remove(x) ==
  /\ main = "cleanup"
  /\ x \in ipc
  /\ ipc' = ipc \ {x}
  /\ main' = IF ipc' = {} THEN "exit0" ELSE "cleanup"
  /\ UNCHANGED <<forked, mainFlag, flag, life, pc>>

\* SIGINT reaches the parent outside wait().
SigintParent ==
  /\ main \in {"setup", "fork", "cleanup"}
  /\ mainFlag' = FALSE
  /\ UNCHANGED <<main, forked, flag, life, pc, ipc>>
-----------------------------------------------------------------------------
(* The children. *)

\* alarm(1), the child's first call.
Alarm(c) == Move(c, {"alarm"}, "while")

\* The loop condition holds, the next call is the blocking one.
LoopAgain(c) == flag[c] /\ Move(c, {"while"}, "semop")

\* The loop condition fails: the child returns from its loop and calls exit(0).
LoopEnds(c) ==
  /\ Alive(c) /\ pc[c] = "while" /\ ~flag[c]
  /\ End(c)

\* SIGINT reaches a child that is not asleep in a semaphore call.
Sigint(c, asleep) ==
  /\ Alive(c) /\ pc[c] \notin asleep
  /\ flag' = [flag EXCEPT ![c] = FALSE]
  /\ UNCHANGED <<main, forked, mainFlag, life, pc, ipc>>

\* SIGINT reaches a sleeping child: the call fails with EINTR, and exit(1).
SigintAsleep(c, asleep) ==
  /\ Alive(c) /\ pc[c] \in asleep
  /\ End(c)

\* The alarm goes off, at any step after it was armed: SIGALRM kills.
Sigalrm(c) ==
  /\ Alive(c) /\ pc[c] # "alarm"
  /\ End(c)

\* The program is over: the parent and every child it forked have ended.
Over ==
  /\ main \in {"exit0", "setup_err", "fork_err"}
  /\ \A c \in Child : ~Alive(c)
-----------------------------------------------------------------------------
FamilyTypeOK ==
  /\ main \in MainPc
  /\ forked \in 0 .. ChildCount
  /\ mainFlag \in BOOLEAN
  /\ flag \in [Child -> BOOLEAN]
  /\ life \in [Child -> Life]
  /\ ipc \subseteq IpcObjects

\* main() has created and initialised the IPC objects.
Ready == main \notin {"setup", "setup_err"}

(***************************************************************************)
(* How far the parent is decides which children can exist and which        *)
(* objects do: no child before the objects are ready, none left when the   *)
(* parent starts to remove them.                                           *)
(***************************************************************************)
FamilyInv ==
  /\ ~Ready => forked = 0
  /\ main = "fork" => forked < ChildCount
  /\ \A c \in Child : (life[c] = "unborn") <=> (c >= forked)
  /\ \A c \in Child : life[c] = "unborn" => pc[c] = "alarm"
  /\ main \in {"fork", "wait", "fork_err"} => ipc = IpcObjects
  /\ main \in {"cleanup", "exit0"} => \A c \in Child : life[c] = "reaped"

\* The objects a child uses are never removed under it: while any child
\* lives, the semaphores and the shared memory exist, whatever signals
\* interrupted the parent's wait() (prod_cons.c 172-204).
IpcOutlivesChildren ==
  (\E c \in Child : Alive(c)) => ipc = IpcObjects

\* The parent and the children come to their end even if fork() fails and
\* the parent is gone before them; and once all children are forked, the
\* parent ends with 0, having waited for every child and removed both
\* objects, although a child may be killed holding a semaphore or sleep on
\* one for ever (prod_cons.c 156-166, 172-206).
EventuallyCleanedUp ==
  /\ <>Over
  /\ main = "wait" ~> /\ main = "exit0" /\ ipc = {}
                      /\ \A c \in Child : life[c] = "reaped"
=============================================================================

---------------------------- MODULE EventThreads ----------------------------
(***************************************************************************)
(* What lab_04/writer_reader.c and lab_04/writer_reader_active.c share: a  *)
(* Windows process whose main thread starts writers and readers, waits     *)
(* three seconds for all of them and terminates those that are left; two   *)
(* events, a mutex, and plain shared variables without any lock.           *)
(*                                                                         *)
(* The shared variables are racy.  An increment is a load into reg and a   *)
(* store of reg + 1, two steps, so an update can be lost.  LONG and char   *)
(* wrap round: write_cnt ranges over -LONG_MAX-1 .. LONG_MAX and symbol    *)
(* over the CHARS values of char, the letters 'a' .. 'z' being the first   *)
(* LETTERS of them.  read_cnt and active_reader are written and never      *)
(* read: they are left out.  So is printf, which changes nothing.          *)
(***************************************************************************)
EXTENDS Integers

CONSTANTS
  ThreadCount,  \* WRITER_COUNT + READER_COUNT
  LETTERS, CHARS, LONG_MAX,
  ROUNDS,       \* the value of cnt at which a writer stops the program, 3
  Watch         \* whether the history variable overlap is kept

ASSUME EventThreadsAssumption ==
  /\ ThreadCount \in Nat \ {0}
  /\ LETTERS \in Nat \ {0} /\ CHARS \in Nat /\ CHARS >= LETTERS
  /\ LONG_MAX \in Nat \ {0} /\ ROUNDS \in Nat \ {0}
  /\ Watch \in BOOLEAN

VARIABLES
  main,       \* where the main thread is
  next,       \* the index of its loops over the threads
  pc,         \* where each thread is
  reg,        \* what each thread has loaded and is about to use
  can_read, can_write,  \* the events are signalled
  bmutex,     \* the owner of the mutex, or Nobody
  write_cnt, symbol, cnt, flag,
  ctrl,       \* a console control event is being delivered
  overlap     \* history: two writers have been between start_write() and
              \* stop_write() at the same time

events == <<can_read, can_write>>
vars == <<main, next, pc, reg, events, bmutex, write_cnt, symbol, cnt, flag, ctrl, overlap>>

Thread == 0 .. ThreadCount - 1
Nobody == -1

\* The thread created at index i is a writer iff i is even.
Writers == {t \in Thread : t % 2 = 0}
Readers == Thread \ Writers

\* The process exists, and so do its threads.
Exits == {"exit0", "exit1", "stopped"}
Running == main \notin Exits

Ended(t) == pc[t] \in {"done", "killed"}

\* Between start_write() and stop_write().
SectionPcs ==
  {"test", "cnt_load", "cnt_store", "reset", "check", "inc", "put"}

Long(n) == ((n + LONG_MAX + 1) % (2 * LONG_MAX + 2)) - LONG_MAX - 1

Init ==
  /\ main = "setup"
  /\ next = 0
  /\ pc = [t \in Thread |-> "unborn"]
  /\ reg = [t \in Thread |-> 0]
  /\ can_read = TRUE /\ can_write = TRUE
  /\ bmutex = Nobody
  /\ write_cnt = 0 /\ symbol = 0 /\ cnt = 0 /\ flag = 0
  /\ ctrl = FALSE
  /\ overlap = FALSE

\* Two writers are between start_write() and stop_write().
Overlapping == \E u, w \in Writers : u # w /\ {pc[u], pc[w]} \subseteq SectionPcs

\* Thread t goes from the label `from` to `to`.
Step(t, from, to) ==
  /\ Running
  /\ pc[t] = from
  /\ pc' = [pc EXCEPT ![t] = to]
  /\ overlap' = (overlap \/ (Watch /\ Overlapping'))
  /\ UNCHANGED <<main, next, ctrl>>
-----------------------------------------------------------------------------
(* main() *)

shared == <<reg, events, bmutex, write_cnt, symbol, cnt, flag, overlap>>

\* The two events and the mutex are created, or ExitProcess(1).
CreateObjects ==
  /\ main = "setup"
  /\ main' \in {"create", "exit1"}
  /\ UNCHANGED <<next, pc, ctrl, shared>>

CreateThread ==
  /\ main = "create"
  /\ pc' = [pc EXCEPT ![next] = "while"]
  /\ IF next + 1 = ThreadCount
     THEN main' = "wait" /\ next' = 0
     ELSE main' = "create" /\ next' = next + 1
  /\ UNCHANGED <<ctrl, shared>>

\* _beginthreadex() returns 0: ExitProcess(1) takes the threads with it.
CreateThreadFails ==
  /\ main = "create"
  /\ main' = "exit1"
  /\ UNCHANGED <<next, pc, ctrl, shared>>

\* WaitForMultipleObjects(..., TRUE, 3000): all threads have ended.
AllFinished ==
  /\ main = "wait"
  /\ \A t \in Thread : Ended(t)
  /\ main' = "exit0"
  /\ UNCHANGED <<next, pc, ctrl, shared>>

\* The three seconds are over.
Timeout ==
  /\ main = "wait"
  /\ main' = "kill"
  /\ UNCHANGED <<next, pc, ctrl, shared>>

\* The wait fails, and main() goes on as if the threads had ended.  That it
\* closes the handles just before it returns is left out.
WaitFails ==
  /\ main = "wait"
  /\ main' = "exit0"
  /\ UNCHANGED <<next, pc, ctrl, shared>>

\* TerminateThread() of the next thread, wherever it is.  A mutex it owns is
\* abandoned, and the next wait for it succeeds.
Terminate ==
  /\ main = "kill"
  /\ pc' = [pc EXCEPT ![next] = IF @ = "done" THEN "done" ELSE "killed"]
  /\ bmutex' = IF bmutex = next THEN Nobody ELSE bmutex
  /\ next' = next + 1
  /\ main' = IF next' = ThreadCount THEN "exit0" ELSE "kill"
  /\ UNCHANGED <<reg, events, write_cnt, symbol, cnt, flag, ctrl, overlap>>

Main ==
  \/ CreateObjects \/ CreateThread \/ CreateThreadFails
  \/ AllFinished \/ Timeout \/ WaitFails \/ Terminate

\* The user presses Ctrl+C or Ctrl+Break.
UserCtrl ==
  /\ Running /\ main # "setup"
  /\ ctrl' = TRUE
  /\ UNCHANGED <<main, next, pc, shared>>
-----------------------------------------------------------------------------
(* The loop of a thread, and the statements of writer() between            *)
(* start_write() and stop_write().                                         *)

\* while (flag == 0)
While_Forever(t, first) ==
  /\ Step(t, "while", first)
  /\ UNCHANGED <<reg, events, bmutex, write_cnt, symbol, cnt, flag>>
While(t, first) ==
  /\ Step(t, "while", IF flag = 0 THEN first ELSE "done")
  /\ UNCHANGED <<reg, events, bmutex, write_cnt, symbol, cnt, flag>>

\* write_cnt++ and write_cnt--, in two steps each.
LoadCount(t, from, to) ==
  /\ Step(t, from, to)
  /\ reg' = [reg EXCEPT ![t] = write_cnt]
  /\ UNCHANGED <<events, bmutex, write_cnt, symbol, cnt, flag>>

StoreCount(t, change, from, to) ==
  /\ Step(t, from, to)
  /\ write_cnt' = Long(reg[t] + change)
  /\ reg' = [reg EXCEPT ![t] = 0]
  /\ UNCHANGED <<events, bmutex, symbol, cnt, flag>>

\* if (symbol == 'z')
TestSymbol_AfterZ(t) ==
  /\ Step(t, "test", IF symbol = LETTERS THEN "cnt_load" ELSE "inc")
  /\ reg' = [reg EXCEPT ![t] = IF symbol = LETTERS THEN 0 ELSE symbol]
  /\ UNCHANGED <<events, bmutex, write_cnt, symbol, cnt, flag>>
TestSymbol(t) ==
  /\ Step(t, "test", IF symbol = LETTERS - 1 THEN "cnt_load" ELSE "inc")
  /\ reg' = [reg EXCEPT ![t] = IF symbol = LETTERS - 1 THEN 0 ELSE symbol]
  /\ UNCHANGED <<events, bmutex, write_cnt, symbol, cnt, flag>>

\* symbol++; the compiler may use the value it has just tested, or load
\* symbol again.
LoadSymbol(t) ==
  /\ Step(t, "inc", "put")
  /\ \E s \in {reg[t], symbol} : reg' = [reg EXCEPT ![t] = s]
  /\ UNCHANGED <<events, bmutex, write_cnt, symbol, cnt, flag>>

StoreSymbol(t) ==
  /\ Step(t, "put", "stop")
  /\ symbol' = (reg[t] + 1) % CHARS
  /\ reg' = [reg EXCEPT ![t] = 0]
  /\ UNCHANGED <<events, bmutex, write_cnt, cnt, flag>>

\* cnt++; of a volatile int.
LoadCnt(t) ==
  /\ Step(t, "cnt_load", "cnt_store")
  /\ reg' = [reg EXCEPT ![t] = cnt]
  /\ UNCHANGED <<events, bmutex, write_cnt, symbol, cnt, flag>>

StoreCnt(t) ==
  /\ Step(t, "cnt_store", "reset")
  /\ cnt' = reg[t] + 1
  /\ reg' = [reg EXCEPT ![t] = 0]
  /\ UNCHANGED <<events, bmutex, write_cnt, symbol, flag>>

\* symbol = 'a';
ResetSymbol(t) ==
  /\ Step(t, "reset", "check")
  /\ symbol' = 0
  /\ UNCHANGED <<reg, events, bmutex, write_cnt, cnt, flag>>

\* if (cnt >= 3), else on to stop_write().
GoOn(t) ==
  /\ cnt < ROUNDS
  /\ Step(t, "check", "stop")
  /\ UNCHANGED <<reg, events, bmutex, write_cnt, symbol, cnt, flag>>

\* It is: GenerateConsoleCtrlEvent(), and break without stop_write().
Break(t) ==
  /\ cnt >= ROUNDS
  /\ Running
  /\ pc[t] = "check"
  /\ pc' = [pc EXCEPT ![t] = "done"]
  /\ ctrl' = TRUE
  /\ UNCHANGED <<main, next, shared>>

Letter(t) ==
  \/ TestSymbol(t) \/ LoadSymbol(t) \/ StoreSymbol(t)
  \/ LoadCnt(t) \/ StoreCnt(t) \/ ResetSymbol(t)
  \/ GoOn(t) \/ Break(t)
-----------------------------------------------------------------------------
(* Events and the mutex. *)

\* A step that changes nothing but the events.
EventStep(t, from, to) ==
  Step(t, from, to) /\ UNCHANGED <<reg, bmutex, write_cnt, symbol, cnt, flag>>

\* SetEvent(can_read)
SetCanRead(t, from, to) ==
  EventStep(t, from, to) /\ can_read' = TRUE /\ UNCHANGED can_write

\* WaitForSingleObject(can_read, INFINITE): an auto-reset event lets one
\* waiter through.
WaitCanRead(t, from, to) ==
  EventStep(t, from, to) /\ can_read /\ can_read' = FALSE /\ UNCHANGED can_write

\* WaitForSingleObject(bmutex, INFINITE) and ReleaseMutex(bmutex).
LockMutex(t, from, to) ==
  /\ bmutex = Nobody
  /\ Step(t, from, to)
  /\ bmutex' = t
  /\ UNCHANGED <<reg, events, write_cnt, symbol, cnt, flag>>

ReleaseMutex(t, from, to) ==
  /\ Step(t, from, to)
  /\ bmutex' = Nobody
  /\ UNCHANGED <<reg, events, write_cnt, symbol, cnt, flag>>

\* The whole process has ended.
Terminated == ~Running /\ UNCHANGED vars
-----------------------------------------------------------------------------
ThreadPcs ==
  {"unborn", "while", "done", "killed",
   "count_load", "count_store", "try_read", "wait_write",
   "uncount_load", "uncount_store", "stop", "choose", "set_write", "set_read",
   "test_count", "try_write", "wait_read", "signal", "lock", "unlock", "end_read"}
    \cup SectionPcs

TypeOK ==
  /\ main \in {"setup", "create", "wait", "kill"} \cup Exits
  /\ next \in 0 .. ThreadCount
  /\ pc \in [Thread -> ThreadPcs]
  /\ reg \in [Thread -> Int]
  /\ can_read \in BOOLEAN /\ can_write \in BOOLEAN
  /\ bmutex \in Thread \cup {Nobody}
  /\ write_cnt \in -LONG_MAX - 1 .. LONG_MAX
  /\ symbol \in 0 .. CHARS - 1
  /\ cnt \in Nat
  /\ flag \in {0, 1}
  /\ ctrl \in BOOLEAN
  /\ overlap \in BOOLEAN
-----------------------------------------------------------------------------
(* Properties of both programs *)

\* A thread that waits for an event nobody has signalled.
Asleep(t) ==
  \/ pc[t] = "wait_write" /\ ~can_write
  \/ pc[t] = "wait_read" /\ ~can_read

\* As long as no thread has ended, at least one can go on, whatever updates
\* of write_cnt were lost: the events never leave all of them waiting
\* (writer_reader.c 27-57, writer_reader_active.c 22-95).
NobodyStalls ==
  (\A t \in Thread : ~Ended(t)) /\ main = "wait" => \E t \in Thread : ~Asleep(t)

\* The test for 'z' and the increment after it are not one step, so symbol
\* can run past 'z', but only once two writers have been there at the same
\* time (writer_reader_active.c 101-114, writer_reader.c 63-72).
AlphabetLeftByOverlap == symbol >= LETTERS => overlap
=============================================================================

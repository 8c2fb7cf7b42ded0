------------------------- MODULE EventWriterReader -------------------------
(***************************************************************************)
(* lab_04/writer_reader.c: the writers and readers over the events         *)
(* can_read (auto-reset) and can_write (manual reset), both signalled at   *)
(* the start.  A console event sets flag, and the threads end their loops. *)
(***************************************************************************)
EXTENDS EventThreads

-----------------------------------------------------------------------------
(* start_write() and stop_write() *)

\* if (WaitForSingleObject(can_read, 0)): goes on if can_read was signalled,
\* which resets it, else to the wait for can_write.
TryRead(t) ==
  /\ EventStep(t, "try_read", IF can_read THEN "uncount_load" ELSE "wait_write")
  /\ can_read' = FALSE
  /\ UNCHANGED can_write

\* A manual-reset event lets everybody through.
WaitCanWrite(t) ==
  /\ EventStep(t, "wait_write", "uncount_load")
  /\ can_write
  /\ UNCHANGED events

StartWrite(t) ==
  \/ LoadCount(t, "count_load", "count_store")
  \/ StoreCount(t, 1, "count_store", "try_read")
  \/ TryRead(t) \/ WaitCanWrite(t)
  \/ LoadCount(t, "uncount_load", "uncount_store")
  \/ StoreCount(t, -1, "uncount_store", "test")

ResetCanWrite(t) ==
  EventStep(t, "stop", "choose") /\ can_write' = FALSE /\ UNCHANGED can_read

\* if (write_cnt > 0)
Choose_ReadersLast(t) ==
  /\ EventStep(t, "choose", IF write_cnt > 0 THEN "set_write" ELSE "while")
  /\ UNCHANGED events
Choose(t) ==
  /\ EventStep(t, "choose", IF write_cnt > 0 THEN "set_write" ELSE "set_read")
  /\ UNCHANGED events

SetCanWrite(t, from) ==
  EventStep(t, from, "while") /\ can_write' = TRUE /\ UNCHANGED can_read

StopWrite(t) ==
  \/ ResetCanWrite(t) \/ Choose(t)
  \/ SetCanWrite(t, "set_write") \/ SetCanRead(t, "set_read", "while")

Writer(t) == While(t, "count_load") \/ StartWrite(t) \/ Letter(t) \/ StopWrite(t)
-----------------------------------------------------------------------------
(* start_read() and stop_read() *)

\* if (write_cnt || WaitForSingleObject(can_write, 0)): the test of the
\* event does not reset it.
TestCount(t) ==
  /\ EventStep(t, "test_count", IF write_cnt # 0 THEN "wait_read" ELSE "try_write")
  /\ UNCHANGED events

TryWrite(t) ==
  /\ EventStep(t, "try_write", IF can_write THEN "signal" ELSE "wait_read")
  /\ UNCHANGED events

StartRead(t) ==
  \/ TestCount(t) \/ TryWrite(t)
  \/ WaitCanRead(t, "wait_read", "signal")
  \/ SetCanRead(t, "signal", "lock")
  \/ LockMutex(t, "lock", "unlock") \/ ReleaseMutex(t, "unlock", "end_read")

StopRead(t) == SetCanWrite(t, "end_read")

Reader(t) == While(t, "test_count") \/ StartRead(t) \/ StopRead(t)
-----------------------------------------------------------------------------
\* signal(), the console control handler.
Handler ==
  /\ Running /\ ctrl
  /\ flag' = 1
  /\ ctrl' = FALSE
  /\ UNCHANGED <<main, next, pc, reg, events, bmutex, write_cnt, symbol, cnt, overlap>>

\* GenerateConsoleCtrlEvent() fails: nobody looks, and the writer breaks.
BreakUnheard(t) ==
  /\ cnt >= ROUNDS
  /\ Step(t, "check", "done")
  /\ UNCHANGED <<reg, events, bmutex, write_cnt, symbol, cnt, flag>>

Next ==
  \/ Main
  \/ UserCtrl \/ Handler
  \/ \E t \in Writers : Writer(t) \/ BreakUnheard(t)
  \/ \E t \in Readers : Reader(t)
  \/ Terminated

Spec == Init /\ [][Next]_vars

\* The control handler and every thread that can run are scheduled.  The
\* main thread is not: its timeout would end every other question.
FairSpec ==
  /\ Spec
  /\ WF_vars(Handler)
  /\ \A t \in Writers : WF_vars(Writer(t))
  /\ \A t \in Readers : WF_vars(Reader(t))
-----------------------------------------------------------------------------
(* Properties *)

\* Once flag is set every thread ends its loop, unless it waits for an event
\* that the others, on their way out, have not signalled
\* (writer_reader.c 22-25, 59-86).
FlagStops ==
  flag = 1 ~>
    \/ ~Running
    \/ \A t \in Thread : pc[t] = "unborn" \/ Ended(t) \/ Asleep(t)
=============================================================================

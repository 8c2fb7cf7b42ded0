---------------------- MODULE EventWriterReaderActive ----------------------
(***************************************************************************)
(* lab_04/writer_reader_active.c: the same program with the tests of the   *)
(* events turned round, stop_write() and stop_read() both signalling       *)
(* can_read, and no console handler: a console event stops the process.    *)
(* Every failing call ends the process too.                                *)
(***************************************************************************)
EXTENDS EventThreads

-----------------------------------------------------------------------------
(* start_write() and stop_write() *)

\* if (WaitForSingleObject(can_read, 0) == WAIT_OBJECT_0): the wait resets
\* can_read, and the writer goes on to the wait for can_write.
TryRead(t) ==
  /\ EventStep(t, "try_read", IF can_read THEN "wait_write" ELSE "uncount_load")
  /\ can_read' = FALSE
  /\ UNCHANGED can_write

\* Nobody ever resets can_write, so this wait never blocks.
WaitCanWrite(t) ==
  /\ EventStep(t, "wait_write", "uncount_load")
  /\ can_write
  /\ UNCHANGED events

StartWrite(t) ==
  \/ LoadCount(t, "count_load", "count_store")
  \/ StoreCount(t, 1, "count_store", "try_read")
  \/ TryRead(t) \/ WaitCanWrite(t)
  \/ LoadCount(t, "uncount_load", "uncount_store")
  \/ StoreCount(t, -1, "uncount_store", "test")

ResetCanRead(t) ==
  EventStep(t, "stop", "set_read") /\ can_read' = FALSE /\ UNCHANGED can_write

\* Both branches of if (write_cnt > 0) signal can_read.
StopWrite_Forgets(t) ==
  \/ ResetCanRead(t)
  \/ EventStep(t, "set_read", "while") /\ UNCHANGED events
StopWrite(t) == ResetCanRead(t) \/ SetCanRead(t, "set_read", "while")

Writer(t) == While(t, "count_load") \/ StartWrite(t) \/ Letter(t) \/ StopWrite(t)
-----------------------------------------------------------------------------
(* start_read() and stop_read() *)

\* if (write_cnt || WaitForSingleObject(can_write, 0) == WAIT_OBJECT_0)
TestCount(t) ==
  /\ EventStep(t, "test_count", IF write_cnt # 0 THEN "wait_read" ELSE "try_write")
  /\ UNCHANGED events

TryWrite(t) ==
  /\ EventStep(t, "try_write", IF can_write THEN "wait_read" ELSE "signal")
  /\ UNCHANGED events

StartRead(t) ==
  \/ TestCount(t) \/ TryWrite(t)
  \/ WaitCanRead(t, "wait_read", "signal")
  \/ SetCanRead(t, "signal", "lock")
  \/ LockMutex(t, "lock", "unlock") \/ ReleaseMutex(t, "unlock", "end_read")

StopRead(t) == SetCanRead(t, "end_read", "while")

Reader(t) == While(t, "test_count") \/ StartRead(t) \/ StopRead(t)
-----------------------------------------------------------------------------
\* The default handler of a console event: ExitProcess().
Stop ==
  /\ Running /\ ctrl
  /\ main' = "stopped"
  /\ UNCHANGED <<next, pc, ctrl, shared>>

\* A call on an event, the mutex or the console fails: ExitProcess(1), or
\* exit(1).
CallPcs ==
  {"wait_write", "stop", "set_read", "wait_read", "signal", "lock", "unlock",
   "end_read", "check"}

CallFails(t) ==
  /\ Running
  /\ pc[t] \in CallPcs
  /\ pc[t] = "check" => cnt >= ROUNDS
  /\ main' = "exit1"
  /\ UNCHANGED <<next, pc, ctrl, shared>>

Next ==
  \/ Main
  \/ UserCtrl \/ Stop
  \/ \E t \in Writers : Writer(t)
  \/ \E t \in Readers : Reader(t)
  \/ \E t \in Thread : CallFails(t)
  \/ Terminated

Spec == Init /\ [][Next]_vars
-----------------------------------------------------------------------------
(* Properties *)

\* A thread that will signal can_read before it waits for anything again.
WillSignal(t) ==
  pc[t] \in SectionPcs \cup
    {"wait_write", "uncount_load", "uncount_store", "stop", "set_read",
     "signal", "lock", "unlock", "end_read"}

\* A reader waits only while somebody is on the way to signal can_read,
\* unless a writer has broken out of its loop, or a terminated thread was to
\* signal it: whoever resets can_read signals it (writer_reader_active.c
\* 22-95).
SignalInHand ==
  ~can_read => \E t \in Thread : WillSignal(t) \/ Ended(t)
=============================================================================

---------------------------- MODULE PipeMessages ----------------------------
(***************************************************************************)
(* Lab_01/fifth.c and Lab_01/lab_04.c: a parent forks two children that    *)
(* each write a message into one pipe, waits for them, and reads as many   *)
(* bytes as the first message has and then as many as the second has.      *)
(* The pipe is a stream: it keeps the order of the writes and forgets      *)
(* where one message ends.                                                 *)
(*                                                                         *)
(* In fifth.c a child writes only if a SIGINT reaches it before its sleep  *)
(* of five seconds is over; in lab_04.c it writes at once, and the parent  *)
(* reads a third time, with the length of a messages[2] that is not there. *)
(* signal() is that of BSD and glibc: waitpid() and read() are restarted   *)
(* after the handler.  A byte is the index of the child that wrote it.     *)
(***************************************************************************)
EXTENDS Naturals, SequencesExt

CONSTANTS
  FIRST, SECOND,  \* the lengths of the two messages, 6 and 12
  GARBAGE         \* bound on what strlen(messages[2]) may be

ASSUME PipeAssumption ==
  FIRST \in Nat \ {0} /\ SECOND \in Nat \ {0} /\ GARBAGE \in Nat

VARIABLES
  program,  \* which of the two is run
  main,     \* where the parent is
  next,     \* the index of its loops
  pc,       \* where each child is
  flag,     \* each process's copy of Flag
  pipe,     \* the bytes written and not yet read
  wrote,    \* history: the children that have written, in their order
  reads     \* history: what each read() returned

vars == <<program, main, next, pc, flag, pipe, wrote, reads>>

Child == {0, 1}
Parent == 2
Exits == {"exit0", "exit1", "killed"}

Length(c) == IF c = 0 THEN FIRST ELSE SECOND
Message(c) == [k \in 1 .. Length(c) |-> c]

ParentEnded == main \in Exits
Ended(c) == pc[c] \in {"exit0", "no_signal", "killed"}
Lives(c) == pc[c] # "unborn" /\ ~Ended(c)

\* Who has which end of the pipe open.
HoldsRead(p) ==
  IF p = Parent THEN ~ParentEnded ELSE pc[p] = "close_read"
HoldsWrite_ToTheEnd(p) == IF p = Parent THEN ~ParentEnded ELSE Lives(p)
HoldsWrite(p) ==
  IF p = Parent THEN main \in {"fork", "wait", "close_write"} ELSE Lives(p)

\* The handler is installed, and no child is there yet.
Init ==
  /\ program \in {"fifth", "lab_04"}
  /\ main = "pipe" /\ next = 0
  /\ pc = [c \in Child |-> "unborn"]
  /\ flag = [p \in Child \cup {Parent} |-> FALSE]
  /\ pipe = <<>> /\ wrote = <<>> /\ reads = <<>>
-----------------------------------------------------------------------------
(* The parent. *)

ParentGoes(from, to) ==
  /\ main = from /\ main' = to
  /\ UNCHANGED <<program, flag, wrote>>

\* pipe(), or err(EXIT_FAILURE).
CreatePipe ==
  /\ ParentGoes("pipe", "fork") \/ ParentGoes("pipe", "exit1")
  /\ UNCHANGED <<next, pc, pipe, reads>>

\* The child starts with the parent's Flag and with both ends open.
Fork ==
  /\ main = "fork"
  /\ pc' = [pc EXCEPT ![next] = "close_read"]
  /\ flag' = [flag EXCEPT ![next] = flag[Parent]]
  /\ IF next = 1 THEN main' = "wait" /\ next' = 0
                 ELSE main' = "fork" /\ next' = 1
  /\ UNCHANGED <<program, pipe, wrote, reads>>

ForkFails == ParentGoes("fork", "exit1") /\ UNCHANGED <<next, pc, pipe, reads>>

\* waitpid() of the children in the order of the forks.
WaitPid ==
  /\ ParentGoes("wait", IF next = 1 THEN "close_write" ELSE "wait")
  /\ Ended(next)
  /\ next' = 1 - next
  /\ UNCHANGED <<pc, pipe, reads>>

CloseWrite == ParentGoes("close_write", "read") /\ UNCHANGED <<next, pc, pipe, reads>>

Rounds == IF program = "fifth" THEN 2 ELSE 3

\* strlen(messages[n]); beyond the array it is whatever the stack holds.
Sizes(n) == IF n < 2 THEN {Length(n)} ELSE 0 .. GARBAGE

\* read() of at most `size` bytes; of an empty pipe only once nobody can
\* write to it any more.
Read_AlwaysFirst(size) ==
  LET n == IF FIRST < Len(pipe) THEN FIRST ELSE Len(pipe)
  IN  /\ pipe # <<>> \/ size = 0 \/ \A p \in Child \cup {Parent} : ~HoldsWrite(p)
      /\ reads' = Append(reads, SubSeq(pipe, 1, n))
      /\ pipe' = SubSeq(pipe, n + 1, Len(pipe))
Read_Everything(size) ==
  /\ pipe # <<>> \/ size = 0 \/ \A p \in Child \cup {Parent} : ~HoldsWrite(p)
  /\ reads' = Append(reads, pipe)
  /\ pipe' = <<>>
Read(size) ==
  LET n == IF size < Len(pipe) THEN size ELSE Len(pipe)
  IN  /\ pipe # <<>> \/ size = 0 \/ \A p \in Child \cup {Parent} : ~HoldsWrite(p)
      /\ reads' = Append(reads, SubSeq(pipe, 1, n))
      /\ pipe' = SubSeq(pipe, n + 1, Len(pipe))

ReadMessage ==
  /\ ParentGoes("read", IF next + 1 = Rounds THEN "close_read" ELSE "read")
  /\ \E size \in Sizes(next) : Read(size)
  /\ next' = next + 1
  /\ UNCHANGED pc

CloseRead == ParentGoes("close_read", "exit0") /\ UNCHANGED <<next, pc, pipe, reads>>

ParentGoesOn == CreatePipe \/ Fork \/ WaitPid \/ CloseWrite \/ ReadMessage \/ CloseRead
-----------------------------------------------------------------------------
(* A child. *)

ChildGoes(c, from, to) ==
  /\ pc[c] = from
  /\ pc' = [pc EXCEPT ![c] = to]
  /\ UNCHANGED <<program, main, next, flag, reads>>

ChildCloseRead(c) ==
  /\ ChildGoes(c, "close_read", IF program = "fifth" THEN "test" ELSE "write")
  /\ UNCHANGED <<pipe, wrote>>

\* if (!Flag) { sleep(5); if (!Flag) err(EXIT_SUCCESS, ...) }; the handler
\* ends the sleep early, unless it ran before it.
TestFlag(c) ==
  /\ ChildGoes(c, "test", IF flag[c] THEN "write" ELSE "sleep")
  /\ UNCHANGED <<pipe, wrote>>
SleepEnds(c) == ChildGoes(c, "sleep", "test_again") /\ UNCHANGED <<pipe, wrote>>
TestAgain(c) ==
  /\ ChildGoes(c, "test_again", IF flag[c] THEN "write" ELSE "no_signal")
  /\ UNCHANGED <<pipe, wrote>>

\* write() appends the message in one piece; without a reader left it is the
\* end of the child, of SIGPIPE.
Write(c) ==
  \/ /\ \E p \in Child \cup {Parent} : HoldsRead(p)
     /\ ChildGoes(c, "write", "close_write")
     /\ pipe' = pipe \o Message(c)
     /\ wrote' = Append(wrote, c)
  \/ /\ \A p \in Child \cup {Parent} : ~HoldsRead(p)
     /\ ChildGoes(c, "write", "killed")
     /\ UNCHANGED <<pipe, wrote>>

ChildCloseWrite(c) == ChildGoes(c, "close_write", "exit0") /\ UNCHANGED <<pipe, wrote>>

ChildProcess(c) ==
  \/ ChildCloseRead(c) \/ TestFlag(c) \/ SleepEnds(c) \/ TestAgain(c)
  \/ Write(c) \/ ChildCloseWrite(c)
-----------------------------------------------------------------------------
(* Signals. *)

\* SIGINT reaches a process of fifth.c: sig_handler().
Sigint(p) ==
  /\ program = "fifth"
  /\ IF p = Parent THEN ~ParentEnded ELSE Lives(p)
  /\ flag' = [flag EXCEPT ![p] = TRUE]
  /\ UNCHANGED <<program, main, next, pc, pipe, wrote, reads>>

\* Any other signal, and SIGINT in lab_04.c, kills.
KillParent ==
  /\ ~ParentEnded
  /\ main' = "killed"
  /\ UNCHANGED <<program, next, pc, flag, pipe, wrote, reads>>
KillChild(c) ==
  /\ Lives(c)
  /\ pc' = [pc EXCEPT ![c] = "killed"]
  /\ UNCHANGED <<program, main, next, flag, pipe, wrote, reads>>
-----------------------------------------------------------------------------
Over == ParentEnded /\ \A c \in Child : ~Lives(c)

Terminated == Over /\ UNCHANGED vars

Next ==
  \/ ParentGoesOn \/ ForkFails
  \/ \E c \in Child : ChildProcess(c) \/ KillChild(c)
  \/ \E p \in Child \cup {Parent} : Sigint(p)
  \/ KillParent
  \/ Terminated

Spec == Init /\ [][Next]_vars

\* The three processes are scheduled, and five seconds pass.  Nobody need
\* send a signal.
FairSpec ==
  /\ Spec
  /\ WF_vars(ParentGoesOn)
  /\ \A c \in Child : WF_vars(ChildProcess(c))
-----------------------------------------------------------------------------
(* Properties *)

TypeOK ==
  /\ program \in {"fifth", "lab_04"}
  /\ main \in {"pipe", "fork", "wait", "close_write", "read", "close_read"} \cup Exits
  /\ next \in 0 .. 3
  /\ pc \in [Child -> {"unborn", "close_read", "test", "sleep", "test_again", "write",
                       "close_write", "exit0", "no_signal", "killed"}]
  /\ flag \in [Child \cup {Parent} -> BOOLEAN]
  /\ pipe \in Seq(Child) /\ wrote \in Seq(Child) /\ reads \in Seq(Seq(Child))

(***************************************************************************)
(* fifth.c:42, 70 and lab_04.c:26, 54.  The n-th read gets the message of  *)
(* the n-th child, whole, or nothing, unless the second child wrote first  *)
(* (or alone): then, and only then, messages come out in pieces, and a     *)
(* piece of one with the other.                                            *)
(***************************************************************************)
WholeUnlessOvertaken ==
  reads # <<>> =>
    ((\E n \in DOMAIN reads : reads[n] # <<>> /\ (n > 2 \/ reads[n] # Message(n - 1)))
       <=> (wrote # <<>> /\ Head(wrote) = 1))

(***************************************************************************)
(* fifth.c:68-75, lab_04.c:52-59.  In whatever pieces, the two reads take  *)
(* all that was written, in its order: nothing is left in the pipe, and    *)
(* the third read of lab_04.c gets nothing, whatever its length is.        *)
(***************************************************************************)
TwoReadsTakeAll ==
  Len(reads) >= 2 =>
    /\ reads[1] \o reads[2] = FlattenSeq([n \in DOMAIN wrote |-> Message(wrote[n])])
    /\ Len(reads) = 3 => reads[3] = <<>>

(***************************************************************************)
(* fifth.c:65, lab_04.c:49.  All processes come to their end: no read      *)
(* waits for a write that will not come, because nobody has kept the       *)
(* writing end, and no child waits for a signal for ever.                  *)
(***************************************************************************)
EverybodyEnds == <>Over
=============================================================================

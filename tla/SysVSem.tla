------------------------------- MODULE SysVSem -------------------------------
(***************************************************************************)
(* The effect of semop(2) on a System V semaphore set, as the lab_03       *)
(* programs use it.  A set is a function from semaphore numbers to         *)
(* naturals.  A struct sembuf is a record with the semaphore's number and  *)
(* the operation: a negative operation waits until the value can be        *)
(* lowered, zero waits for the value to be zero, a positive one never      *)
(* waits.  The kernel applies an array of operations in order and all or   *)
(* nothing: a later operation sees the effect of the earlier ones of the   *)
(* same call, and nobody sees a part of them.                              *)
(***************************************************************************)
EXTENDS Integers

\* #define p -1, #define v 1
P == -1
V == 1

sembuf(sem_num, sem_op) == [num |-> sem_num, op |-> sem_op]

\* The operation b does not make its caller wait when the set is s.
Passes(s, b) ==
  IF b.op = 0 THEN s[b.num] = 0 ELSE s[b.num] + b.op >= 0

Apply(s, b) == [s EXCEPT ![b.num] = @ + b.op]

(***************************************************************************)
(* semop(semid, b, n) for the array lengths n of the programs: whether the *)
(* call goes through at once, and the set it leaves.                       *)
(***************************************************************************)
CanSemop1(s, b) == Passes(s, b[1])
Semop1(s, b) == Apply(s, b[1])

CanSemop2(s, b) == Passes(s, b[1]) /\ Passes(Apply(s, b[1]), b[2])
Semop2(s, b) == Apply(Apply(s, b[1]), b[2])

CanSemop5(s, b) ==
  LET s2 == Semop2(s, b)
      s3 == Apply(s2, b[3])
      s4 == Apply(s3, b[4])
  IN  /\ CanSemop2(s, b)
      /\ Passes(s2, b[3])
      /\ Passes(s3, b[4])
      /\ Passes(s4, b[5])
Semop5(s, b) == Apply(Apply(Apply(Semop2(s, b), b[3]), b[4]), b[5])
=============================================================================

------------------------- MODULE CalcThread_proofs -------------------------
(***************************************************************************)
(* For any clients, any number of calls and any operations and arguments:  *)
(* the service routine of RPC/calc frees the data it shares with its       *)
(* detached thread only after that thread's last touch of it, and a client *)
(* prints the answer to its own request.                                   *)
(***************************************************************************)
EXTENDS CalcThread, TLAPS

\* Where the routine is before the thread exists, while it may exist, and when
\* it has the result.
Preparing == {"mutex_init", "cond_init", "create"}
Waiting == {"lock", "while", "cond_wait", "asleep", "woken", "unlock"}
Destroying == {"destroy_mutex", "destroy_cond", "free"}

\* What there is of the data goes by where the routine is.
HeldInv ==
  /\ svc \in {"svc_run", "malloc", "reply"} => held = {}
  /\ svc = "mutex_init" => held = {"block"}
  /\ svc = "cond_init" => held = {"block", "mutex"}
  /\ svc \in Waiting \cup {"create", "read", "destroy_mutex"} => held = Parts
  /\ svc = "destroy_cond" => held = {"block", "cond"}
  /\ svc = "free" => held = {"block"}

\* So does the owner of the mutex, with where the thread is.
OwnerInv ==
  /\ mutex = "routine" <=> svc \in {"while", "cond_wait", "unlock"}
  /\ mutex = "thread" <=> thr \in {"done", "signal", "unlock"}

\* is_done is set by the thread, with the mutex, before its last two calls;
\* the routine leaves its loop only with the mutex and having seen it.
ThreadInv ==
  /\ thr # "none" => svc \in Waiting
  /\ svc \in Preparing => ~data.is_done
  /\ svc \in Waiting => (data.is_done <=> thr \in {"none", "signal", "unlock"})
  /\ svc = "unlock" => data.is_done

\* res is an answer to the request r, the call n of client c.
Fits(c, n, r, res) == res = Compute(r) \/ (res = 0 /\ <<c, n>> \in short)

\* What the routine has for the request in service.
AnswerInv ==
  /\ \A d, e \in serving : d = e
  /\ svc = "svc_run" => serving = {}
  /\ svc \in Preparing \cup Waiting \cup {"read"} => \A d \in serving : data.arg = d.arg
  /\ svc \in Waiting \cup {"read"} /\ thr # "compute" => data.result = Compute(data.arg)
  /\ svc \in Destroying \cup {"reply"} => \A d \in serving : Fits(d.from, d.call, d.arg, result)

\* The call n of client c, whose argument is r: if it is the current one, c
\* has sent it, has not left it yet, and still has r in its request.
Current(c, n, r) ==
  /\ n <= i[c]
  /\ n = i[c] => pc[c] \in {"wait", "print"} /\ r = args[c]

Sent(d) ==
  /\ d.from \in Client /\ d.call \in 0 .. CALLS - 1 /\ d.arg \in Arguments
  /\ Current(d.from, d.call, d.arg)
Answered(a) ==
  /\ a.to \in Client /\ a.call \in 0 .. CALLS - 1 /\ a.res \in Int
  /\ \E r \in Arguments : Current(a.to, a.call, r) /\ Fits(a.to, a.call, r, a.res)

MessagesInv ==
  (\A d \in requests \cup serving : Sent(d)) /\ (\A a \in replies : Answered(a))

\* A client in a call has calls left to make.
LoopInv == \A c \in Client : pc[c] \in {"wait", "print"} => i[c] < CALLS

ServerInv == HeldInv /\ OwnerInv /\ ThreadInv /\ AnswerInv
ClientsInv == MessagesInv /\ LoopInv /\ PrintsItsAnswer

IInv == TypeOK /\ ServerInv /\ ClientsInv
-----------------------------------------------------------------------------
(* The operators. *)

\* The thread computes a number for every request.
LEMMA ComputeInt == \A r \in Arguments : Compute(r) \in Int
<1> SUFFICES ASSUME NEW r \in Arguments
             PROVE  Compute(r) \in Int
  OBVIOUS
<1>1. r.arg1 \in Int /\ r.arg2 \in Int /\ r.arg2 > 0
  <2>1. r.arg1 \in ARGS1 /\ r.arg2 \in ARGS2
    BY DEF Arguments
  <2>2. (\A a \in ARGS1 : a \in Int) /\ (\A b \in ARGS2 : b \in Int /\ b > 0)
    BY CalcThreadAssumption
  <2> QED
    BY <2>1, <2>2
<1>2. /\ r.arg1 + r.arg2 \in Int /\ r.arg1 - r.arg2 \in Int
      /\ r.arg1 * r.arg2 \in Int /\ r.arg1 \div r.arg2 \in Int /\ 0 \in Int
  BY <1>1
<1> QED
  BY <1>2 DEF Compute

\* There are arguments to fill the unused data with.
LEMMA BlankTyped == Blank \in [arg : Arguments, result : Int, is_done : BOOLEAN]
<1>1. PICK o \in OPS, a \in ARGS1, b \in ARGS2 : TRUE
  BY CalcThreadAssumption
<1>2. [op |-> o, arg1 |-> a, arg2 |-> b] \in Arguments
  BY DEF Arguments
<1>3. (CHOOSE r \in Arguments : TRUE) \in Arguments
  BY <1>2
<1> QED
  BY <1>3 DEF Blank

\* An answer fits as long as failures are not forgotten.
LEMMA FitsStill ==
  ASSUME short \subseteq short', NEW c, NEW n, NEW r, NEW res, Fits(c, n, r, res)
  PROVE  Fits(c, n, r, res)'
BY DEF Fits

\* The invariant holds when the server and the clients are started.
LEMMA Initially ==
  ASSUME Init
  PROVE  IInv
<1>1. CALLS \in Nat
  BY CalcThreadAssumption
<1>2. Blank.arg \in Arguments
  BY BlankTyped
<1>3. TypeOK
  BY <1>1, <1>2, BlankTyped DEF Init, TypeOK, Owners
<1>4. ServerInv
  BY DEF Init, RpcInit, ServerInv, HeldInv, OwnerInv, ThreadInv, AnswerInv, Preparing, Waiting
<1>5. ClientsInv
  BY DEF Init, RpcInit, ClientsInv, MessagesInv, LoopInv, PrintsItsAnswer
<1> QED
  BY <1>3, <1>4, <1>5 DEF IInv
-----------------------------------------------------------------------------
(* The service routine and its thread. *)

\* A step of the server that is not a message leaves the clients' part.
LEMMA ClientsKept ==
  ASSUME IInv, UNCHANGED <<clients, net>>, short \subseteq short'
  PROVE  ClientsInv'
<1>1. \A d \in requests \cup serving : Sent(d)'
  BY DEF IInv, ClientsInv, MessagesInv, Sent, Current, clients, net
<1>2. ASSUME NEW a \in replies
      PROVE  Answered(a)'
  <2>1. /\ a.to \in Client /\ a.call \in 0 .. CALLS - 1 /\ a.res \in Int
        /\ \E r \in Arguments : Current(a.to, a.call, r) /\ Fits(a.to, a.call, r, a.res)
    BY DEF IInv, ClientsInv, MessagesInv, Answered
  <2>2. PICK r \in Arguments : Current(a.to, a.call, r) /\ Fits(a.to, a.call, r, a.res)
    BY <2>1
  <2>3. Current(a.to, a.call, r)' /\ Fits(a.to, a.call, r, a.res)'
    BY <2>2, FitsStill DEF Current, clients
  <2> QED
    BY <2>1, <2>3 DEF Answered
<1>3. MessagesInv'
  BY <1>1, <1>2 DEF MessagesInv, net
<1>4. LoopInv' /\ PrintsItsAnswer'
  BY DEF IInv, ClientsInv, LoopInv, PrintsItsAnswer, clients
<1> QED
  BY <1>3, <1>4 DEF ClientsInv

\* The steps up to pthread_create(), and the one that gives up.
LEMMA PreparationKeepsIInv ==
  ASSUME IInv, Malloc \/ MutexInit \/ CondInit \/ CreateThread \/ GiveUp
  PROVE  IInv'
<1> USE DEF IInv, ServerInv
<1>1. \A d \in serving : d.arg \in Arguments /\ <<d.from, d.call>> \in Client \X (0 .. CALLS - 1)
  BY DEF ClientsInv, MessagesInv, Sent
<1>2. thr = "none" /\ mutex = "nobody"
  <2>1. svc \in {"malloc"} \cup Preparing
    BY DEF Malloc, MutexInit, CondInit, CreateThread, GiveUp, Undone, Goes, Preparing
  <2> QED
    BY <2>1 DEF TypeOK, Owners, OwnerInv, ThreadInv, Preparing, Waiting
<1>3. UNCHANGED <<clients, net>> /\ short \subseteq short'
  BY DEF Malloc, MutexInit, CondInit, CreateThread, GiveUp, Goes, shared
<1>4. ClientsInv'
  BY <1>3, ClientsKept
<1>5. CASE Malloc
  <2>1. PICK d \in serving : data' = [Blank EXCEPT !.arg = d.arg]
    BY <1>5 DEF Malloc
  <2>2. /\ data' \in [arg : Arguments, result : Int, is_done : BOOLEAN]
        /\ ~data'.is_done /\ data'.arg = d.arg
    BY <1>1, <2>1, BlankTyped DEF Blank
  <2>3. TypeOK'
    BY <1>5, <2>2 DEF Malloc, Goes, clients, TypeOK, Parts
  <2>4. AnswerInv'
    BY <1>5, <2>2 DEF Malloc, Goes, net, AnswerInv, Preparing, Waiting, Destroying
  <2> QED
    BY <1>2, <1>4, <1>5, <2>2, <2>3, <2>4
       DEF Malloc, Goes, HeldInv, OwnerInv, ThreadInv, Preparing, Waiting
<1>6. CASE MutexInit \/ CondInit
  <2>1. TypeOK'
    BY <1>6 DEF MutexInit, CondInit, Goes, clients, TypeOK, Parts, Owners
  <2>2. HeldInv'
    BY <1>6 DEF MutexInit, CondInit, Goes, HeldInv, Parts, Waiting
  <2>3. OwnerInv' /\ ThreadInv'
    BY <1>2, <1>6 DEF MutexInit, CondInit, Goes, OwnerInv, ThreadInv, Preparing, Waiting
  <2>4. AnswerInv'
    BY <1>6 DEF MutexInit, CondInit, Goes, net, AnswerInv, Preparing, Waiting, Destroying
  <2> QED
    BY <1>4, <2>1, <2>2, <2>3, <2>4
<1>7. CASE CreateThread
  <2>1. TypeOK'
    BY <1>7 DEF CreateThread, Goes, clients, shared, TypeOK
  <2>2. HeldInv' /\ OwnerInv' /\ ThreadInv'
    BY <1>2, <1>7 DEF CreateThread, Goes, shared, HeldInv, OwnerInv, ThreadInv, Preparing, Waiting
  <2>3. AnswerInv'
    BY <1>7 DEF CreateThread, Goes, shared, net, AnswerInv, Preparing, Waiting, Destroying
  <2> QED
    BY <1>4, <2>1, <2>2, <2>3
<1>8. CASE GiveUp
  <2>1. svc' = "reply" /\ held' = {}
    <3>1. PICK l \in {"malloc", "mutex_init", "cond_init", "create"} :
            Goes(l, "reply") /\ held' = held \ Undone[l]
      BY <1>8 DEF GiveUp, Undone
    <3>2. held \subseteq Undone[l]
      BY <3>1 DEF Goes, HeldInv, Undone, Parts
    <3> QED
      BY <3>1, <3>2 DEF Goes
  <2>2. TypeOK'
    BY <1>1, <1>8, <2>1, BlankTyped DEF GiveUp, Goes, clients, TypeOK
  <2>3. HeldInv' /\ OwnerInv' /\ ThreadInv'
    BY <1>2, <1>8, <2>1 DEF GiveUp, Goes, HeldInv, OwnerInv, ThreadInv, Preparing, Waiting
  <2>4. AnswerInv'
    BY <1>8, <2>1 DEF GiveUp, Goes, net, AnswerInv, Preparing, Waiting, Destroying, Fits
  <2> QED
    BY <1>4, <2>2, <2>3, <2>4
<1> QED
  BY <1>5, <1>6, <1>7, <1>8

\* The wait for the thread: the mutex, the loop and the condition.
LEMMA WaitKeepsIInv ==
  ASSUME IInv,
         \/ LockData("lock") \/ LockData("woken") \/ TestDone \/ CondWait
         \/ SpuriousWakeup \/ UnlockData
  PROVE  IInv'
<1> USE DEF IInv, ServerInv
<1>1. UNCHANGED <<clients, net, thr, data, held, result, short>>
  BY DEF LockData, TestDone, CondWait, SpuriousWakeup, UnlockData, Goes, shared
<1>2. ClientsInv'
  BY <1>1, ClientsKept
<1>3. svc \in Waiting /\ svc' \in Waiting \cup {"read"}
  BY DEF LockData, TestDone, CondWait, SpuriousWakeup, UnlockData, Goes, Waiting
<1>4. TypeOK'
  BY <1>1, <1>3 DEF LockData, TestDone, CondWait, SpuriousWakeup, UnlockData, Goes, shared,
                    clients, TypeOK, Owners, Waiting
<1>5. HeldInv'
  BY <1>1, <1>3 DEF HeldInv, Waiting
<1>6. OwnerInv'
  BY <1>1 DEF LockData, TestDone, CondWait, SpuriousWakeup, UnlockData, Goes, shared,
              OwnerInv, TypeOK
<1>7. ThreadInv'
  <2>1. CASE UnlockData
    <3>1. mutex = "routine" /\ data.is_done /\ svc' = "read"
      BY <2>1 DEF UnlockData, Goes, OwnerInv, ThreadInv
    <3>2. thr = "none"
      BY <1>3, <3>1 DEF OwnerInv, ThreadInv
    <3> QED
      BY <1>1, <3>1, <3>2 DEF ThreadInv, Preparing, Waiting
  <2>2. CASE ~UnlockData
    <3>1. svc' \in Waiting /\ (svc' = "unlock" => data.is_done)
      BY <2>2 DEF LockData, TestDone, CondWait, SpuriousWakeup, Goes, Waiting
    <3> QED
      BY <1>1, <1>3, <3>1 DEF ThreadInv, Preparing, Waiting
  <2> QED
    BY <2>1, <2>2
<1>8. AnswerInv'
  BY <1>1, <1>3 DEF AnswerInv, Preparing, Waiting, Destroying, net
<1> QED
  BY <1>2, <1>4, <1>5, <1>6, <1>7, <1>8

\* The result is read, and the data is destroyed.
LEMMA ReturnKeepsIInv ==
  ASSUME IInv, ReadResult \/ DestroyData
  PROVE  IInv'
<1> USE DEF IInv, ServerInv
<1>1. UNCHANGED <<clients, net, thr, mutex, short>>
  BY DEF ReadResult, DestroyData, Drop, Goes, shared
<1>2. ClientsInv'
  BY <1>1, ClientsKept
<1>3. TypeOK'
  BY <1>1, BlankTyped DEF ReadResult, DestroyData, Drop, Goes, shared, clients, TypeOK
<1>4. thr = "none"
  BY DEF ReadResult, DestroyData, Drop, Goes, ThreadInv, Waiting
<1>5. HeldInv' /\ OwnerInv' /\ ThreadInv'
  BY <1>1, <1>4 DEF ReadResult, DestroyData, Drop, Goes, shared, HeldInv, OwnerInv, ThreadInv,
                    Parts, Preparing, Waiting
<1>6. AnswerInv'
  <2>1. CASE ReadResult
    <3>1. result' = data.result /\ data.result = Compute(data.arg) /\ svc' = "destroy_mutex"
      BY <1>4, <2>1 DEF ReadResult, Goes, AnswerInv
    <3>2. \A d \in serving : data.arg = d.arg
      BY <2>1 DEF ReadResult, Goes, AnswerInv
    <3> QED
      BY <1>1, <3>1, <3>2 DEF AnswerInv, Fits, Preparing, Waiting, net
  <2>2. CASE DestroyData
    <3>1. svc \in Destroying /\ svc' \in Destroying \cup {"reply"} /\ result' = result
      BY <2>2 DEF DestroyData, Drop, Goes, Destroying
    <3> QED
      BY <1>1, <3>1 DEF AnswerInv, Fits, Preparing, Waiting, Destroying, net
  <2> QED
    BY <2>1, <2>2
<1> QED
  BY <1>2, <1>3, <1>5, <1>6

\* The thread: it touches the data only while the routine waits for it.
LEMMA ThreadKeepsIInv ==
  ASSUME IInv, Thread
  PROVE  IInv'
<1> USE DEF IInv, ServerInv
<1>1. UNCHANGED <<clients, net, held, result, short>>
  BY DEF Thread, ComputeResult, LockForDone, SetDone, Signal, UnlockAndReturn, ThreadGoes
<1>2. ClientsInv'
  BY <1>1, ClientsKept
<1>3. svc \in Waiting
  BY DEF Thread, ComputeResult, LockForDone, SetDone, Signal, UnlockAndReturn, ThreadGoes, ThreadInv
<1>4. svc' = svc \/ (svc = "asleep" /\ svc' = "woken")
  BY DEF Thread, ComputeResult, LockForDone, SetDone, Signal, UnlockAndReturn, ThreadGoes
<1>5. data.arg \in Arguments /\ Compute(data.arg) \in Int
  BY ComputeInt DEF TypeOK
<1>6. TypeOK'
  <2>1. /\ thr' \in {"none", "compute", "lock", "done", "signal", "unlock"}
        /\ mutex' \in Owners /\ data' \in [arg : Arguments, result : Int, is_done : BOOLEAN]
    BY <1>5 DEF Thread, ComputeResult, LockForDone, SetDone, Signal, UnlockAndReturn,
                ThreadGoes, TypeOK, Owners
  <2> QED
    BY <1>1, <1>3, <1>4, <2>1 DEF TypeOK, clients, Waiting
<1>7. HeldInv'
  BY <1>1, <1>3, <1>4 DEF HeldInv, Waiting
<1>8. OwnerInv'
  BY <1>4 DEF Thread, ComputeResult, LockForDone, SetDone, Signal, UnlockAndReturn, ThreadGoes,
              OwnerInv
<1>9. ThreadInv'
  BY <1>3, <1>4 DEF Thread, ComputeResult, LockForDone, SetDone, Signal, UnlockAndReturn,
              ThreadGoes, TypeOK, ThreadInv, Preparing, Waiting
<1>10. AnswerInv'
  <2>1. data'.arg = data.arg
    BY DEF Thread, ComputeResult, LockForDone, SetDone, Signal, UnlockAndReturn, ThreadGoes, TypeOK
  <2>2. thr' # "compute" => data'.result = Compute(data.arg)
    BY <1>3 DEF Thread, ComputeResult, LockForDone, SetDone, Signal, UnlockAndReturn, ThreadGoes,
                TypeOK, AnswerInv
  <2> QED
    BY <1>1, <1>3, <1>4, <2>1, <2>2 DEF AnswerInv, Preparing, Waiting, Destroying, net
<1> QED
  BY <1>2, <1>6, <1>7, <1>8, <1>9, <1>10
-----------------------------------------------------------------------------
(* The dispatcher. *)

\* A request is taken: over UDP another copy of it may stay on its way.
LEMMA ServeKeepsIInv ==
  ASSUME IInv, NEW d \in requests, Serve(d)
  PROVE  IInv'
<1> USE DEF IInv, ServerInv
<1>1. /\ serving' = {d} /\ requests' \subseteq requests /\ svc = "svc_run" /\ svc' = "malloc"
      /\ UNCHANGED <<clients, thr, shared, result, short, replies>>
  BY DEF Serve, Dispatch, Received
<1>2. TypeOK'
  BY <1>1 DEF TypeOK, clients, shared
<1>3. HeldInv' /\ OwnerInv' /\ ThreadInv'
  BY <1>1 DEF shared, HeldInv, OwnerInv, ThreadInv, Preparing, Waiting
<1>4. AnswerInv'
  BY <1>1 DEF AnswerInv, Preparing, Waiting, Destroying
<1>5. MessagesInv'
  <2>1. \A e \in requests : Sent(e)'
    BY <1>1 DEF ClientsInv, MessagesInv, Sent, Current, clients
  <2>2. \A a \in replies : Answered(a)'
    BY <1>1 DEF ClientsInv, MessagesInv, Answered, Current, Fits, clients
  <2> QED
    BY <1>1, <2>1, <2>2 DEF MessagesInv
<1>6. LoopInv' /\ PrintsItsAnswer'
  BY <1>1 DEF ClientsInv, LoopInv, PrintsItsAnswer, clients
<1> QED
  BY <1>2, <1>3, <1>4, <1>5, <1>6 DEF ClientsInv

\* The static result is sent to the caller of the request in service.
LEMMA ReplyKeepsIInv ==
  ASSUME IInv, Reply
  PROVE  IInv'
<1> USE DEF IInv, ServerInv
<1>1. /\ svc = "reply" /\ svc' = "svc_run" /\ serving' = {}
      /\ replies' = replies \cup {ReplyTo(d, result) : d \in serving}
      /\ UNCHANGED <<clients, thr, shared, result, short, requests>>
  BY DEF Reply, SendReply
<1>2. TypeOK'
  BY <1>1 DEF TypeOK, clients, shared
<1>3. HeldInv' /\ OwnerInv' /\ ThreadInv'
  BY <1>1 DEF shared, HeldInv, OwnerInv, ThreadInv, Preparing, Waiting
<1>4. AnswerInv'
  BY <1>1 DEF AnswerInv, Preparing, Waiting, Destroying
<1>5. ASSUME NEW d \in serving
      PROVE  Answered(ReplyTo(d, result))'
  <2>1. /\ d.from \in Client /\ d.call \in 0 .. CALLS - 1 /\ d.arg \in Arguments
        /\ Current(d.from, d.call, d.arg)
    BY DEF ClientsInv, MessagesInv, Sent
  <2>2. Fits(d.from, d.call, d.arg, result) /\ result \in Int
    BY <1>1 DEF AnswerInv, TypeOK
  <2>3. Current(d.from, d.call, d.arg)' /\ Fits(d.from, d.call, d.arg, result)'
    BY <1>1, <2>1, <2>2 DEF Current, Fits, clients
  <2> QED
    BY <1>1, <2>1, <2>2, <2>3 DEF Answered, ReplyTo
<1>6. MessagesInv'
  <2>1. \A e \in requests : Sent(e)'
    BY <1>1 DEF ClientsInv, MessagesInv, Sent, Current, clients
  <2>2. \A a \in replies : Answered(a)'
    BY <1>1 DEF ClientsInv, MessagesInv, Answered, Current, Fits, clients
  <2> QED
    BY <1>1, <1>5, <2>1, <2>2 DEF MessagesInv
<1>7. LoopInv' /\ PrintsItsAnswer'
  BY <1>1 DEF ClientsInv, LoopInv, PrintsItsAnswer, clients
<1> QED
  BY <1>2, <1>3, <1>4, <1>6, <1>7 DEF ClientsInv
-----------------------------------------------------------------------------
(* The clients. *)

\* A step of a client leaves every call current, but the one it ends.
LEMMA CurrentKept ==
  ASSUME TypeOK, NEW c \in Client, ClientProcess(c),
         NEW e \in Client, NEW n \in 0 .. CALLS - 1, NEW r, Current(e, n, r)
  PROVE  Current(e, n, r)'
<1>1. i[e] \in Int /\ i[c] \in Int /\ n \in Int
  BY CalcThreadAssumption DEF TypeOK
<1>2. CASE e # c
  BY <1>1, <1>2 DEF ClientProcess, ClntCreate, Call, Decode, NextRound, Step, TypeOK, Current
<1>3. CASE e = c /\ (ClntCreate(c) \/ Decode(c))
  BY <1>1, <1>3 DEF ClntCreate, Decode, Step, TypeOK, Current
<1>4. CASE e = c /\ Call(c)
  BY <1>1, <1>4 DEF Call, Step, TypeOK, Current
<1>5. CASE e = c /\ NextRound(c)
  BY <1>1, <1>5 DEF NextRound, Step, TypeOK, Current
<1> QED
  BY <1>2, <1>3, <1>4, <1>5 DEF ClientProcess

\* The messages on their way stay what they are, and the new request is sound.
LEMMA ClientMessages ==
  ASSUME IInv, NEW c \in Client, ClientProcess(c)
  PROVE  MessagesInv'
<1> USE DEF IInv, ClientsInv
<1>1. CALLS \in Nat
  BY CalcThreadAssumption
<1>2. UNCHANGED <<serving, short>> /\ replies' \subseteq replies
  BY DEF ClientProcess, ClntCreate, Call, Decode, NextRound, Step, routine, net,
         SendRequest, AcceptReply, Received
<1>3. ASSUME NEW d \in requests \cup serving
      PROVE  Sent(d)'
  <2>1. /\ d.from \in Client /\ d.call \in 0 .. CALLS - 1 /\ d.arg \in Arguments
        /\ Current(d.from, d.call, d.arg)
    BY DEF MessagesInv, Sent
  <2>2. Current(d.from, d.call, d.arg)'
    BY <2>1, CurrentKept
  <2> QED
    BY <2>1, <2>2 DEF Sent
<1>4. ASSUME NEW a \in replies
      PROVE  Answered(a)'
  <2>1. /\ a.to \in Client /\ a.call \in 0 .. CALLS - 1 /\ a.res \in Int
        /\ \E r \in Arguments : Current(a.to, a.call, r) /\ Fits(a.to, a.call, r, a.res)
    BY DEF MessagesInv, Answered
  <2>2. PICK r \in Arguments : Current(a.to, a.call, r) /\ Fits(a.to, a.call, r, a.res)
    BY <2>1
  <2>3. Current(a.to, a.call, r)'
    BY <2>1, <2>2, CurrentKept
  <2>4. Fits(a.to, a.call, r, a.res)'
    BY <1>2, <2>2, FitsStill
  <2> QED
    BY <2>1, <2>3, <2>4 DEF Answered
<1>5. ASSUME NEW d \in requests', d \notin requests
      PROVE  Sent(d)'
  <2>1. Call(c)
    BY <1>5 DEF ClientProcess, ClntCreate, Decode, NextRound, net, AcceptReply
  <2>2. PICK r \in Arguments :
          args' = [args EXCEPT ![c] = r] /\ SendRequest(c, i[c], r)
    BY <2>1 DEF Call
  <2>3. d = Request(c, i[c], r)
    BY <1>5, <2>2 DEF SendRequest
  <2>4. i[c] \in 0 .. CALLS - 1 /\ i' = i /\ pc'[c] = "wait" /\ args'[c] = r
    BY <1>1, <2>1, <2>2 DEF Call, Step, TypeOK
  <2>5. Current(c, i[c], r)'
    BY <1>1, <2>4 DEF Current
  <2> QED
    BY <2>3, <2>4, <2>5 DEF Sent, Request
<1> QED
  BY <1>2, <1>3, <1>4, <1>5 DEF MessagesInv

\* A step of a client keeps the invariant.
LEMMA ClientKeepsIInv ==
  ASSUME IInv, NEW c \in Client, ClientProcess(c)
  PROVE  IInv'
<1> USE DEF IInv, ClientsInv
<1>1. CALLS \in Nat /\ \A e \in Client : i[e] \in 0 .. CALLS
  BY CalcThreadAssumption DEF TypeOK
<1>2. MessagesInv'
  BY ClientMessages
<1>3. UNCHANGED <<routine, serving>>
  BY DEF ClientProcess, ClntCreate, Call, Decode, NextRound, Step, net, SendRequest, AcceptReply
<1>4. ServerInv'
  BY <1>3 DEF routine, shared, ServerInv, HeldInv, OwnerInv, ThreadInv, AnswerInv, Fits
<1>5. CASE ClntCreate(c)
  <2>1. TypeOK'
    BY <1>3, <1>5 DEF ClntCreate, Step, routine, shared, TypeOK
  <2>2. LoopInv' /\ PrintsItsAnswer'
    BY <1>5 DEF ClntCreate, Step, routine, TypeOK, LoopInv, PrintsItsAnswer
  <2> QED
    BY <1>2, <1>4, <2>1, <2>2
<1>6. CASE Call(c)
  <2>1. TypeOK'
    BY <1>3, <1>6 DEF Call, Step, routine, shared, TypeOK
  <2>2. LoopInv'
    BY <1>1, <1>6 DEF Call, Step, TypeOK, LoopInv
  <2>3. PrintsItsAnswer'
    BY <1>3, <1>6 DEF Call, Step, routine, TypeOK, PrintsItsAnswer
  <2> QED
    BY <1>2, <1>4, <2>1, <2>2, <2>3
<1>7. CASE Decode(c)
  <2>1. PICK a \in replies :
          AcceptReply(a, c, i[c]) /\ clnt_res' = [clnt_res EXCEPT ![c] = a.res]
    BY <1>7 DEF Decode
  <2>2. a.to = c /\ a.call = i[c] /\ a.res \in Int
    BY <2>1 DEF AcceptReply, MessagesInv, Answered
  <2>3. Fits(c, i[c], args[c], a.res)
    BY <2>2 DEF MessagesInv, Answered, Current
  <2>4. TypeOK'
    BY <1>3, <1>7, <2>1, <2>2 DEF Decode, Step, routine, shared, TypeOK
  <2>5. LoopInv'
    BY <1>1, <1>7 DEF Decode, Step, TypeOK, LoopInv
  <2>6. PrintsItsAnswer'
    BY <1>3, <1>7, <2>1, <2>3 DEF Decode, Step, routine, TypeOK, PrintsItsAnswer, Fits
  <2> QED
    BY <1>2, <1>4, <2>4, <2>5, <2>6
<1>8. CASE NextRound(c)
  <2>1. i[c] + 1 \in 0 .. CALLS
    BY <1>1, <1>8 DEF NextRound, Step, LoopInv
  <2>2. i' \in [Client -> 0 .. CALLS]
    BY <1>8, <2>1 DEF NextRound, TypeOK
  <2>3. TypeOK'
    BY <1>3, <1>8, <2>2 DEF NextRound, Step, routine, shared, TypeOK
  <2>4. LoopInv'
    BY <1>1, <1>8 DEF NextRound, Step, TypeOK, LoopInv
  <2>5. PrintsItsAnswer'
    BY <1>3, <1>8 DEF NextRound, Step, routine, TypeOK, PrintsItsAnswer
  <2> QED
    BY <1>2, <1>4, <2>3, <2>4, <2>5
<1> QED
  BY <1>5, <1>6, <1>7, <1>8 DEF ClientProcess
-----------------------------------------------------------------------------
(***************************************************************************)
(* The inductive invariant of the server with the detached thread and its  *)
(* clients: who owns the mutex and what is left of the data follow from    *)
(* where the routine and the thread are, and every answer on its way fits  *)
(* the call it names.                                                      *)
(***************************************************************************)
THEOREM Invariance == Spec => []IInv
<1>1. Init => IInv
  BY Initially
<1>2. IInv /\ [Next]_vars => IInv'
  <2> SUFFICES ASSUME IInv, [Next]_vars
               PROVE  IInv'
    OBVIOUS
  <2>1. CASE UNCHANGED vars
    BY <2>1 DEF vars, clients, routine, shared, net, IInv, TypeOK, ServerInv, HeldInv, OwnerInv,
                ThreadInv, AnswerInv, ClientsInv, MessagesInv, LoopInv, PrintsItsAnswer,
                Sent, Answered, Current, Fits
  <2>2. CASE Next
    <3>1. CASE Terminated
      BY <2>1, <3>1 DEF Terminated
    <3>2. CASE Routine
      BY <3>2, PreparationKeepsIInv, WaitKeepsIInv, ReturnKeepsIInv, ReplyKeepsIInv DEF Routine
    <3> QED
      BY <2>2, <3>1, <3>2, ClientKeepsIInv, ServeKeepsIInv, WaitKeepsIInv, ThreadKeepsIInv
         DEF Next
  <2> QED
    BY <2>1, <2>2
<1> QED
  BY <1>1, <1>2, PTL DEF Spec

(***************************************************************************)
(* calculator_server.c:43-48, 57-106: the routine frees the data only      *)
(* after the detached thread's last touch of it, destroys the mutex        *)
(* unlocked, and leaves nothing behind.                                    *)
(***************************************************************************)
THEOREM DataIsFreedLast == Spec => []DataOutlivesThread
<1>1. IInv => DataOutlivesThread
  <2> SUFFICES ASSUME IInv
               PROVE  DataOutlivesThread
    OBVIOUS
  <2>1. thr # "none" => held = Parts
    BY DEF IInv, ServerInv, ThreadInv, HeldInv
  <2>2. "mutex" \notin held => mutex = "nobody"
    BY DEF IInv, TypeOK, ServerInv, HeldInv, OwnerInv, ThreadInv, Owners, Parts, Waiting
  <2>3. held # {} => "block" \in held
    BY DEF IInv, TypeOK, ServerInv, HeldInv, Parts, Waiting
  <2>4. svc \in {"svc_run", "reply"} => held = {}
    BY DEF IInv, ServerInv, HeldInv
  <2> QED
    BY <2>1, <2>2, <2>3, <2>4 DEF DataOutlivesThread
<1> QED
  BY <1>1, Invariance, PTL

\* calculator_server.c:99-104, calculator_client.c:45-52: whatever the network
\* does and however the routine is woken, no client prints another answer
\* than its own, or than 0 after a failure of the server.
THEOREM ClientsPrintTheirAnswers == Spec => []PrintsItsAnswer
<1>1. IInv => PrintsItsAnswer
  BY DEF IInv, ClientsInv
<1> QED
  BY <1>1, Invariance, PTL

\* While the routine is on its way into pthread_cond_wait(), or asleep in it,
\* the signal of the thread is still to come.
SignalToCome ==
  svc \in {"cond_wait", "asleep"} => thr \in {"compute", "lock", "done", "signal"}

(***************************************************************************)
(* calculator_server.c:43-46, 99-101: no wake-up is lost, because is_done  *)
(* is set, and tested before the wait, with the mutex taken.  This is the  *)
(* part of RoutineReturns that fairness cannot give.                       *)
(***************************************************************************)
THEOREM NoWakeupIsLost == Spec => []SignalToCome
<1>1. Init => SignalToCome
  BY DEF Init, SignalToCome
<1>2. IInv /\ SignalToCome /\ [Next]_vars => SignalToCome'
  <2> SUFFICES ASSUME IInv, SignalToCome, [Next]_vars, svc' \in {"cond_wait", "asleep"}
               PROVE  thr' \in {"compute", "lock", "done", "signal"}
    BY DEF SignalToCome
  <2>1. OwnerInv /\ ThreadInv /\ TypeOK
    BY DEF IInv, ServerInv
  <2>2. CASE Thread
    \* The signal finds the routine asleep and wakes it, since the thread has
    \* the mutex and so the routine is not between its test and its wait.
    <3>1. svc \in {"cond_wait", "asleep"} /\ svc' = svc
      BY <2>2 DEF Thread, ComputeResult, LockForDone, SetDone, Signal, UnlockAndReturn,
                  ThreadGoes
    <3>2. ~Signal
      BY <2>1, <3>1 DEF Signal, ThreadGoes, OwnerInv
    <3> QED
      BY <2>2, <3>1, <3>2
         DEF Thread, ComputeResult, LockForDone, SetDone, UnlockAndReturn, ThreadGoes, SignalToCome
  <2>3. CASE TestDone
    <3>1. ~data.is_done /\ svc \in Waiting /\ thr' = thr
      BY <2>3 DEF TestDone, Goes, Waiting
    <3> QED
      BY <2>1, <3>1 DEF ThreadInv, TypeOK
  <2>4. CASE UNCHANGED <<svc, thr>> \/ CondWait
    BY <2>4 DEF CondWait, Goes, SignalToCome
  <2>5. [Next]_vars => \/ Thread \/ TestDone \/ CondWait \/ UNCHANGED <<svc, thr>>
                       \/ svc' \notin {"cond_wait", "asleep"}
    BY DEF Next, vars, clients, routine, shared, Terminated, ClientProcess, ClntCreate, Call, Decode,
           NextRound, Step, Serve, Routine, Malloc, MutexInit, CondInit, CreateThread, GiveUp,
           LockData, UnlockData, ReadResult, DestroyData, Drop, Reply, SpuriousWakeup, Goes
  <2> QED
    BY <2>2, <2>3, <2>4, <2>5
<1> QED
  BY <1>1, <1>2, Invariance, PTL DEF Spec

\* calculator_server.c, calculator_client.c: every variable keeps its type.
THEOREM TypeCorrectness == Spec => []TypeOK
<1>1. IInv => TypeOK
  BY DEF IInv
<1> QED
  BY <1>1, Invariance, PTL
=============================================================================

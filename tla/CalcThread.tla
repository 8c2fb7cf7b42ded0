----------------------------- MODULE CalcThread -----------------------------
(***************************************************************************)
(* RPC/calc: a calculator whose service routine has a detached thread      *)
(* compute the result and waits for it on a condition variable, then       *)
(* destroys the mutex and the condition and frees the data they are in.    *)
(* The clients are processes of one thread, each with a static reply of    *)
(* its own, that call the server over UDP for ever; CALLS bounds them.     *)
(*                                                                         *)
(* calculator_server.c has a closing brace too many at line 107.  The      *)
(* routine is modelled with the `return &result` that follows as its end.  *)
(***************************************************************************)
EXTENDS Integers, SunRpc

CONSTANTS
  CALLS,               \* bound on the calls of a client
  OPS, ARGS1, ARGS2    \* the operations and arguments rand() may give

ASSUME CalcThreadAssumption ==
  /\ Udp = TRUE /\ CALLS \in Nat
  /\ OPS \subseteq 0 .. 3 /\ ARGS1 \subseteq Nat /\ ARGS2 \subseteq Nat \ {0}
  /\ OPS # {} /\ ARGS1 # {} /\ ARGS2 # {}

VARIABLES
  pc,        \* where each client is
  i,         \* its loop variable, which names its calls
  args,      \* its request
  clnt_res,  \* the static reply of its stub
  svc,       \* where calculate_1_svc() is
  thr,       \* where the thread created last is
  data,      \* the thread_data_t the two share
  held,      \* what exists of it: the block, the mutex, the condition
  mutex,     \* who owns the mutex
  result,    \* the static result of the routine
  short      \* history: the calls that met a failing malloc(), init or create

clients == <<pc, i, args, clnt_res>>
shared == <<data, held, mutex>>
routine == <<svc, thr, shared, result, short>>
vars == <<clients, routine, net>>

ADD == 0
SUB == 1
MUL == 2
DIV == 3

Arguments == [op : OPS, arg1 : ARGS1, arg2 : ARGS2]
Blank == [arg |-> CHOOSE r \in Arguments : TRUE, result |-> 0, is_done |-> FALSE]
Parts == {"block", "mutex", "cond"}
Owners == {"nobody", "routine", "thread"}

Init ==
  /\ pc = [c \in Client |-> "clnt_create"]
  /\ i = [c \in Client |-> 0]
  /\ args = [c \in Client |-> Blank.arg]
  /\ clnt_res = [c \in Client |-> 0]
  /\ svc = "svc_run" /\ thr = "none"
  /\ data = Blank /\ held = {} /\ mutex = "nobody"
  /\ result = 0 /\ short = {}
  /\ RpcInit
-----------------------------------------------------------------------------
(* calculator_prog_1() and calculate_1() of a client *)

Step(c, from, to) ==
  /\ pc[c] = from
  /\ pc' = [pc EXCEPT ![c] = to]
  /\ UNCHANGED routine

ClntCreate(c) ==
  /\ Step(c, "clnt_create", "for") \/ Step(c, "clnt_create", "exit1")
  /\ UNCHANGED <<i, args, clnt_res, net>>

Call(c) ==
  /\ i[c] < CALLS
  /\ Step(c, "for", "wait")
  /\ \E r \in Arguments :
       args' = [args EXCEPT ![c] = r] /\ SendRequest(c, i[c], r)
  /\ clnt_res' = [clnt_res EXCEPT ![c] = 0]
  /\ UNCHANGED i

Decode(c) ==
  /\ Step(c, "wait", "print")
  /\ \E a \in replies :
       AcceptReply(a, c, i[c]) /\ clnt_res' = [clnt_res EXCEPT ![c] = a.res]
  /\ UNCHANGED <<i, args>>

\* printf of the result, or clnt_perror() after 25 seconds: the next round.
NextRound(c) ==
  /\ Step(c, "wait", "for") \/ Step(c, "print", "for")
  /\ i' = [i EXCEPT ![c] = @ + 1]
  /\ UNCHANGED <<args, clnt_res, net>>

ClientProcess(c) == ClntCreate(c) \/ Call(c) \/ Decode(c) \/ NextRound(c)
-----------------------------------------------------------------------------
(* calculate_1_svc() *)

Goes(from, to) == svc = from /\ svc' = to /\ UNCHANGED <<clients, net>>

Serve(d) ==
  /\ svc = "svc_run" /\ svc' = "malloc"
  /\ Dispatch(d)
  /\ UNCHANGED <<clients, thr, shared, result, short>>

\* malloc(), the copy of the arguments, and the two inits.
Malloc ==
  /\ Goes("malloc", "mutex_init")
  /\ held' = held \cup {"block"}
  /\ \E d \in serving : data' = [Blank EXCEPT !.arg = d.arg]
  /\ UNCHANGED <<thr, mutex, result, short>>
MutexInit ==
  /\ Goes("mutex_init", "cond_init")
  /\ held' = held \cup {"mutex"} /\ mutex' = "nobody"
  /\ UNCHANGED <<thr, data, result, short>>
CondInit ==
  /\ Goes("cond_init", "create")
  /\ held' = held \cup {"cond"}
  /\ UNCHANGED <<thr, data, mutex, result, short>>

CreateThread ==
  /\ Goes("create", "lock")
  /\ thr' = "compute"
  /\ UNCHANGED <<shared, result, short>>

\* What the routine destroys and frees before it returns from each of the four
\* calls when that call fails.
Undone == [malloc     |-> {},
           mutex_init |-> {"block"},
           cond_init  |-> {"mutex", "block"},
           create     |-> {"mutex", "cond", "block"}]

\* One of the four calls fails, and the caller gets 0 for an answer.
GiveUp ==
  /\ \E l \in DOMAIN Undone : Goes(l, "reply") /\ held' = held \ Undone[l]
  /\ data' = Blank /\ result' = 0
  /\ short' = short \cup {<<d.from, d.call>> : d \in serving}
  /\ UNCHANGED <<thr, mutex>>

\* pthread_mutex_lock(), or pthread_cond_wait() on its way back with the mutex.
LockData_OnlyPolls(from) ==
  /\ IF data.is_done THEN Goes(from, "read") ELSE Goes(from, from)
  /\ UNCHANGED <<thr, shared, result, short>>
LockData_NoRetest(from) ==
  /\ Goes(from, IF from = "woken" THEN "unlock" ELSE "while")
  /\ mutex = "nobody" /\ mutex' = "routine"
  /\ UNCHANGED <<thr, data, held, result, short>>
LockData(from) ==
  /\ Goes(from, "while")
  /\ mutex = "nobody" /\ mutex' = "routine"
  /\ UNCHANGED <<thr, data, held, result, short>>

\* while (!data->is_done)
TestDone ==
  /\ Goes("while", IF data.is_done THEN "unlock" ELSE "cond_wait")
  /\ UNCHANGED <<thr, shared, result, short>>

\* pthread_cond_wait() gives the mutex back and sleeps, in one step.
CondWait ==
  /\ Goes("cond_wait", "asleep")
  /\ mutex' = "nobody"
  /\ UNCHANGED <<thr, data, held, result, short>>

\* It may return without a signal.
SpuriousWakeup == Goes("asleep", "woken") /\ UNCHANGED <<thr, shared, result, short>>

UnlockData ==
  /\ Goes("unlock", "read")
  /\ mutex' = "nobody"
  /\ UNCHANGED <<thr, data, held, result, short>>

\* result = data->result.
ReadResult ==
  /\ Goes("read", "destroy_mutex")
  /\ result' = data.result
  /\ UNCHANGED <<thr, shared, short>>

\* The mutex and the condition are destroyed, and the block is freed.
Drop(part, from, to) ==
  /\ Goes(from, to)
  /\ held' = held \ {part}
  /\ UNCHANGED <<thr, mutex, result, short>>
DestroyData ==
  \/ Drop("mutex", "destroy_mutex", "destroy_cond") /\ UNCHANGED data
  \/ Drop("cond", "destroy_cond", "free") /\ UNCHANGED data
  \/ Drop("block", "free", "reply") /\ data' = Blank

Reply ==
  /\ svc = "reply" /\ svc' = "svc_run"
  /\ SendReply(result)
  /\ UNCHANGED <<clients, thr, shared, result, short>>

Routine ==
  \/ Malloc \/ MutexInit \/ CondInit \/ CreateThread \/ GiveUp
  \/ LockData("lock") \/ LockData("woken") \/ TestDone \/ CondWait
  \/ UnlockData \/ ReadResult \/ DestroyData \/ Reply
-----------------------------------------------------------------------------
(* calculate_thread() *)

Compute(r) ==
  IF r.op = ADD THEN r.arg1 + r.arg2
  ELSE IF r.op = SUB THEN r.arg1 - r.arg2
  ELSE IF r.op = MUL THEN r.arg1 * r.arg2
  ELSE IF r.op = DIV /\ r.arg2 # 0 THEN r.arg1 \div r.arg2
  ELSE 0

ThreadGoes(from, to) ==
  /\ thr = from /\ thr' = to
  /\ UNCHANGED <<clients, held, result, short, net>>

ComputeResult ==
  /\ ThreadGoes("compute", "lock")
  /\ data' = [data EXCEPT !.result = Compute(data.arg)]
  /\ UNCHANGED <<svc, mutex>>

LockForDone_Missing == ThreadGoes("lock", "done") /\ UNCHANGED <<svc, data, mutex>>
LockForDone ==
  /\ ThreadGoes("lock", "done")
  /\ mutex = "nobody" /\ mutex' = "thread"
  /\ UNCHANGED <<svc, data>>

SetDone ==
  /\ ThreadGoes("done", "signal")
  /\ data' = [data EXCEPT !.is_done = TRUE]
  /\ UNCHANGED <<svc, mutex>>

\* pthread_cond_signal() wakes the routine if it sleeps, and is lost if not.
Signal ==
  /\ ThreadGoes("signal", "unlock")
  /\ svc' = IF svc = "asleep" THEN "woken" ELSE svc
  /\ UNCHANGED <<data, mutex>>

\* The thread's last touch of the data.
UnlockAndReturn ==
  /\ ThreadGoes("unlock", "none")
  /\ mutex' = "nobody"
  /\ UNCHANGED <<svc, data>>

Thread == ComputeResult \/ LockForDone \/ SetDone \/ Signal \/ UnlockAndReturn
-----------------------------------------------------------------------------
Terminated ==
  /\ \A c \in Client : pc[c] = "exit1" \/ (pc[c] = "for" /\ i[c] = CALLS)
  /\ svc = "svc_run"
  /\ UNCHANGED vars

Next ==
  \/ \E c \in Client : ClientProcess(c)
  \/ \E d \in requests : Serve(d)
  \/ Routine \/ SpuriousWakeup
  \/ Thread
  \/ Terminated

Spec == Init /\ [][Next]_vars

(***************************************************************************)
(* The two threads of the server are scheduled, and the detached one gets  *)
(* the mutex in the end, though spurious wake-ups may make the routine     *)
(* take it again and again.  Nothing is assumed about the network, the     *)
(* clients and the wake-ups themselves.                                    *)
(***************************************************************************)
FairSpec == Spec /\ WF_vars(Routine) /\ SF_vars(Thread)
-----------------------------------------------------------------------------
(* Properties *)

TypeOK ==
  /\ pc \in [Client -> {"clnt_create", "for", "wait", "print", "exit1"}]
  /\ i \in [Client -> 0 .. CALLS] /\ args \in [Client -> Arguments]
  /\ clnt_res \in [Client -> Int] /\ result \in Int
  /\ svc \in {"svc_run", "malloc", "mutex_init", "cond_init", "create", "lock", "while",
              "cond_wait", "asleep", "woken", "unlock", "read", "destroy_mutex", "destroy_cond",
              "free", "reply"}
  /\ thr \in {"none", "compute", "lock", "done", "signal", "unlock"}
  /\ data \in [arg : Arguments, result : Int, is_done : BOOLEAN]
  /\ held \subseteq Parts /\ mutex \in Owners
  /\ short \subseteq Client \X (0 .. CALLS - 1)

(***************************************************************************)
(* calculator_server.c:43-48, 57-106.  The routine frees the data as soon  *)
(* as it has seen is_done, and the detached thread set it with two calls   *)
(* on that data still to make: nobody touches what is destroyed, the mutex *)
(* is destroyed unlocked, and neither a mutex nor a condition outlives its *)
(* memory.  Whichever call fails, what it finds made is undone: no call    *)
(* leaves any of it behind.                                                *)
(***************************************************************************)
DataOutlivesThread ==
  /\ thr # "none" => held = Parts
  /\ "mutex" \notin held => mutex = "nobody"
  /\ held # {} => "block" \in held
  /\ svc \in {"svc_run", "reply"} => held = {}

(***************************************************************************)
(* calculator_server.c:99-104, calculator_client.c:45-52.  Whatever is     *)
(* lost, late or sent twice and however the routine is woken, a client     *)
(* prints the answer to its own request; a 0 that is not one means that    *)
(* the server was out of memory or threads.                                *)
(***************************************************************************)
PrintsItsAnswer ==
  \A c \in Client : pc[c] = "print" =>
    \/ clnt_res[c] = Compute(args[c])
    \/ clnt_res[c] = 0 /\ <<c, i[c]>> \in short

(***************************************************************************)
(* calculator_server.c:43-46, 99-101.  No wake-up is lost: the routine     *)
(* never waits for a thread that has already signalled.                    *)
(***************************************************************************)
RoutineReturns == serving # {} ~> serving = {}
=============================================================================

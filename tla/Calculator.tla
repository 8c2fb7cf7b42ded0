----------------------------- MODULE Calculator -----------------------------
(***************************************************************************)
(* working_rpc_another/calculator: a client process with several threads,  *)
(* each with a handle of its own, and the server.                          *)
(*                                                                         *)
(* The stub calculator_proc_1() returns the address of a static variable,  *)
(* clnt_res, which all threads share: one thread's memset() or reply may   *)
(* overwrite the other's between the reply and the printf of its result.   *)
(* Only the field `result` of clnt_res is ever read, so clnt_res here is   *)
(* that field.  Numbers stand for the floats.                              *)
(***************************************************************************)
EXTENDS Integers, SunRpc

CONSTANTS
  NUM_THREADS,
  CALLS,               \* the calls a thread makes, 3
  OPS, ARGS1, ARGS2    \* the operations and arguments rand() may give

ASSUME CalculatorAssumption ==
  /\ NUM_THREADS \in Nat \ {0} /\ CALLS \in Nat \ {0}
  /\ OPS \subseteq 0 .. 3 /\ ARGS1 \subseteq Nat /\ ARGS2 \subseteq Nat \ {0}
  /\ OPS # {} /\ ARGS1 # {} /\ ARGS2 # {}

VARIABLES
  main,      \* where the client's main() is
  next,      \* the index of its loops over the threads
  pc,        \* where each thread is
  i,         \* the loop variable of each thread, which names its calls
  request,   \* the request of each thread
  clnt_res,  \* the static reply of the stub
  writer,    \* history: the thread that wrote clnt_res last
  svc,       \* where the server is
  result     \* the static result of the service routine

client == <<main, next, pc, i, request, clnt_res, writer>>
server == <<svc, result>>
vars == <<client, server, net>>

Thread == 1 .. NUM_THREADS
ASSUME ClientAssumption == Client = Thread

ADD == 0
SUB == 1
MUL == 2
DIV == 3

Arguments == [op : OPS, arg1 : ARGS1, arg2 : ARGS2]

\* exit() of the process ends its threads.
Over == main \in {"exit0", "exit1"}

Init ==
  /\ main = "create" /\ next = 1
  /\ pc = [t \in Thread |-> "unborn"]
  /\ i = [t \in Thread |-> 0]
  /\ request = [t \in Thread |-> CHOOSE r \in Arguments : TRUE]
  /\ clnt_res = 0 /\ writer = 1
  /\ svc = "svc_run" /\ result = 0
  /\ RpcInit
-----------------------------------------------------------------------------
(* run_multithreaded_client() and main() *)

CreateThread ==
  /\ main = "create"
  /\ pc' = [pc EXCEPT ![next] = "clnt_create"]
  /\ IF next = NUM_THREADS
     THEN main' = "join" /\ next' = 1
     ELSE main' = "create" /\ next' = next + 1
  /\ UNCHANGED <<i, request, clnt_res, writer>>

CreateThreadFails ==
  /\ main = "create"
  /\ main' = "exit1"
  /\ UNCHANGED <<next, pc, i, request, clnt_res, writer>>

JoinThread ==
  /\ main = "join"
  /\ pc[next] = "ended"
  /\ next' = next + 1
  /\ main' = IF next = NUM_THREADS THEN "exit0" ELSE "join"
  /\ UNCHANGED <<pc, i, request, clnt_res, writer>>

Main == (CreateThread \/ CreateThreadFails \/ JoinThread) /\ UNCHANGED <<server, net>>
-----------------------------------------------------------------------------
(* client_thread_func() and calculator_proc_1() *)

Step(t, from, to) ==
  /\ ~Over
  /\ pc[t] = from
  /\ pc' = [pc EXCEPT ![t] = to]
  /\ UNCHANGED <<main, next, server>>

\* clnt_create() returns a handle, or NULL and the thread ends.
ClntCreate(t) ==
  /\ Step(t, "clnt_create", "for") \/ Step(t, "clnt_create", "ended")
  /\ UNCHANGED <<i, request, clnt_res, writer, net>>

\* The request of the next round.
Prepare(t) ==
  /\ i[t] < CALLS
  /\ Step(t, "for", "memset")
  /\ \E r \in Arguments : request' = [request EXCEPT ![t] = r]
  /\ UNCHANGED <<i, clnt_res, writer, net>>

\* The loop is over.
ClntDestroy(t) ==
  /\ i[t] = CALLS
  /\ Step(t, "for", "ended")
  /\ Destroy(t)
  /\ UNCHANGED <<i, request, clnt_res, writer>>

\* clnt_res is cleared, whoever else uses it.
Memset(t) ==
  /\ Step(t, "memset", "clnt_call")
  /\ clnt_res' = 0 /\ writer' = t
  /\ UNCHANGED <<i, request, net>>

Call(t) ==
  /\ Step(t, "clnt_call", "wait")
  /\ SendRequest(t, i[t], request[t])
  /\ UNCHANGED <<i, request, clnt_res, writer>>

\* The reply to this call, not a late one to an earlier call, is decoded into
\* clnt_res, and the stub returns its address.
Decode(t) ==
  /\ Step(t, "wait", "print")
  /\ \E a \in replies : AcceptReply(a, t, i[t]) /\ clnt_res' = a.res
  /\ writer' = t
  /\ UNCHANGED <<i, request>>

\* The 25 seconds are over, or the call fails otherwise: the stub returns NULL.
CallFails_Unchecked(t) ==
  /\ Step(t, "wait", "print")
  /\ UNCHANGED <<i, request, clnt_res, writer, net>>
CallFails_TriesAgain(t) ==
  /\ Step(t, "wait", "for")
  /\ UNCHANGED <<i, request, clnt_res, writer, net>>
CallFails(t) ==
  /\ Step(t, "wait", "for")
  /\ i' = [i EXCEPT ![t] = @ + 1]
  /\ UNCHANGED <<request, clnt_res, writer, net>>

\* printf of response->result.
PrintResult(t) ==
  /\ Step(t, "print", "for")
  /\ i' = [i EXCEPT ![t] = @ + 1]
  /\ UNCHANGED <<request, clnt_res, writer, net>>

\* What a thread does by itself, no reply needed.
GoesOn(t) ==
  \/ ClntCreate(t) \/ Prepare(t) \/ ClntDestroy(t) \/ Memset(t)
  \/ Call(t) \/ CallFails(t) \/ PrintResult(t)

ClientThread(t) == GoesOn(t) \/ Decode(t)
-----------------------------------------------------------------------------
(* The server: calculator_prog_1() and calculator_proc_1_svc() *)

Compute(r) ==
  IF r.op = ADD THEN r.arg1 + r.arg2
  ELSE IF r.op = SUB THEN r.arg1 - r.arg2
  ELSE IF r.op = MUL THEN r.arg1 * r.arg2
  ELSE IF r.op = DIV /\ r.arg2 # 0 THEN r.arg1 \div r.arg2
  ELSE 0

Serve(d) ==
  /\ svc = "svc_run" /\ svc' = "proc"
  /\ Dispatch(d)
  /\ UNCHANGED <<client, result>>

\* A routine that gives its static result to the caller before it is filled.
Proc_Late ==
  /\ svc = "proc" /\ svc' = "reply"
  /\ UNCHANGED <<result, client, net>>
Proc ==
  /\ svc = "proc" /\ svc' = "reply"
  /\ \E d \in serving : result' = Compute(d.arg)
  /\ UNCHANGED <<client, net>>

Reply ==
  /\ svc = "reply" /\ svc' = "svc_run"
  /\ SendReply(result)
  /\ UNCHANGED <<client, result>>

Server == (\E d \in requests : Serve(d)) \/ Proc \/ Reply

Terminated == Over /\ UNCHANGED vars

Next ==
  \/ Main \/ (\E t \in Thread : ClientThread(t)) \/ Server \/ Terminated

Spec == Init /\ [][Next]_vars

(***************************************************************************)
(* The threads of the client are scheduled, and a call that gets no reply  *)
(* times out.  Nothing is assumed about the server and the network.        *)
(***************************************************************************)
FairSpec ==
  /\ Spec
  /\ WF_vars((CreateThread \/ JoinThread) /\ UNCHANGED <<server, net>>)
  /\ \A t \in Thread : WF_vars(GoesOn(t))
-----------------------------------------------------------------------------
(* Properties *)

\* Every variable has its type; a call is in flight only with its own number.
TypeOK ==
  /\ main \in {"create", "join", "exit0", "exit1"} /\ next \in 1 .. NUM_THREADS + 1
  /\ pc \in [Thread -> {"unborn", "clnt_create", "for", "memset", "clnt_call",
                        "wait", "print", "ended"}]
  /\ i \in [Thread -> 0 .. CALLS]
  /\ request \in [Thread -> Arguments]
  /\ clnt_res \in Int /\ result \in Int /\ writer \in Thread
  /\ svc \in {"svc_run", "proc", "reply"}
  /\ requests \cup serving \subseteq
       [from : Thread, call : 0 .. CALLS - 1, arg : Arguments]
  /\ replies \subseteq
       [to : Thread, call : 0 .. CALLS - 1, res : Int]

(***************************************************************************)
(* calculator_clnt.c:15-24.  Sharing clnt_res is the only thing that can   *)
(* give a thread the wrong result, whatever is lost, late or answered      *)
(* twice: what the variable holds is what its last writer put there, 0     *)
(* during its call and the answer to its own request after it.             *)
(***************************************************************************)
LastWriterDecides ==
  /\ pc[writer] \in {"clnt_call", "wait"} => clnt_res = 0
  /\ pc[writer] = "print" => clnt_res = Compute(request[writer])

(***************************************************************************)
(* calculator_server.c:9-47 keeps its answer in a static variable too, and *)
(* a request may reach it twice: a reply that its thread would accept is   *)
(* still the answer to the request that thread is waiting with.            *)
(***************************************************************************)
AnswersFit ==
  \A a \in replies :
    pc[a.to] = "wait" /\ a.call = i[a.to] => a.res = Compute(request[a.to])

(***************************************************************************)
(* calculator_client.c:61-67 prints "Thread %d: Received result" after     *)
(* "Thread %d: Sending ...": the result is that of the thread's request.   *)
(***************************************************************************)
ResultIsOwn ==
  \A t \in Thread : pc[t] = "print" => clnt_res = Compute(request[t])

(***************************************************************************)
(* calculator_client.c:139-144: the client comes to its end even if the    *)
(* server never answers.                                                   *)
(***************************************************************************)
ClientEnds == <>Over
=============================================================================

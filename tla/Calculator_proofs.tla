------------------------- MODULE Calculator_proofs -------------------------
(***************************************************************************)
(* For any number of threads, calls, operations and arguments: the static  *)
(* reply of the stub holds what its last writer put there, and a reply     *)
(* that a thread would accept answers the request it is waiting with.      *)
(***************************************************************************)
EXTENDS Calculator, TLAPS

Datagrams == [from : Thread, call : 0 .. CALLS - 1, arg : Arguments]
Answers == [to : Thread, call : 0 .. CALLS - 1, res : Int]

\* The call n of thread t, whose argument is r: if it is the current one, t
\* has sent it, has not left it yet, and still has r in its request.
Current(t, n, r) ==
  /\ n <= i[t]
  /\ n = i[t] => pc[t] \in {"wait", "print"} /\ r = request[t]

RequestsInv == \A d \in requests \cup serving : Current(d.from, d.call, d.arg)

RepliesInv ==
  \A a \in replies : \E r \in Arguments : Current(a.to, a.call, r) /\ a.res = Compute(r)

ServerInv ==
  /\ \A d, e \in serving : d = e
  /\ svc = "svc_run" => serving = {}
  /\ svc = "reply" => \A d \in serving : result = Compute(d.arg)

\* A thread in its loop has calls left to make.
LoopInv == \A t \in Thread : pc[t] \in {"memset", "clnt_call", "wait", "print"} => i[t] < CALLS

\* main() is within its loops, and what it has not created has not begun.
MainInv ==
  /\ main \in {"create", "join"} => next \in Thread
  /\ main = "create" => \A t \in Thread : t >= next => pc[t] = "unborn"

IInv ==
  TypeOK /\ MainInv /\ LoopInv /\ RequestsInv /\ RepliesInv /\ ServerInv /\ LastWriterDecides

\* The service routine returns a number for every request.
LEMMA ComputeInt == \A r \in Arguments : Compute(r) \in Int
<1> SUFFICES ASSUME NEW r \in Arguments
             PROVE  Compute(r) \in Int
  OBVIOUS
<1>1. r.arg1 \in ARGS1 /\ r.arg2 \in ARGS2
  BY DEF Arguments
<1>2. r.arg1 \in Int /\ r.arg2 \in Int /\ r.arg2 > 0
  <2>1. \A a \in ARGS1 : a \in Int
    BY CalculatorAssumption
  <2>2. \A b \in ARGS2 : b \in Int /\ b > 0
    BY CalculatorAssumption
  <2> QED
    BY <1>1, <2>1, <2>2
<1>3. r.arg1 + r.arg2 \in Int /\ r.arg1 - r.arg2 \in Int
  BY <1>2
<1>4. r.arg1 * r.arg2 \in Int
  BY <1>2
<1>5. r.arg1 \div r.arg2 \in Int
  BY <1>2
<1>6. 0 \in Int
  OBVIOUS
<1> QED
  BY <1>3, <1>4, <1>5, <1>6 DEF Compute

\* There is a request for a thread to begin with.
LEMMA ArgumentsExist == (CHOOSE r \in Arguments : TRUE) \in Arguments
<1>1. PICK o \in OPS, a \in ARGS1, b \in ARGS2 : TRUE
  BY CalculatorAssumption
<1>2. [op |-> o, arg1 |-> a, arg2 |-> b] \in Arguments
  BY DEF Arguments
<1> QED
  BY <1>2

\* The invariant holds when the client is started.
LEMMA Initially ==
  ASSUME Init
  PROVE  IInv
<1>1. 1 \in Thread /\ NUM_THREADS \in Nat /\ CALLS \in Nat \ {0}
  BY CalculatorAssumption DEF Thread
<1>2. TypeOK
  BY <1>1, ArgumentsExist DEF Init, RpcInit, TypeOK
<1>3. MainInv /\ LoopInv /\ LastWriterDecides
  BY <1>1 DEF Init, MainInv, LoopInv, LastWriterDecides
<1>4. RequestsInv /\ RepliesInv /\ ServerInv
  BY DEF Init, RpcInit, RequestsInv, RepliesInv, ServerInv
<1> QED
  BY <1>2, <1>3, <1>4 DEF IInv

\* A step of a thread leaves every call current that it does not end.
LEMMA CurrentKept ==
  ASSUME TypeOK,
         NEW t \in Thread, NEW l, pc' = [pc EXCEPT ![t] = l],
         \/ /\ UNCHANGED <<i, request>>
            /\ pc[t] \in {"wait", "print"} => l \in {"wait", "print"}
         \/ i' = [i EXCEPT ![t] = @ + 1] /\ UNCHANGED request
         \/ /\ pc[t] = "for" /\ UNCHANGED i
            /\ \E r \in Arguments : request' = [request EXCEPT ![t] = r],
         NEW u \in Thread, NEW n \in 0 .. CALLS - 1, NEW r, Current(u, n, r)
  PROVE  Current(u, n, r)'
<1>1. i[u] \in Int /\ n \in Int
  BY CalculatorAssumption DEF TypeOK
<1>2. CASE u # t
  BY <1>1, <1>2 DEF TypeOK, Current
<1>3. CASE u = t
  BY <1>1, <1>3 DEF TypeOK, Current
<1> QED
  BY <1>2, <1>3

\* The messages on their way stay what they should be, if no call ends unseen
\* and those that are added are.
Sound(d) == d \in Datagrams /\ Current(d.from, d.call, d.arg)
Answer(a) ==
  /\ a \in Answers
  /\ \E r \in Arguments : Current(a.to, a.call, r) /\ a.res = Compute(r)

MessagesTyped == requests \cup serving \subseteq Datagrams /\ replies \subseteq Answers

LEMMA MessagesKept ==
  ASSUME TypeOK, RequestsInv, RepliesInv,
         \A u \in Thread, n \in 0 .. CALLS - 1, r \in Arguments :
           Current(u, n, r) => Current(u, n, r)',
         \A d \in requests' \cup serving' : d \in requests \cup serving \/ Sound(d)',
         \A a \in replies' : a \in replies \/ Answer(a)'
  PROVE  MessagesTyped' /\ RequestsInv' /\ RepliesInv'
<1>1. MessagesTyped
  BY DEF TypeOK, MessagesTyped, Datagrams, Answers
<1>2. \A d \in requests \cup serving : Sound(d)'
  <2> SUFFICES ASSUME NEW d \in requests \cup serving
               PROVE  Sound(d)'
    OBVIOUS
  <2>1. d \in Datagrams /\ Current(d.from, d.call, d.arg)
    BY <1>1 DEF MessagesTyped, RequestsInv
  <2>2. Current(d.from, d.call, d.arg)'
    BY <2>1 DEF Datagrams
  <2> QED
    BY <2>1, <2>2 DEF Sound, Datagrams
<1>3. \A a \in replies : Answer(a)'
  <2> SUFFICES ASSUME NEW a \in replies
               PROVE  Answer(a)'
    OBVIOUS
  <2>1. a \in Answers
    BY <1>1 DEF MessagesTyped
  <2>2. PICK r \in Arguments : Current(a.to, a.call, r) /\ a.res = Compute(r)
    BY DEF RepliesInv
  <2>3. Current(a.to, a.call, r)'
    BY <2>1, <2>2 DEF Answers
  <2> QED
    BY <2>1, <2>2, <2>3 DEF Answer, Answers
<1>4. \A d \in requests' \cup serving' : Sound(d)'
  BY <1>2
<1>5. \A a \in replies' : Answer(a)'
  BY <1>3
<1>6. MessagesTyped'
  BY <1>4, <1>5 DEF MessagesTyped, Sound, Answer
<1>7. RequestsInv'
  BY <1>4 DEF RequestsInv, Sound
<1>8. RepliesInv'
  BY <1>5 DEF RepliesInv, Answer
<1> QED
  BY <1>6, <1>7, <1>8

\* So does a thread that sends its own request, or nothing.
LEMMA ThreadMessages ==
  ASSUME TypeOK, RequestsInv, RepliesInv, LoopInv,
         NEW t \in Thread, NEW l, pc' = [pc EXCEPT ![t] = l],
         \/ /\ UNCHANGED <<i, request>>
            /\ pc[t] \in {"wait", "print"} => l \in {"wait", "print"}
         \/ i' = [i EXCEPT ![t] = @ + 1] /\ UNCHANGED request
         \/ /\ pc[t] = "for" /\ UNCHANGED i
            /\ \E r \in Arguments : request' = [request EXCEPT ![t] = r],
         \/ requests' \subseteq requests
         \/ /\ requests' = requests \cup {Request(t, i[t], request[t])}
            /\ pc[t] = "clnt_call" /\ l = "wait" /\ UNCHANGED <<i, request>>,
         replies' \subseteq replies,
         serving' = serving
  PROVE  MessagesTyped' /\ RequestsInv' /\ RepliesInv'
<1>1. \A u \in Thread, n \in 0 .. CALLS - 1, r \in Arguments :
        Current(u, n, r) => Current(u, n, r)'
  BY CurrentKept
<1>2. \A d \in requests' \cup serving' : d \in requests \cup serving \/ Sound(d)'
  <2>1. CASE requests' \subseteq requests
    BY <2>1
  <2>2. CASE /\ requests' = requests \cup {Request(t, i[t], request[t])}
             /\ pc[t] = "clnt_call" /\ l = "wait" /\ UNCHANGED <<i, request>>
    <3>1. i[t] \in 0 .. CALLS - 1 /\ request[t] \in Arguments /\ pc'[t] = "wait"
      BY <2>2, CalculatorAssumption DEF TypeOK, LoopInv
    <3>2. Request(t, i[t], request[t]) \in Datagrams
      BY <3>1 DEF Datagrams, Request
    <3>3. Current(t, i[t], request[t])'
      BY <2>2, <3>1 DEF Current
    <3>4. Sound(Request(t, i[t], request[t]))'
      BY <2>2, <3>2, <3>3 DEF Sound, Request, Datagrams
    <3> QED
      BY <2>2, <3>4
  <2> QED
    BY <2>1, <2>2
<1> QED
  BY <1>1, <1>2, MessagesKept

\* A step of a thread keeps the invariant.
LEMMA ThreadStep ==
  ASSUME IInv, NEW t \in Thread, ClientThread(t)
  PROVE  IInv'
<1> USE DEF IInv
<1>1. CALLS \in Nat /\ \A u \in Thread : i[u] \in 0 .. CALLS
  BY CalculatorAssumption DEF TypeOK
<1>main. ASSUME NEW from, NEW to, from # "unborn", Step(t, from, to)
      PROVE  MainInv'
  BY <1>main DEF Step, TypeOK, MainInv
<1>2. CASE ClntCreate(t)
  <2>0. MainInv'
    BY <1>2, <1>main DEF ClntCreate
  <2>1. MessagesTyped' /\ RequestsInv' /\ RepliesInv'
    BY <1>2, ThreadMessages DEF ClntCreate, Step, net
  <2>2. TypeOK'
    BY <1>2, <2>1, <1>1 DEF ClntCreate, Step, TypeOK, MessagesTyped, Datagrams, Answers, server, net
  <2>3. LoopInv'
    BY <1>2, <1>1 DEF ClntCreate, Step, TypeOK, LoopInv
  <2>4. ServerInv'
    BY <1>2 DEF ClntCreate, Step, ServerInv, server, net
  <2>5. LastWriterDecides'
    BY <1>2, <1>1 DEF ClntCreate, Step, TypeOK, LastWriterDecides
  <2> QED
    BY <2>0, <2>1, <2>2, <2>3, <2>4, <2>5
<1>3. CASE Prepare(t)
  <2>0. MainInv'
    BY <1>3, <1>main DEF Prepare
  <2>1. MessagesTyped' /\ RequestsInv' /\ RepliesInv'
    BY <1>3, ThreadMessages DEF Prepare, Step, net
  <2>2. TypeOK'
    BY <1>3, <2>1, <1>1 DEF Prepare, Step, TypeOK, MessagesTyped, Datagrams, Answers, server, net
  <2>3. LoopInv'
    BY <1>3, <1>1 DEF Prepare, Step, TypeOK, LoopInv
  <2>4. ServerInv'
    BY <1>3 DEF Prepare, Step, ServerInv, server, net
  <2>5. LastWriterDecides'
    BY <1>3, <1>1 DEF Prepare, Step, TypeOK, LastWriterDecides
  <2> QED
    BY <2>0, <2>1, <2>2, <2>3, <2>4, <2>5
<1>4. CASE ClntDestroy(t)
  <2>0. MainInv'
    BY <1>4, <1>main DEF ClntDestroy
  <2>1. MessagesTyped' /\ RequestsInv' /\ RepliesInv'
    BY <1>4, ThreadMessages DEF ClntDestroy, Step, Destroy
  <2>2. TypeOK'
    BY <1>4, <2>1, <1>1 DEF ClntDestroy, Step, TypeOK, MessagesTyped, Datagrams, Answers, server, Destroy
  <2>3. LoopInv'
    BY <1>4, <1>1 DEF ClntDestroy, Step, TypeOK, LoopInv
  <2>4. ServerInv'
    BY <1>4 DEF ClntDestroy, Step, ServerInv, server, Destroy
  <2>5. LastWriterDecides'
    BY <1>4, <1>1 DEF ClntDestroy, Step, TypeOK, LastWriterDecides
  <2> QED
    BY <2>0, <2>1, <2>2, <2>3, <2>4, <2>5
<1>5. CASE Memset(t)
  <2>0. MainInv'
    BY <1>5, <1>main DEF Memset
  <2>1. MessagesTyped' /\ RequestsInv' /\ RepliesInv'
    BY <1>5, ThreadMessages DEF Memset, Step, net
  <2>2. TypeOK'
    BY <1>5, <2>1, <1>1 DEF Memset, Step, TypeOK, MessagesTyped, Datagrams, Answers, server, net
  <2>3. LoopInv'
    BY <1>5, <1>1 DEF Memset, Step, TypeOK, LoopInv
  <2>4. ServerInv'
    BY <1>5 DEF Memset, Step, ServerInv, server, net
  <2>5. LastWriterDecides'
    BY <1>5, <1>1 DEF Memset, Step, TypeOK, LastWriterDecides
  <2> QED
    BY <2>0, <2>1, <2>2, <2>3, <2>4, <2>5
<1>6. CASE Call(t)
  <2>0. MainInv'
    BY <1>6, <1>main DEF Call
  <2>1. MessagesTyped' /\ RequestsInv' /\ RepliesInv'
    BY <1>6, ThreadMessages DEF Call, Step, SendRequest
  <2>2. TypeOK'
    BY <1>6, <2>1, <1>1 DEF Call, Step, TypeOK, MessagesTyped, Datagrams, Answers, server, SendRequest
  <2>3. LoopInv'
    BY <1>6, <1>1 DEF Call, Step, TypeOK, LoopInv
  <2>4. ServerInv'
    BY <1>6 DEF Call, Step, ServerInv, server, SendRequest
  <2>5. LastWriterDecides'
    BY <1>6, <1>1 DEF Call, Step, TypeOK, LastWriterDecides
  <2> QED
    BY <2>0, <2>1, <2>2, <2>3, <2>4, <2>5
<1>7. CASE Decode(t)
  <2>0. MainInv'
    BY <1>7, <1>main DEF Decode
  <2>1. MessagesTyped' /\ RequestsInv' /\ RepliesInv'
    BY <1>7, ThreadMessages DEF Decode, Step, AcceptReply, Received
  <2>2. TypeOK'
    BY <1>7, <2>1, <1>1 DEF Decode, Step, TypeOK, MessagesTyped, Datagrams, Answers, server, AcceptReply, Received
  <2>3. LoopInv'
    BY <1>7, <1>1 DEF Decode, Step, TypeOK, LoopInv
  <2>4. ServerInv'
    BY <1>7 DEF Decode, Step, ServerInv, server, AcceptReply, Received
  <2>5. LastWriterDecides'
    <3>1. PICK a \in replies : a.to = t /\ a.call = i[t] /\ clnt_res' = a.res
      BY <1>7 DEF Decode, AcceptReply
    <3>2. clnt_res' = Compute(request[t])
      BY <3>1 DEF RepliesInv, Current
    <3>3. pc'[t] = "print" /\ writer' = t /\ request' = request
      BY <1>7 DEF Decode, Step, TypeOK
    <3> QED
      BY <3>2, <3>3 DEF LastWriterDecides
  <2> QED
    BY <2>0, <2>1, <2>2, <2>3, <2>4, <2>5
<1>8. CASE CallFails(t)
  <2>0. MainInv'
    BY <1>8, <1>main DEF CallFails
  <2>1. MessagesTyped' /\ RequestsInv' /\ RepliesInv'
    BY <1>8, ThreadMessages DEF CallFails, Step, net
  <2>2. TypeOK'
    <3>1. i[t] + 1 \in 0 .. CALLS
      BY <1>8, <1>1 DEF CallFails, Step, LoopInv
    <3>2. i' \in [Thread -> 0 .. CALLS]
      BY <1>8, <3>1 DEF CallFails, TypeOK
    <3> QED
      BY <1>8, <2>1, <3>2 DEF CallFails, Step, TypeOK, MessagesTyped, Datagrams, Answers, server, net
  <2>3. LoopInv'
    BY <1>8, <1>1 DEF CallFails, Step, TypeOK, LoopInv
  <2>4. ServerInv'
    BY <1>8 DEF CallFails, Step, ServerInv, server, net
  <2>5. LastWriterDecides'
    BY <1>8, <1>1 DEF CallFails, Step, TypeOK, LastWriterDecides
  <2> QED
    BY <2>0, <2>1, <2>2, <2>3, <2>4, <2>5
<1>9. CASE PrintResult(t)
  <2>0. MainInv'
    BY <1>9, <1>main DEF PrintResult
  <2>1. MessagesTyped' /\ RequestsInv' /\ RepliesInv'
    BY <1>9, ThreadMessages DEF PrintResult, Step, net
  <2>2. TypeOK'
    <3>1. i[t] + 1 \in 0 .. CALLS
      BY <1>9, <1>1 DEF PrintResult, Step, LoopInv
    <3>2. i' \in [Thread -> 0 .. CALLS]
      BY <1>9, <3>1 DEF PrintResult, TypeOK
    <3> QED
      BY <1>9, <2>1, <3>2 DEF PrintResult, Step, TypeOK, MessagesTyped, Datagrams, Answers, server, net
  <2>3. LoopInv'
    BY <1>9, <1>1 DEF PrintResult, Step, TypeOK, LoopInv
  <2>4. ServerInv'
    BY <1>9 DEF PrintResult, Step, ServerInv, server, net
  <2>5. LastWriterDecides'
    BY <1>9, <1>1 DEF PrintResult, Step, TypeOK, LastWriterDecides
  <2> QED
    BY <2>0, <2>1, <2>2, <2>3, <2>4, <2>5
<1> QED
  BY <1>2, <1>3, <1>4, <1>5, <1>6, <1>7, <1>8, <1>9
     DEF ClientThread, GoesOn

\* A step of main(): the threads it creates are in no call, and the end of the
\* process stops them where they are.
LEMMA MainStep ==
  ASSUME IInv, Main
  PROVE  IInv'
<1> USE DEF IInv
<1>1. NUM_THREADS \in Nat \ {0}
  BY CalculatorAssumption
<1>2. UNCHANGED <<i, request, clnt_res, writer, requests, replies, serving, svc, result>>
  BY DEF Main, CreateThread, CreateThreadFails, JoinThread, server, net
<1>3. TypeOK' /\ MainInv'
  <2>1. CASE CreateThread
    <3>1. pc' = [pc EXCEPT ![next] = "clnt_create"] /\ next \in Thread
      BY <2>1 DEF CreateThread, MainInv
    <3>2. main' \in {"create", "join"} /\ next' \in Thread
      BY <1>1, <2>1, <3>1 DEF CreateThread, Thread
    <3>3. TypeOK'
      <4>1. next' \in 1 .. NUM_THREADS + 1 /\ main' \in {"create", "join", "exit0", "exit1"}
        BY <1>1, <3>2 DEF Thread
      <4> QED
        BY <1>2, <3>1, <4>1 DEF TypeOK
    <3>4. main' = "create" => \A t \in Thread : t >= next' => pc'[t] = "unborn"
      BY <1>1, <2>1, <3>1 DEF CreateThread, MainInv, TypeOK, Thread
    <3> QED
      BY <3>2, <3>3, <3>4 DEF MainInv
  <2>2. CASE CreateThreadFails
    BY <1>2, <2>2 DEF CreateThreadFails, TypeOK, MainInv
  <2>3. CASE JoinThread
    <3>1. next \in Thread /\ UNCHANGED pc /\ main' \in {"join", "exit0"}
      BY <2>3 DEF JoinThread, MainInv
    <3>2. next' \in 1 .. NUM_THREADS + 1 /\ (main' = "join" => next' \in Thread)
      BY <1>1, <2>3, <3>1 DEF JoinThread, Thread
    <3> QED
      BY <1>2, <3>1, <3>2 DEF TypeOK, MainInv
  <2> QED
    BY <2>1, <2>2, <2>3 DEF Main
<1>4. \A t \in Thread : pc[t] # "unborn" => pc'[t] = pc[t]
  <2>1. CASE CreateThread
    <3>1. pc' = [pc EXCEPT ![next] = "clnt_create"] /\ next \in Thread /\ pc[next] = "unborn"
      BY <1>1, <2>1 DEF CreateThread, MainInv, Thread
    <3> QED
      BY <3>1 DEF TypeOK
  <2> QED
    BY <2>1 DEF Main, CreateThreadFails, JoinThread
<1>5. \A t \in Thread : pc'[t] # "clnt_create" => pc'[t] = pc[t]
  <2>1. CASE CreateThread
    <3>1. pc' = [pc EXCEPT ![next] = "clnt_create"]
      BY <2>1 DEF CreateThread
    <3> QED
      BY <3>1 DEF TypeOK
  <2> QED
    BY <2>1 DEF Main, CreateThreadFails, JoinThread
<1>6. MessagesTyped' /\ RequestsInv' /\ RepliesInv'
  <2>1. \A u \in Thread, n \in 0 .. CALLS - 1, r \in Arguments :
          Current(u, n, r) => Current(u, n, r)'
    BY <1>2, <1>4 DEF Current
  <2> QED
    BY <1>2, <2>1, MessagesKept
<1>7. LoopInv' /\ ServerInv' /\ LastWriterDecides'
  <2>1. writer \in Thread
    BY DEF TypeOK
  <2> QED
    BY <1>2, <1>5, <2>1 DEF LoopInv, ServerInv, LastWriterDecides
<1> QED
  BY <1>3, <1>6, <1>7

\* A step of the server: the answer it sends is to the request it holds.
LEMMA ServerStep ==
  ASSUME IInv, Server
  PROVE  IInv'
<1> USE DEF IInv
<1>1. UNCHANGED client
  BY DEF Server, Serve, Proc, Reply
<1>2. \A u \in Thread, n \in 0 .. CALLS - 1, r \in Arguments :
        Current(u, n, r) => Current(u, n, r)'
  BY <1>1 DEF client, Current
<1> DEFINE ServerKept ==
      /\ MessagesTyped' /\ RequestsInv' /\ RepliesInv' /\ ServerInv'
      /\ result' \in Int /\ svc' \in {"svc_run", "proc", "reply"}
<1>3. ServerKept
  <2>1. ASSUME NEW d \in requests, Serve(d)
        PROVE  ServerKept
    <3>1. /\ svc' = "proc" /\ serving' = {d} /\ requests' \subseteq requests
          /\ UNCHANGED <<replies, result>>
      BY <2>1 DEF Serve, Dispatch, Received
    <3> QED
      BY <1>2, <3>1, MessagesKept DEF ServerInv, TypeOK
  <2>2. CASE Proc
    <3>1. PICK d \in serving : result' = Compute(d.arg)
      BY <2>2 DEF Proc
    <3>2. result' \in Int
      <4>1. d.arg \in Arguments
        BY DEF TypeOK
      <4> QED
        BY <3>1, <4>1, ComputeInt
    <3>3. svc' = "reply" /\ UNCHANGED <<requests, replies, serving>>
      BY <2>2 DEF Proc, net
    <3>4. ServerInv'
      BY <3>1, <3>3 DEF ServerInv
    <3>5. MessagesTyped' /\ RequestsInv' /\ RepliesInv'
      BY <1>2, <3>3, MessagesKept
    <3> QED
      BY <3>2, <3>3, <3>4, <3>5
  <2>3. CASE Reply
    <3>1. /\ replies' = replies \cup {ReplyTo(d, result) : d \in serving}
          /\ serving' = {} /\ svc' = "svc_run" /\ svc = "reply" /\ UNCHANGED <<requests, result>>
      BY <2>3 DEF Reply, SendReply
    <3>2. \A d \in serving : Answer(ReplyTo(d, result))'
      <4> SUFFICES ASSUME NEW d \in serving
                   PROVE  Answer(ReplyTo(d, result))'
        OBVIOUS
      <4>1. /\ d.from \in Thread /\ d.call \in 0 .. CALLS - 1 /\ d.arg \in Arguments
            /\ result \in Int
        BY DEF TypeOK
      <4>2. result = Compute(d.arg) /\ Current(d.from, d.call, d.arg)
        BY <3>1 DEF ServerInv, RequestsInv
      <4>3. Current(d.from, d.call, d.arg)'
        BY <1>2, <4>1, <4>2
      <4> QED
        BY <3>1, <4>1, <4>2, <4>3 DEF Answer, Answers, ReplyTo
    <3>3. \A a \in replies' : a \in replies \/ Answer(a)'
      BY <3>1, <3>2
    <3>4. MessagesTyped' /\ RequestsInv' /\ RepliesInv'
      BY <1>2, <3>1, <3>3, MessagesKept
    <3>5. ServerInv'
      BY <3>1 DEF ServerInv
    <3> QED
      BY <3>1, <3>4, <3>5 DEF TypeOK
  <2> QED
    BY <2>1, <2>2, <2>3 DEF Server
<1>4. TypeOK'
  BY <1>1, <1>3 DEF client, TypeOK, MessagesTyped, Datagrams, Answers
<1>5. MainInv' /\ LoopInv' /\ LastWriterDecides'
  BY <1>1 DEF client, MainInv, LoopInv, LastWriterDecides
<1> QED
  BY <1>3, <1>4, <1>5

(***************************************************************************)
(* The inductive invariant of the calculator: what is on its way in the    *)
(* current call of a thread is the thread's request or the answer to it,   *)
(* and clnt_res follows its last writer.                                   *)
(***************************************************************************)
THEOREM Invariance == Spec => []IInv
<1>1. Init => IInv
  BY Initially
<1>2. IInv /\ [Next]_vars => IInv'
  <2> SUFFICES ASSUME IInv, [Next]_vars
               PROVE  IInv'
    OBVIOUS
  <2>1. CASE UNCHANGED vars
    BY <2>1 DEF vars, client, server, net, IInv, TypeOK, MainInv, LoopInv, RequestsInv,
                RepliesInv, ServerInv, LastWriterDecides, Current
  <2>2. CASE Next
    <3>1. CASE Terminated
      BY <2>1, <3>1 DEF Terminated
    <3> QED
      BY <2>2, <3>1, MainStep, ThreadStep, ServerStep DEF Next
  <2> QED
    BY <2>1, <2>2
<1> QED
  BY <1>1, <1>2, PTL DEF Spec

\* calculator_client.c, calculator_server.c: every variable keeps its type.
THEOREM TypeCorrectness == Spec => []TypeOK
<1>1. IInv => TypeOK
  BY DEF IInv
<1> QED
  BY <1>1, Invariance, PTL

\* calculator_clnt.c:15-24: nothing but another thread's call can spoil a reply.
THEOREM SharedReplyIsTheLastWriters == Spec => []LastWriterDecides
<1>1. IInv => LastWriterDecides
  BY DEF IInv
<1> QED
  BY <1>1, Invariance, PTL

\* calculator_server.c:9-47: retries, losses and late replies do not mix up
\* requests and answers.
THEOREM AcceptedRepliesFit == Spec => []AnswersFit
<1>1. IInv => AnswersFit
  <2> SUFFICES ASSUME IInv, NEW a \in replies, pc[a.to] = "wait", a.call = i[a.to]
               PROVE  a.res = Compute(request[a.to])
    BY DEF AnswersFit
  <2>1. PICK r \in Arguments : Current(a.to, a.call, r) /\ a.res = Compute(r)
    BY DEF IInv, RepliesInv
  <2> QED
    BY <2>1 DEF Current
<1> QED
  BY <1>1, Invariance, PTL
=============================================================================

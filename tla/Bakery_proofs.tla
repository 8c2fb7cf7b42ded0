---------------------------- MODULE Bakery_proofs ----------------------------
(***************************************************************************)
(* For any number of client processes, client ids and requests: in the     *)
(* bakery server nobody ever waits for anybody, and a process that gets a  *)
(* response gets its own, with ticket 1.                                   *)
(***************************************************************************)
EXTENDS Bakery, TLAPS

\* The response to the call n of any process.
Own(n) == [client_id |-> IdOf(n), ticket_number |-> 1, queue_position |-> 1]

\* What is on its way says what it is, whoever's current call it belongs to.
Sent(d) == d.from \in Client /\ d.call \in 0 .. CallCount - 1 /\ d.arg = IdOf(d.call)
Answered(a) == a.to \in Client /\ a.call \in 0 .. CallCount - 1 /\ a.res = Own(a.call)

MessagesInv ==
  (\A d \in requests \cup serving : Sent(d)) /\ (\A a \in replies : Answered(a))

\* A process that waits or prints has calls left to make.
ClientsInv ==
  /\ pc \in [Client -> {"clnt_create", "for", "wait", "print", "exit0", "exit1"}]
  /\ call \in [Client -> 0 .. CallCount]
  /\ response \in [Client -> Response]
  /\ \A p \in Client : pc[p] \in {"wait", "print"} => call[p] < CallCount
  /\ ResponseIsOwn

\* Only the client in service is choosing, or has a number, and each only in
\* its part of the service routine: so every ticket is 1.
ShopInv ==
  /\ svc \in {"svc_run", "choosing", "number", "turn", "serve"}
  /\ choosing \in [Slots -> {0, 1}] /\ number \in [Slots -> Nat]
  /\ turn \in 0 .. MAX_CLIENTS /\ ticket \in Nat
  /\ (svc = "svc_run") <=> (serving = {})
  /\ \A d, e \in serving : d = e
  /\ svc = "turn" => turn < MAX_CLIENTS
  /\ svc \in {"turn", "serve"} => ticket = 1
  /\ \A c \in Slots :
       /\ choosing[c] # 0 => svc = "number" /\ \E d \in serving : d.arg = c
       /\ number[c] # 0 => svc \in {"turn", "serve"} /\ \E d \in serving : d.arg = c

IInv == MessagesInv /\ ClientsInv /\ ShopInv
-----------------------------------------------------------------------------
(* The numbers of clients and calls. *)

LEMMA DivBounded ==
  ASSUME NEW C \in Nat \ {0}, NEW R \in Nat \ {0}, NEW n \in 0 .. C * R - 1
  PROVE  n \div R \in 0 .. C - 1
<1>1. C * R \in Nat /\ n \in Nat /\ n < C * R
  OBVIOUS
<1>2. n \div R \in Nat /\ n = (n \div R) * R + (n % R) /\ n % R \in Nat
  BY <1>1
<1>3. ASSUME NEW q \in Nat, q >= C
      PROVE  q * R >= C * R
  BY <1>3
<1>4. n \div R < C
  BY <1>1, <1>2, <1>3
<1> QED
  BY <1>2, <1>4

LEMMA CallsCounted == CallCount \in Nat \ {0}
<1>1. \A C, R \in Nat \ {0} : C * R \in Nat \ {0}
  OBVIOUS
<1> QED
  BY <1>1, BakeryAssumption DEF CallCount

\* The client of a call is one of the clients, and has an entry in the arrays.
LEMMA IdBounds ==
  ASSUME NEW n \in 0 .. CallCount - 1
  PROVE  IdOf(n) \in 1 .. CLIENTS /\ IdOf(n) \in Slots /\ Own(n) \in Response
<1>1. n \div REQUESTS \in 0 .. CLIENTS - 1
  BY BakeryAssumption, DivBounded DEF CallCount
<1>2. IdOf(n) \in 1 .. CLIENTS /\ IdOf(n) \in Slots
  BY <1>1, BakeryAssumption DEF IdOf, Slots
<1> QED
  BY <1>2 DEF Own, Response
-----------------------------------------------------------------------------
(* What the invariant is for. *)

LEMMA IInvImpliesTypeOK == ASSUME IInv PROVE TypeOK
<1>1. \A d \in requests \cup serving : d.arg \in 1 .. CLIENTS
  BY IdBounds DEF IInv, MessagesInv, Sent
<1>2. \A a \in replies : a.res \in Response
  BY IdBounds DEF IInv, MessagesInv, Answered
<1> QED
  BY <1>1, <1>2 DEF IInv, MessagesInv, ClientsInv, ShopInv, Sent, Answered, TypeOK

\* wait_for_turn() goes on whenever it looks at another client.
NeverWaits ==
  svc = "turn" => choosing[turn] = 0 /\ \E d \in serving : ~Before(turn, d.arg)

LEMMA IInvImpliesNeverWaits == ASSUME IInv PROVE NeverWaits
<1> SUFFICES ASSUME svc = "turn"
             PROVE  choosing[turn] = 0 /\ \E d \in serving : ~Before(turn, d.arg)
  BY DEF NeverWaits
<1>1. turn \in Slots /\ choosing[turn] = 0
  BY BakeryAssumption DEF IInv, ShopInv, Slots
<1>2. PICK d \in serving : TRUE
  BY DEF IInv, ShopInv
<1>3. d.arg \in Slots
  BY IdBounds DEF IInv, MessagesInv, Sent
<1>4. number[turn] # 0 => turn = d.arg
  BY <1>1 DEF IInv, ShopInv
<1>5. ~Before(turn, d.arg)
  <2>1. CASE number[turn] = 0
    BY <2>1 DEF Before
  <2>2. CASE turn = d.arg
    <3>1. number[turn] \in Nat /\ turn \in Nat
      BY <1>1 DEF IInv, ShopInv, Slots
    <3> QED
      BY <2>2, <3>1 DEF Before
  <2> QED
    BY <1>4, <2>1, <2>2
<1> QED
  BY <1>1, <1>5
-----------------------------------------------------------------------------
(* The steps of a client process. *)

\* Fewer messages are no worse.
LEMMA MessagesLost ==
  ASSUME MessagesInv, requests' \subseteq requests, replies' \subseteq replies,
         UNCHANGED serving
  PROVE  MessagesInv'
BY DEF MessagesInv, Sent, Answered, IdOf, Own, CallCount

LEMMA ShopKept ==
  ASSUME ShopInv, UNCHANGED <<svc, shop, serving>>
  PROVE  ShopInv'
BY DEF ShopInv, shop

LEMMA ClientKeepsIInv ==
  ASSUME IInv, NEW p \in Client, ClientProcess(p)
  PROVE  IInv'
<1>1. MessagesInv /\ ClientsInv /\ ShopInv /\ CallCount \in Nat
  BY CallsCounted DEF IInv
<1>2. CASE Connect(p)
  <2>1. ClientsInv'
    BY <1>1, <1>2 DEF Connect, Step, ClientsInv, ResponseIsOwn
  <2> QED
    BY <1>1, <1>2, <2>1, MessagesLost, ShopKept DEF Connect, Step, IInv, net
<1>3. CASE Submit(p)
  <2>1. Cleared \in Response
    BY BakeryAssumption DEF Cleared, Response, Slots
  <2>2. ClientsInv'
    BY <1>1, <1>3, <2>1 DEF Submit, Step, ClientsInv, ResponseIsOwn
  <2>3. call[p] \in 0 .. CallCount - 1
    BY <1>1, <1>3 DEF Submit, ClientsInv
  <2>4. Sent(Request(p, call[p], IdOf(call[p])))
    BY <2>3 DEF Sent, Request
  <2>5. MessagesInv'
    BY <1>1, <1>3, <2>4 DEF Submit, SendRequest, MessagesInv
  <2> QED
    BY <1>1, <1>3, <2>2, <2>5, ShopKept DEF Submit, Step, SendRequest, IInv
<1>4. CASE TakeReply(p)
  <2>1. PICK a \in replies : AcceptReply(a, p, call[p]) /\ response' = [response EXCEPT ![p] = a.res]
    BY <1>4 DEF TakeReply
  <2>2. Answered(a) /\ a.call = call[p]
    BY <1>1, <2>1 DEF MessagesInv, AcceptReply
  <2>3. a.res = Own(call[p]) /\ a.res \in Response
    BY <2>2, IdBounds DEF Answered
  <2>4. ClientsInv'
    <3>1. /\ pc[p] = "wait" /\ pc' = [pc EXCEPT ![p] = "print"] /\ call' = call
          /\ response' = [response EXCEPT ![p] = Own(call[p])]
      BY <1>4, <2>1, <2>3 DEF TakeReply, Step
    <3>2. ResponseIsOwn'
      BY <1>1, <3>1 DEF ClientsInv, ResponseIsOwn, Own
    <3> QED
      BY <1>1, <2>3, <3>1, <3>2 DEF ClientsInv
  <2>5. requests' = requests /\ serving' = serving /\ replies' \subseteq replies
    BY <2>1 DEF AcceptReply, Received
  <2> QED
    BY <1>1, <1>4, <2>4, <2>5, MessagesLost, ShopKept DEF TakeReply, Step, IInv
<1>5. CASE IgnoreLate(p)
  <2>1. ClientsInv'
    BY <1>1, <1>5 DEF IgnoreLate, Step, ClientsInv, ResponseIsOwn
  <2>2. requests' = requests /\ serving' = serving /\ replies' \subseteq replies
    BY <1>5 DEF IgnoreLate, IgnoreReply, Received
  <2> QED
    BY <1>1, <1>5, <2>1, <2>2, MessagesLost, ShopKept DEF IgnoreLate, Step, IInv
<1>6. CASE CallFails(p) \/ PrintResponse(p)
  <2>1. /\ pc[p] \in {"wait", "print"} /\ pc' = [pc EXCEPT ![p] = "for"]
        /\ call' = [call EXCEPT ![p] = @ + 1] /\ UNCHANGED <<response, net, svc, shop>>
    BY <1>6 DEF CallFails, PrintResponse, Step
  <2>2. call[p] + 1 \in 0 .. CallCount
    BY <1>1, <2>1 DEF ClientsInv
  <2>3. ClientsInv'
    BY <1>1, <2>1, <2>2 DEF ClientsInv, ResponseIsOwn
  <2> QED
    BY <1>1, <2>1, <2>3, MessagesLost, ShopKept DEF IInv, net
<1>7. CASE ClntDestroy(p)
  <2>1. ClientsInv'
    BY <1>1, <1>7 DEF ClntDestroy, Step, ClientsInv, ResponseIsOwn
  <2> QED
    BY <1>1, <1>7, <2>1, MessagesLost, ShopKept DEF ClntDestroy, Step, Destroy, IInv
<1>8. CASE ConnectionBreaks(p)
  <2>1. ClientsInv'
    BY <1>1, <1>8 DEF ConnectionBreaks, clients, ClientsInv, ResponseIsOwn
  <2> QED
    BY <1>1, <1>8, <2>1, MessagesLost, ShopKept DEF ConnectionBreaks, IInv
<1> QED
  BY <1>2, <1>3, <1>4, <1>5, <1>6, <1>7, <1>8 DEF ClientProcess
-----------------------------------------------------------------------------
(* The steps of the server. *)

LEMMA ClientsKept ==
  ASSUME ClientsInv, UNCHANGED clients
  PROVE  ClientsInv'
BY DEF ClientsInv, ResponseIsOwn, clients

LEMMA ServeKeepsIInv ==
  ASSUME IInv, NEW d \in requests, Serve(d)
  PROVE  IInv'
<1>1. MessagesInv /\ ClientsInv /\ ShopInv
  BY DEF IInv
<1>2. serving = {} /\ serving' = {d} /\ requests' \subseteq requests /\ replies' = replies
  BY DEF Serve, Dispatch, Received
<1>3. MessagesInv'
  BY <1>1, <1>2 DEF MessagesInv, Sent, Answered
<1>4. ShopInv'
  BY <1>1, <1>2 DEF Serve, ShopInv, shop
<1> QED
  BY <1>1, <1>3, <1>4, ClientsKept DEF Serve, IInv

LEMMA RoutineKeepsIInv ==
  ASSUME IInv, ServiceRoutine
  PROVE  IInv'
<1>1. MessagesInv /\ ClientsInv /\ ShopInv
  BY DEF IInv
<1>2. UNCHANGED clients
  BY DEF ServiceRoutine, StartChoosing, TakeNumber, WaitForTurn, Finish
<1>3. \A d \in serving : Sent(d) /\ d.arg \in Slots
  BY <1>1, IdBounds DEF MessagesInv, Sent
<1>4. CASE StartChoosing
  <2>1. PICK d \in serving : choosing' = [choosing EXCEPT ![d.arg] = 1]
    BY <1>4 DEF StartChoosing
  <2>2. /\ svc = "choosing" /\ svc' = "number"
        /\ UNCHANGED <<number, turn, ticket, requests, replies, serving>>
    BY <1>4 DEF StartChoosing, net
  <2>3. MessagesInv'
    BY <1>1, <2>2, MessagesLost
  <2>4. ShopInv'
    BY <1>1, <1>3, <2>1, <2>2 DEF ShopInv
  <2> QED
    BY <1>1, <1>2, <2>3, <2>4, ClientsKept DEF IInv
<1>5. CASE TakeNumber
  <2>1. PICK d \in serving : /\ number' = [number EXCEPT ![d.arg] = ticket']
                             /\ choosing' = [choosing EXCEPT ![d.arg] = 0]
    BY <1>5 DEF TakeNumber
  <2>2. /\ svc = "number" /\ svc' = "turn" /\ turn' = 0
        /\ UNCHANGED <<requests, replies, serving>>
    BY <1>5 DEF TakeNumber, net
  <2>3. ticket' = 1
    <3>1. \A c \in Slots : number[c] = 0
      BY <1>1, <2>2 DEF ShopInv
    <3>2. {number[c] : c \in Slots} = {0}
      BY <1>3, <2>1, <3>1
    <3>3. Max({number[c] : c \in Slots}) = 0
      BY <3>2 DEF Max
    <3> QED
      BY <1>5, <3>3 DEF TakeNumber
  <2>4. MessagesInv'
    BY <1>1, <2>2, MessagesLost
  <2>5. ShopInv'
    BY <1>1, <1>3, <2>1, <2>2, <2>3, BakeryAssumption DEF ShopInv
  <2> QED
    BY <1>1, <1>2, <2>4, <2>5, ClientsKept DEF IInv
<1>6. CASE WaitForTurn
  <2>1. /\ svc = "turn" /\ turn' = turn + 1
        /\ svc' = IF turn' = MAX_CLIENTS THEN "serve" ELSE "turn"
        /\ UNCHANGED <<choosing, number, ticket, requests, replies, serving>>
    BY <1>6 DEF WaitForTurn, net
  <2>2. MessagesInv'
    BY <1>1, <2>1, MessagesLost
  <2>3. turn' \in 0 .. MAX_CLIENTS /\ (svc' = "turn" => turn' < MAX_CLIENTS)
    BY <1>1, <2>1, BakeryAssumption DEF ShopInv
  <2>4. ShopInv'
    BY <1>1, <2>1, <2>3 DEF ShopInv
  <2> QED
    BY <1>1, <1>2, <2>2, <2>4, ClientsKept DEF IInv
<1>7. CASE Finish
  <2>1. PICK d \in serving :
          /\ number' = [number EXCEPT ![d.arg] = 0]
          /\ SendReply([client_id |-> d.arg, ticket_number |-> ticket,
                        queue_position |-> ticket])
    BY <1>7 DEF Finish
  <2>2. serving = {d} /\ svc = "serve" /\ svc' = "svc_run" /\ ticket = 1
        /\ UNCHANGED <<choosing, turn, ticket>>
    BY <1>1, <1>7 DEF Finish, ShopInv
  <2>3. Answered(ReplyTo(d, Own(d.call)))
    BY <1>3 DEF Sent, Answered, ReplyTo
  <2>4. /\ replies' = replies \cup {ReplyTo(d, Own(d.call))}
        /\ serving' = {} /\ requests' = requests
    BY <1>3, <2>1, <2>2 DEF SendReply, Sent, Own
  <2>5. MessagesInv'
    BY <1>1, <2>3, <2>4 DEF MessagesInv, Sent, Answered
  <2>6. ShopInv'
    BY <1>1, <1>3, <2>1, <2>2, <2>4 DEF ShopInv
  <2> QED
    BY <1>1, <1>2, <2>5, <2>6, ClientsKept DEF IInv
<1> QED
  BY <1>4, <1>5, <1>6, <1>7 DEF ServiceRoutine
-----------------------------------------------------------------------------
(* The theorems. *)

\* The invariant holds in every state of every run.
THEOREM Invariance == Spec => []IInv
<1>1. Init => IInv
  BY CallsCounted, BakeryAssumption
     DEF Init, RpcInit, IInv, MessagesInv, ClientsInv, ShopInv, ResponseIsOwn,
         Cleared, Response, Slots
<1>2. IInv /\ [Next]_vars => IInv'
  <2> SUFFICES ASSUME IInv, [Next]_vars
               PROVE  IInv'
    OBVIOUS
  <2>1. CASE \E p \in Client : ClientProcess(p)
    BY <2>1, ClientKeepsIInv
  <2>2. CASE \E d \in requests : Serve(d)
    BY <2>2, ServeKeepsIInv
  <2>3. CASE ServiceRoutine
    BY <2>3, RoutineKeepsIInv
  <2>4. CASE UNCHANGED vars
    <3>1. UNCHANGED clients /\ UNCHANGED <<svc, shop, requests, replies, serving>>
      BY <2>4 DEF vars, net
    <3> QED
      BY <3>1, ClientsKept, MessagesLost, ShopKept DEF IInv
  <2> QED
    BY <2>1, <2>2, <2>3, <2>4 DEF Next, Terminated
<1> QED
  BY <1>1, <1>2, PTL DEF Spec

\* bakery_server.c:17-50: nobody but the client being served is choosing or
\* has a number.
THEOREM OneInTheShop == Spec => []NobodyElseQueues
<1>1. IInv => NobodyElseQueues
  BY DEF IInv, ShopInv, NobodyElseQueues
<1> QED
  BY <1>1, Invariance, PTL

\* bakery_server.c:38-50: the busy waits of the service routine never go
\* round, so the only thread of the server never waits for itself.
THEOREM ServerNeverWaits == Spec => []NeverWaits
<1>1. IInv => NeverWaits
  BY IInvImpliesNeverWaits
<1> QED
  BY <1>1, Invariance, PTL

\* bakery_client.c:67-78: whatever calls timed out before, the response to a
\* call is the one to its own request.
THEOREM ResponsesAreOwn == Spec => []ResponseIsOwn
<1>1. IInv => ResponseIsOwn
  BY DEF IInv, ClientsInv
<1> QED
  BY <1>1, Invariance, PTL

\* Every variable of the bakery has its type.
THEOREM TypeCorrectness == Spec => []TypeOK
<1>1. IInv => TypeOK
  BY IInvImpliesTypeOK
<1> QED
  BY <1>1, Invariance, PTL
=============================================================================

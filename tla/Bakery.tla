------------------------------- MODULE Bakery -------------------------------
(***************************************************************************)
(* working_rpc_another/bakery: a server whose service routine takes a      *)
(* ticket and waits for its turn as in Lamport's bakery algorithm, and     *)
(* client processes that call it over TCP and give up after 25 seconds.    *)
(* Every client process calls in the name of the clients 1 .. CLIENTS, one *)
(* call after the other, so that several may use the same client_id.       *)
(***************************************************************************)
EXTENDS Integers, FiniteSetsExt, SunRpc

CONSTANTS
  MAX_CLIENTS,
  CLIENTS,    \* the client_ids a process uses, 3
  REQUESTS    \* the requests it makes in the name of each, 3

ASSUME BakeryAssumption ==
  /\ CLIENTS \in Nat \ {0} /\ REQUESTS \in Nat \ {0}
  /\ MAX_CLIENTS \in Nat /\ MAX_CLIENTS > CLIENTS
  /\ Udp = FALSE

VARIABLES
  pc,         \* where each client process is
  call,       \* the number of its call, from 0
  response,   \* the static reply of its stub
  svc,        \* where the server is
  choosing, number,
  turn,       \* the loop variable of wait_for_turn()
  ticket

clients == <<pc, call, response>>
shop == <<choosing, number, turn, ticket>>
vars == <<clients, svc, shop, net>>

Slots == 0 .. MAX_CLIENTS - 1
CallCount == CLIENTS * REQUESTS

\* The client_id of the n-th call of a process.
IdOf(n) == (n \div REQUESTS) + 1

\* The fields of a BAKERY_RESPONSE, but for the text; memset() clears them.
Response == [client_id : Slots, ticket_number : Nat, queue_position : Nat]
Cleared == [client_id |-> 0, ticket_number |-> 0, queue_position |-> 0]

Init ==
  /\ pc = [p \in Client |-> "clnt_create"]
  /\ call = [p \in Client |-> 0]
  /\ response = [p \in Client |-> Cleared]
  /\ svc = "svc_run"
  /\ choosing = [c \in Slots |-> 0] /\ number = [c \in Slots |-> 0]
  /\ turn = 0 /\ ticket = 0
  /\ RpcInit
-----------------------------------------------------------------------------
(* main() of bakery_client.c, and submit_request_1() *)

Step(p, from, to) ==
  /\ pc[p] = from
  /\ pc' = [pc EXCEPT ![p] = to]
  /\ UNCHANGED <<svc, shop>>

\* clnt_create() connects, or returns NULL and the process exits.
Connect(p) ==
  /\ Step(p, "clnt_create", "for") \/ Step(p, "clnt_create", "exit1")
  /\ UNCHANGED <<call, response, net>>

Submit(p) ==
  /\ call[p] < CallCount
  /\ Step(p, "for", "wait")
  /\ response' = [response EXCEPT ![p] = Cleared]
  /\ SendRequest(p, call[p], IdOf(call[p]))
  /\ UNCHANGED call

\* TCP delivers the replies in order: a late one comes first, and is dropped.
OldestReply(a) == \A b \in replies : b.to = a.to => a.call <= b.call

TakeReply(p) ==
  /\ Step(p, "wait", "print")
  /\ \E a \in replies :
       /\ OldestReply(a) /\ AcceptReply(a, p, call[p])
       /\ response' = [response EXCEPT ![p] = a.res]
  /\ UNCHANGED call

IgnoreLate(p) ==
  /\ Step(p, "wait", "wait")
  /\ \E a \in replies : OldestReply(a) /\ IgnoreReply(a, p, call[p])
  /\ UNCHANGED <<call, response>>

\* No reply in 25 seconds: NULL, and the next call on the same connection.
CallFails_Unchecked(p) ==
  /\ Step(p, "wait", "print")
  /\ UNCHANGED <<call, response, net>>
CallFails(p) ==
  /\ Step(p, "wait", "for")
  /\ call' = [call EXCEPT ![p] = @ + 1]
  /\ UNCHANGED <<response, net>>

PrintResponse(p) ==
  /\ Step(p, "print", "for")
  /\ call' = [call EXCEPT ![p] = @ + 1]
  /\ UNCHANGED <<response, net>>

ClntDestroy(p) ==
  /\ call[p] = CallCount
  /\ Step(p, "for", "exit0")
  /\ Destroy(p)
  /\ UNCHANGED <<call, response>>

Over(p) == pc[p] \in {"exit0", "exit1"}

\* The connection of a process that is over breaks, with what is left on it.
ConnectionBreaks(p) ==
  /\ Over(p)
  /\ requests' = {d \in requests : d.from # p}
  /\ UNCHANGED <<replies, serving, clients, svc, shop>>

ClientProcess(p) ==
  \/ Connect(p) \/ Submit(p) \/ TakeReply(p) \/ IgnoreLate(p) \/ CallFails(p)
  \/ PrintResponse(p) \/ ClntDestroy(p) \/ ConnectionBreaks(p)
-----------------------------------------------------------------------------
(* The server: bakery_prog_1(), get_ticket(), wait_for_turn() and          *)
(* submit_request_1_svc()                                                  *)

\* The requests of one connection are served in order.
Serve(d) ==
  /\ svc = "svc_run" /\ svc' = "choosing"
  /\ \A e \in requests : e.from = d.from => d.call <= e.call
  /\ Dispatch(d)
  /\ UNCHANGED <<clients, shop>>

StartChoosing ==
  /\ svc = "choosing" /\ svc' = "number"
  /\ \E d \in serving : choosing' = [choosing EXCEPT ![d.arg] = 1]
  /\ UNCHANGED <<number, turn, ticket, clients, net>>

TakeNumber_StillChoosing ==
  /\ svc = "number" /\ svc' = "turn"
  /\ ticket' = Max({number[c] : c \in Slots}) + 1
  /\ \E d \in serving : number' = [number EXCEPT ![d.arg] = ticket']
  /\ turn' = 0
  /\ UNCHANGED <<choosing, clients, net>>
TakeNumber ==
  /\ svc = "number" /\ svc' = "turn"
  /\ ticket' = Max({number[c] : c \in Slots}) + 1
  /\ \E d \in serving :
       /\ number' = [number EXCEPT ![d.arg] = ticket']
       /\ choosing' = [choosing EXCEPT ![d.arg] = 0]
  /\ turn' = 0
  /\ UNCHANGED <<clients, net>>

\* The client c is to be served before the client d.
Before(c, d) ==
  /\ number[c] # 0
  /\ number[c] < number[d] \/ (number[c] = number[d] /\ c < d)

\* wait_for_turn() leaves a client behind when it need not wait for it.
WaitForTurn ==
  /\ svc = "turn"
  /\ choosing[turn] = 0
  /\ \E d \in serving : ~Before(turn, d.arg)
  /\ turn' = turn + 1
  /\ svc' = IF turn' = MAX_CLIENTS THEN "serve" ELSE "turn"
  /\ UNCHANGED <<choosing, number, ticket, clients, net>>

\* The client has been served: it gives its number back and gets its reply.
Finish_KeepsNumber ==
  /\ svc = "serve" /\ svc' = "svc_run"
  /\ \E d \in serving :
       SendReply([client_id |-> d.arg, ticket_number |-> ticket, queue_position |-> ticket])
  /\ UNCHANGED <<shop, clients>>
Finish ==
  /\ svc = "serve" /\ svc' = "svc_run"
  /\ \E d \in serving :
       /\ number' = [number EXCEPT ![d.arg] = 0]
       /\ SendReply([client_id |-> d.arg, ticket_number |-> ticket, queue_position |-> ticket])
  /\ UNCHANGED <<choosing, turn, ticket, clients>>

ServiceRoutine == StartChoosing \/ TakeNumber \/ WaitForTurn \/ Finish

Terminated ==
  /\ \A p \in Client : Over(p)
  /\ requests = {} /\ svc = "svc_run"
  /\ UNCHANGED vars

Next ==
  \/ \E p \in Client : ClientProcess(p)
  \/ \E d \in requests : Serve(d)
  \/ ServiceRoutine
  \/ Terminated

Spec == Init /\ [][Next]_vars

\* The next request of the process p is dispatched.
ServeNext(p) == \E d \in requests : d.from = p /\ Serve(d)

(***************************************************************************)
(* The server is scheduled, and svc_run() looks at every connection that   *)
(* has something to read.  Nothing is assumed about the clients.           *)
(***************************************************************************)
FairSpec ==
  /\ Spec
  /\ WF_vars(ServiceRoutine)
  /\ \A p \in Client : SF_vars(ServeNext(p))
-----------------------------------------------------------------------------
(* Properties *)

\* Every variable has its type; what is served is what the dispatcher holds.
TypeOK ==
  /\ pc \in [Client -> {"clnt_create", "for", "wait", "print", "exit0", "exit1"}]
  /\ call \in [Client -> 0 .. CallCount]
  /\ response \in [Client -> Response]
  /\ svc \in {"svc_run", "choosing", "number", "turn", "serve"}
  /\ choosing \in [Slots -> {0, 1}] /\ number \in [Slots -> Nat]
  /\ turn \in 0 .. MAX_CLIENTS /\ ticket \in Nat
  /\ \A d \in requests \cup serving :
       d.from \in Client /\ d.call \in 0 .. CallCount - 1 /\ d.arg \in 1 .. CLIENTS
  /\ \A a \in replies : a.to \in Client /\ a.call \in 0 .. CallCount - 1 /\ a.res \in Response
  /\ (svc = "svc_run") <=> (serving = {})

(***************************************************************************)
(* bakery_server.c:17-50, 83-85.  The dispatcher serves one request at a   *)
(* time, so nobody but the client it serves is choosing or has a number:   *)
(* wait_for_turn() never has anybody to wait for, whom the server, busy    *)
(* waiting, could then not serve.                                          *)
(***************************************************************************)
NobodyElseQueues ==
  \A c \in Slots :
    choosing[c] # 0 \/ number[c] # 0 => \E d \in serving : d.arg = c

(***************************************************************************)
(* bakery_client.c:67-78.  A process that gets a response gets its own,    *)
(* even if calls before it timed out and were answered late; and the       *)
(* ticket and the queue position in it are always 1.                       *)
(***************************************************************************)
ResponseIsOwn ==
  \A p \in Client : pc[p] = "print" =>
    response[p] = [client_id |-> IdOf(call[p]), ticket_number |-> 1, queue_position |-> 1]

(***************************************************************************)
(* bakery_server.c:38-50.  No request stays in the queue of the server for *)
(* ever, and none stays in its service routine.                            *)
(***************************************************************************)
EveryRequestIsServed ==
  /\ \A p \in Client : \A n \in 0 .. CallCount - 1 :
       Request(p, n, IdOf(n)) \in requests ~> Request(p, n, IdOf(n)) \notin requests
  /\ serving # {} ~> serving = {}
=============================================================================

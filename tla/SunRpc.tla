------------------------------- MODULE SunRpc -------------------------------
(***************************************************************************)
(* What the RPC programs are built on: a client handle sends requests and  *)
(* takes replies, a dispatcher made by rpcgen serves one request at a time *)
(* (svc_run() calls it, and it returns only when the reply is sent).       *)
(*                                                                         *)
(* A call of a handle is named by its number, which stands for the xid:    *)
(* clnt_call() takes a new one for every call and none for a retry.        *)
(* requests and replies are what is on its way, in no order.  Over UDP a   *)
(* datagram may come twice, a retry sends it again, and it may be lost: a  *)
(* datagram once sent may be received any number of times, or never, and   *)
(* receiving it takes nothing away.  Over TCP it is received once.         *)
(***************************************************************************)
EXTENDS Naturals

CONSTANTS
  Client,    \* the handles
  Udp        \* the handles use UDP

ASSUME SunRpcAssumption == Udp \in BOOLEAN

VARIABLES
  requests, replies,
  serving    \* the request in the dispatcher: {}, or one request

net == <<requests, replies, serving>>

\* The record of a request and the reply to it.
Request(c, call, arg) == [from |-> c, call |-> call, arg |-> arg]
ReplyTo(d, res) == [to |-> d.from, call |-> d.call, res |-> res]

\* What is on its way once the message m of S has been received.
Received(S, m) == IF Udp THEN S ELSE S \ {m}

RpcInit == requests = {} /\ replies = {} /\ serving = {}
-----------------------------------------------------------------------------
(* The client's side: clnt_call(). *)

\* The request is sent, once or, over UDP, until there is a reply.
SendRequest(c, call, arg) ==
  /\ requests' = requests \cup {Request(c, call, arg)}
  /\ UNCHANGED <<replies, serving>>

\* A reply whose xid is the call's ends the call.
AcceptReply(a, c, call) ==
  /\ a \in replies /\ a.to = c /\ a.call = call
  /\ replies' = Received(replies, a)
  /\ UNCHANGED <<requests, serving>>

\* Any other reply is read and dropped.
IgnoreReply(a, c, call) ==
  /\ a \in replies /\ a.to = c /\ a.call # call
  /\ replies' = Received(replies, a)
  /\ UNCHANGED <<requests, serving>>

\* clnt_destroy() closes the socket.
Destroy(c) ==
  /\ replies' = {a \in replies : a.to # c}
  /\ UNCHANGED <<requests, serving>>
-----------------------------------------------------------------------------
(* The server's side: the dispatcher of the generated *_svc.c. *)

\* The dispatcher is called with the request d and decodes its argument.
Dispatch(d) ==
  /\ serving = {}
  /\ d \in requests
  /\ requests' = Received(requests, d)
  /\ serving' = {d}
  /\ UNCHANGED replies

\* svc_sendreply(), and back to svc_run().
SendReply(res) ==
  /\ replies' = replies \cup {ReplyTo(d, res) : d \in serving}
  /\ serving' = {}
  /\ UNCHANGED requests
=============================================================================

---------------------------- MODULE HpcTransport ----------------------------
(***************************************************************************)
(* MQSSHPCClient (src/clients/hpc_client.cpp) over MQSSRabbitMQClient      *)
(* (src/clients/rabbitmq_client.cpp): get, post and del put a request on   *)
(* the offload listener's queue, which all clients share, and then block   *)
(* on the response queue of their own object.  Broker and listener are     *)
(* external.                                                               *)
(*                                                                         *)
(* A message carries nothing that ties an answer to its request: a client  *)
(* takes whatever its response queue delivers next.  The k-th call of      *)
(* client c is identified here by [from |-> c, num |-> k].                 *)
(*                                                                         *)
(* The queues are declared by the constructor; they are not durable, so    *)
(* they disappear only with the broker, together with the connections.     *)
(* basic_consume adds a consumer to the one channel on every receive; all  *)
(* of them feed the same amqp_consume_message, so they are not told apart. *)
(***************************************************************************)
EXTENDS Naturals, Sequences, SequencesExt

CONSTANTS
  Client,        \* MQSSHPCClient objects
  MaxCalls,      \* bound: calls of one object
  MaxRedeliver,  \* bound: requests the broker hands to the listener again
  MaxRestarts    \* bound: restarts of the broker

ASSUME HpcAssumption ==
  /\ MaxCalls \in Nat
  /\ MaxRedeliver \in Nat
  /\ MaxRestarts \in Nat

VARIABLES
  conn,          \* the connection of each object, with its one channel
  pc,            \* where each object is in get, post or del
  method,        \* the method of its current or last call
  calls,         \* calls begun: the last one has this number
  out,           \* how the last call ended
  heard,         \* the message its receive returned; num is 0 if there was none
  turn,          \* history: which answer the k-th call takes, counting from 1
  offload,       \* broker: the listener's request queue
  response,      \* answers on the way to each object: its response queue and, once
                 \* the connection is gone, what was delivered before
  carried,       \* listener: how often it carried out each call
  redelivered,   \* redeliveries so far
  restarts       \* restarts so far

clientVars == <<conn, pc, method, calls, out, heard, turn>>
vars == <<clientVars, offload, response, carried, redelivered, restarts>>

Message == [from : Client, num : 1..MaxCalls]
Nothing(c) == [from |-> c, num |-> 0]
Method == {"GET", "POST", "DELETE"}

\* An object that was constructed is "open", "refused" (the broker closed its
\* channel, the connection is up) or "dead" (the connection is gone, and nothing
\* tells the object); "declaring" is one whose constructor has not returned.
Usable == {"open", "refused", "dead"}
Connection == Usable \cup {"new", "declaring", "closed"}

TypeOK ==
  /\ conn \in [Client -> Connection]
  /\ pc \in [Client -> {"idle", "send", "receive"}]
  /\ method \in [Client -> Method]
  /\ calls \in [Client -> 0..MaxCalls]
  /\ out \in [Client -> {"pending", "body", "error", "done", "throw"}]
  /\ heard \in [Client -> [from : Client, num : 0..MaxCalls]]
  /\ turn \in [Client -> [0..MaxCalls -> Nat]]
  /\ offload \in Seq(Message)
  /\ response \in [Client -> Seq(Message)]
  /\ carried \in [Client -> [1..MaxCalls -> Nat]]
  /\ redelivered \in 0..MaxRedeliver
  /\ restarts \in 0..MaxRestarts

Init ==
  /\ conn = [c \in Client |-> "new"]
  /\ pc = [c \in Client |-> "idle"]
  /\ method = [c \in Client |-> "GET"]
  /\ calls = [c \in Client |-> 0]
  /\ out = [c \in Client |-> "pending"]
  /\ heard = [c \in Client |-> Nothing(c)]
  /\ turn = [c \in Client |-> [k \in 0..MaxCalls |-> 0]]
  /\ offload = <<>>
  /\ response = [c \in Client |-> <<>>]
  /\ carried = [c \in Client |-> [k \in 1..MaxCalls |-> 0]]
  /\ redelivered = 0
  /\ restarts = 0

----------------------------------------------------------------------------
(* The client *)

\* mResponseQueueName ends in a random suffix of its own for every object.
ResponseQueueOfHost(c) == CHOOSE d \in Client : TRUE
ResponseQueue(c) == c

\* connect fails at the socket, the login or the channel, or succeeds.
Connect == {"failed", "connected"}

\* A queue_declare the broker refuses closes the channel, not the connection.
\* declareQueue ignores the answer and remembers the name, the broker ignores all
\* that follows on the channel but its closing, and the next synchronous call has no
\* timeout.  After the first declaration this is the second one, which keeps the
\* constructor; after the second one it is basic_consume in the first receive.
DeclareQueues == {"open", "declaring", "refused"}

\* When connect fails the constructor throws and ~MQSSRabbitMQClient disconnects.
Construct(c) ==
  /\ conn[c] = "new"
  /\ \E r \in Connect :
       \/ /\ r = "failed"
          /\ conn' = [conn EXCEPT ![c] = "closed"]
       \/ /\ r = "connected"
          /\ \E s \in DeclareQueues : conn' = [conn EXCEPT ![c] = s]
  /\ UNCHANGED <<pc, method, calls, out, heard, turn,
                 offload, response, carried, redelivered, restarts>>

Destroy(c) ==
  /\ conn[c] \in Usable
  /\ pc[c] = "idle"
  /\ conn' = [conn EXCEPT ![c] = "closed"]
  /\ UNCHANGED <<pc, method, calls, out, heard, turn,
                 offload, response, carried, redelivered, restarts>>

\* get, post or del is called.  A call that threw took no answer: the next one
\* takes the answer it would have taken.
Call(c, m) ==
  /\ conn[c] \in Usable
  /\ pc[c] = "idle"
  /\ calls[c] < MaxCalls
  /\ pc' = [pc EXCEPT ![c] = "send"]
  /\ method' = [method EXCEPT ![c] = m]
  /\ calls' = [calls EXCEPT ![c] = @ + 1]
  /\ out' = [out EXCEPT ![c] = "pending"]
  /\ heard' = [heard EXCEPT ![c] = Nothing(c)]
  /\ turn' = [turn EXCEPT ![c][calls[c] + 1] =
                turn[c][calls[c]] + IF out[c] = "throw" THEN 0 ELSE 1]
  /\ UNCHANGED <<conn, offload, response, carried, redelivered, restarts>>

Return(c, o, m) ==
  /\ pc' = [pc EXCEPT ![c] = "idle"]
  /\ out' = [out EXCEPT ![c] = o]
  /\ heard' = [heard EXCEPT ![c] = m]

SendPrevious(c) ==
  /\ pc[c] = "send"
  /\ conn[c] = "open"
  /\ pc' = [pc EXCEPT ![c] = "receive"]
  /\ offload' = Append(offload, [from |-> c, num |-> calls[c] - 1])
  /\ UNCHANGED <<conn, method, calls, out, heard, turn,
                 response, carried, redelivered, restarts>>

SendTwice(c) ==
  /\ pc[c] = "send"
  /\ conn[c] = "open"
  /\ pc' = [pc EXCEPT ![c] = "receive"]
  /\ LET m == [from |-> c, num |-> calls[c]]
     IN offload' = Append(Append(offload, m), m)
  /\ UNCHANGED <<conn, method, calls, out, heard, turn,
                 response, carried, redelivered, restarts>>

\* amqp_basic_publish returns 0.  It does not wait for the broker, which ignores
\* a closed channel; and the socket may take bytes for a connection that is gone.
SendAccepted(c) ==
  /\ pc[c] = "send"
  /\ pc' = [pc EXCEPT ![c] = "receive"]
  /\ \/ /\ conn[c] = "open"
        /\ offload' = Append(offload, [from |-> c, num |-> calls[c]])
     \/ /\ conn[c] \in {"refused", "dead"}
        /\ UNCHANGED offload
  /\ UNCHANGED <<conn, method, calls, out, heard, turn,
                 response, carried, redelivered, restarts>>

\* amqp_basic_publish returns an error: del throws, get and post go on.
SendErrorIgnored(c) ==
  /\ pc[c] = "send"
  /\ pc' = [pc EXCEPT ![c] = "receive"]
  /\ UNCHANGED <<conn, method, calls, out, heard, turn,
                 offload, response, carried, redelivered, restarts>>

SendErrorSilent(c) ==
  /\ pc[c] = "send"
  /\ method[c] = "DELETE"
  /\ Return(c, "done", Nothing(c))
  /\ UNCHANGED <<conn, method, calls, turn,
                 offload, response, carried, redelivered, restarts>>

SendError(c) ==
  /\ pc[c] = "send"
  /\ \/ /\ method[c] = "DELETE"
        /\ Return(c, "throw", Nothing(c))
     \/ /\ method[c] # "DELETE"
        /\ pc' = [pc EXCEPT ![c] = "receive"]
        /\ UNCHANGED <<out, heard>>
  /\ UNCHANGED <<conn, method, calls, turn,
                 offload, response, carried, redelivered, restarts>>

\* receive: wait without limit for the next message, acknowledge and return
\* it, or return the text of the library's error.  del drops either.  Messages
\* that were delivered before the connection was lost can still be read; after
\* an error nothing more is.
ReceiveValue(c, o) == IF method[c] = "DELETE" THEN "done" ELSE o

ReceiveMessage(c) ==
  LET q == ResponseQueue(c)
  IN /\ pc[c] = "receive"
     /\ conn[c] \in {"open", "dead"}
     /\ response[q] # <<>>
     /\ Return(c, ReceiveValue(c, "body"), Head(response[q]))
     /\ response' = [response EXCEPT ![q] = Tail(@)]
     /\ UNCHANGED <<conn, method, calls, turn, offload, carried, redelivered, restarts>>

ReceiveErrorRetried(c) == FALSE

ReceiveError(c) ==
  /\ pc[c] = "receive"
  /\ conn[c] = "dead"
  /\ Return(c, ReceiveValue(c, "error"), Nothing(c))
  /\ response' = [response EXCEPT ![ResponseQueue(c)] = <<>>]
  /\ UNCHANGED <<conn, method, calls, turn, offload, carried, redelivered, restarts>>

----------------------------------------------------------------------------
(* Broker and listener (external) *)

Up == {"declaring", "open", "refused"}

\* The consumers of an object have no prefetch limit: some of its answers may
\* have been delivered when its connection goes down.  Nobody takes the others.
Delivered(c) == IF conn[c] \in Up THEN Prefixes(response[c]) ELSE {response[c]}

\* A connection is lost: network, or heartbeats the client did not answer
\* because it was outside the library for too long.  Nothing reconnects it; a
\* constructor that waits for its second declaration returns.
Disconnect(c) ==
  /\ conn[c] \in Up
  /\ conn' = [conn EXCEPT ![c] = "dead"]
  /\ \E got \in Delivered(c) : response' = [response EXCEPT ![c] = got]
  /\ UNCHANGED <<pc, method, calls, out, heard, turn,
                 offload, carried, redelivered, restarts>>

\* Persistent messages do not survive a restart in a queue that is not durable.
BrokerRestart ==
  /\ restarts < MaxRestarts
  /\ restarts' = restarts + 1
  /\ conn' = [c \in Client |-> IF conn[c] \in Up THEN "dead" ELSE conn[c]]
  /\ offload' = <<>>
  /\ \E got \in [Client -> UNION {Delivered(c) : c \in Client}] :
       /\ \A c \in Client : got[c] \in Delivered(c)
       /\ response' = got
  /\ UNCHANGED <<pc, method, calls, out, heard, turn, carried, redelivered>>

\* The answer to an object without its connection stays in a queue nobody reads.
Published(r) ==
  IF conn[r.from] = "open"
  THEN [response EXCEPT ![ResponseQueue(r.from)] = Append(@, r)]
  ELSE response

\* The listener carries out the first request and publishes the answer.
Serve ==
  /\ offload # <<>>
  /\ LET r == Head(offload)
     IN /\ carried' = [carried EXCEPT ![r.from][r.num] = @ + 1]
        /\ response' = Published(r)
  /\ offload' = Tail(offload)
  /\ UNCHANGED <<clientVars, redelivered, restarts>>

\* It fails before acknowledging the request, having published or not: the
\* broker hands the same request out again.
ServeAndFail ==
  /\ offload # <<>>
  /\ redelivered < MaxRedeliver
  /\ redelivered' = redelivered + 1
  /\ LET r == Head(offload)
     IN /\ carried' = [carried EXCEPT ![r.from][r.num] = @ + 1]
        /\ response' \in {response, Published(r)}
  /\ UNCHANGED <<clientVars, offload, restarts>>

----------------------------------------------------------------------------
(* The specification *)

\* An object inside a call; a call never ends by itself while it waits on a
\* connection that is up, for a message or for the reply of a closed channel.
Proceed(c) ==
  SendAccepted(c) \/ SendError(c) \/ ReceiveMessage(c) \/ ReceiveError(c)

Next ==
  \/ \E c \in Client :
       \/ Construct(c)
       \/ Destroy(c)
       \/ \E m \in Method : Call(c, m)
       \/ Proceed(c)
       \/ Disconnect(c)
  \/ BrokerRestart
  \/ Serve
  \/ ServeAndFail

Spec == Init /\ [][Next]_vars

\* The library returns from every call but those waits, and the listener is up
\* often enough to serve its queue.
FairSpec ==
  /\ Spec
  /\ \A c \in Client : WF_vars(Proceed(c))
  /\ WF_vars(Serve)

----------------------------------------------------------------------------
(* Properties *)

\* A message handed to a caller answers a request of the same object, never
\* one of another client on the shared request queue, and it answers the call
\* in progress up to one call of lag for every redelivered request, where
\* cancellations that threw because they could not be sent do not count:
\* receive takes the next message whatever it answers.
ReplyLag ==
  \A c \in Client :
    heard[c].num # 0 =>
      /\ heard[c].from = c
      /\ heard[c].num <= calls[c]
      /\ turn[c][calls[c]] <= turn[c][heard[c].num] + redelivered
      /\ carried[c][heard[c].num] > 0

\* A cancellation that waits for its answer has a request or an answer on the
\* way, as long as its connection is up: del checks what send returned.  (get
\* and post do not, and can wait for an answer nobody will send.)
DelWaitsForAnswer ==
  \A c \in Client :
    (pc[c] = "receive" /\ method[c] = "DELETE" /\ conn[c] = "open") =>
      \/ Contains(offload, [from |-> c, num |-> calls[c]])
      \/ response[c] # <<>>

\* A request is carried out at most once more than it was redelivered, whoever
\* crashed or disconnected in between: send never repeats a request.
CarriedOnce ==
  \A c \in Client : \A k \in 1..MaxCalls :
    carried[c][k] <= IF k <= calls[c] THEN 1 + redelivered ELSE 0

\* Every call whose request reached the listener's queue returns, with an
\* answer or, when the connection is lost, without one.
AcceptedCallReturns ==
  \A c \in Client :
    (pc[c] = "receive" /\ Contains(offload, [from |-> c, num |-> calls[c]]))
      ~> pc[c] = "idle"

\* The promise of MQSSBaseClient: with a listener that acknowledges what it has
\* served, every answer handed to a caller is that of the very call.
Abstract == INSTANCE Transport WITH
  busy  <- [c \in Client |-> pc[c] # "idle"],
  heard <- [c \in Client |-> heard[c].num]

ImplementsTransport == Abstract!Spec
=============================================================================

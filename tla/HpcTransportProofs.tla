------------------------- MODULE HpcTransportProofs -------------------------
(***************************************************************************)
(* What MQSSHPCClient over MQSSRabbitMQClient guarantees for any number of *)
(* objects, calls, redeliveries and broker restarts.                       *)
(***************************************************************************)
EXTENDS HpcTransport, TLAPS

----------------------------------------------------------------------------
(* The inductive invariant *)

\* A message on the way belongs to a call that was sent.  If that is an earlier
\* call than the current one, it takes an earlier answer too.
WasSent(m) ==
  /\ m.num <= calls[m.from]
  /\ m.num < calls[m.from] => turn[m.from][m.num] < turn[m.from][calls[m.from]]
  /\ (pc[m.from] = "send" \/ (pc[m.from] = "idle" /\ out[m.from] = "throw"))
       => m.num < calls[m.from]

\* The next answer is due to the next call: the last one took or gave up its own.
Due(c) == IF pc[c] = "idle" /\ out[c] # "throw" THEN 1 ELSE 0

\* An object calls only once it is constructed.
CallInv ==
  \A c \in Client :
    /\ pc[c] # "idle" => calls[c] > 0
    /\ conn[c] = "new" => calls[c] = 0

\* Every request in the shared queue was sent by its client, and every answer
\* lies in the response queue of the object it is for.
SentInv ==
  /\ \A i \in 1..Len(offload) : WasSent(offload[i])
  /\ \A c \in Client : \A i \in 1..Len(response[c]) :
       /\ response[c][i].from = c
       /\ WasSent(response[c][i])

\* The requests of one client stand in the order in which they were sent.
OrderInv ==
  \A i, j \in 1..Len(offload) :
    (i < j /\ offload[i].from = offload[j].from) =>
      turn[offload[i].from][offload[i].num] < turn[offload[j].from][offload[j].num]

\* The i-th answer on its way to an object is late by no more calls than there
\* were redeliveries when its turn comes.  As long as the connection is up so is
\* the answer to a request, which will be published behind those already there.
LagInv ==
  \A c \in Client :
    /\ conn[c] = "open" =>
         \A i \in 1..Len(offload) : offload[i].from = c =>
           turn[c][calls[c]] + Len(response[c]) + Due(c)
             <= turn[c][offload[i].num] + redelivered
    /\ \A i \in 1..Len(response[c]) :
         turn[c][calls[c]] + (i - 1) + Due(c)
           <= turn[c][response[c][i].num] + redelivered

\* A request still in the queue was carried out only by listeners that failed
\* before acknowledging it; an answer is that of a call carried out; a call not
\* sent yet was never carried out.
CarriedInv ==
  /\ \A i \in 1..Len(offload) :
       carried[offload[i].from][offload[i].num] <= redelivered
  /\ \A c \in Client : \A i \in 1..Len(response[c]) :
       carried[c][response[c][i].num] > 0
  /\ \A c \in Client : \A k \in 1..MaxCalls :
       /\ carried[c][k] <= 1 + redelivered
       /\ (k > calls[c] \/ (k = calls[c] /\ pc[c] = "send")) => carried[c][k] = 0

\* Inside a call nothing was received yet.
HeardInv ==
  \A c \in Client :
    /\ pc[c] # "idle" => heard[c] = Nothing(c)
    /\ heard[c].from = c

IInv ==
  /\ TypeOK
  /\ CallInv
  /\ SentInv
  /\ OrderInv
  /\ LagInv
  /\ CarriedInv
  /\ HeardInv
  /\ ReplyLag

----------------------------------------------------------------------------
(* Types and the initial state *)

\* The messages in the queues name a client and a call.
LEMMA MessageTypes ==
  ASSUME TypeOK
  PROVE  /\ Len(offload) \in Nat
         /\ \A i \in 1..Len(offload) :
              /\ offload[i] \in Message
              /\ offload[i].from \in Client
              /\ offload[i].num \in 1..MaxCalls
         /\ \A c \in Client : Len(response[c]) \in Nat
         /\ \A c \in Client : \A i \in 1..Len(response[c]) :
              /\ response[c][i] \in Message
              /\ response[c][i].from \in Client
              /\ response[c][i].num \in 1..MaxCalls
<1>1. ASSUME NEW m \in Message PROVE m.from \in Client /\ m.num \in 1..MaxCalls
  BY DEF Message
<1>2. offload \in Seq(Message) /\ \A c \in Client : response[c] \in Seq(Message)
  BY DEF TypeOK
<1>3. \A i \in 1..Len(offload) : offload[i] \in Message
  BY <1>2
<1>4. \A c \in Client : \A i \in 1..Len(response[c]) : response[c][i] \in Message
  BY <1>2
<1> QED
  BY <1>1, <1>2, <1>3, <1>4

\* Calls, turns and counts of carried-out requests are natural numbers.
LEMMA CounterTypes ==
  ASSUME TypeOK
  PROVE  /\ redelivered \in Nat
         /\ MaxCalls \in Nat
         /\ \A c \in Client :
              /\ calls[c] \in 0..MaxCalls
              /\ Due(c) \in 0..1
              /\ \A k \in 0..MaxCalls : turn[c][k] \in Nat
              /\ \A k \in 1..MaxCalls : carried[c][k] \in Nat
BY HpcAssumption DEF TypeOK, Due

\* A call moves the debt of one answer from Due to the turn of the new call.
LEMMA SameSum ==
  ASSUME NEW a \in Nat, NEW b \in Nat, NEW a2 \in Nat, NEW b2 \in Nat,
         NEW l \in Nat, NEW t \in Nat, NEW r \in Nat,
         a2 + b2 = a + b, a + l + b <= t + r
  PROVE  a2 + l + b2 <= t + r
OBVIOUS

\* What was delivered to an object are the first of the answers on their way.
LEMMA DeliveredFirst ==
  ASSUME TypeOK, NEW c \in Client, NEW got \in Delivered(c)
  PROVE  /\ got \in Seq(Message)
         /\ Len(got) \in Nat
         /\ \A i \in 1..Len(got) : i \in 1..Len(response[c]) /\ got[i] = response[c][i]
<1>1. response[c] \in Seq(Message)
  BY DEF TypeOK
<1>2. PICK l \in 0..Len(response[c]) : got = SubSeq(response[c], 1, l)
  <2>1. CASE got \in Prefixes(response[c])
    BY <2>1 DEF Prefixes
  <2>2. CASE got = response[c]
    <3>1. response[c] = SubSeq(response[c], 1, Len(response[c]))
      BY <1>1
    <3> QED
      BY <1>1, <2>2, <3>1
  <2> QED
    BY <2>1, <2>2 DEF Delivered
<1>3. Len(response[c]) \in Nat /\ l \in Nat /\ l <= Len(response[c])
  BY <1>1
<1> QED
  BY <1>1, <1>2, <1>3

\* Before any object is constructed all of it holds.
LEMMA InitIInv == Init => IInv
<1> SUFFICES ASSUME Init PROVE IInv
  OBVIOUS
<1> USE HpcAssumption DEF Init
<1>1. TypeOK
  BY DEF TypeOK, Nothing, Method, Connection
<1>2. CallInv /\ SentInv /\ OrderInv /\ LagInv
  BY DEF CallInv, SentInv, OrderInv, LagInv
<1>3. CarriedInv
  BY DEF CarriedInv
<1>4. HeardInv /\ ReplyLag
  BY DEF HeardInv, ReplyLag, Nothing
<1> QED
  BY <1>1, <1>2, <1>3, <1>4 DEF IInv

\* Every step of a client, the broker or the listener keeps the types.
LEMMA TypeStep == TypeOK /\ CallInv /\ [Next]_vars => TypeOK'
<1> SUFFICES ASSUME TypeOK, CallInv, [Next]_vars PROVE TypeOK'
  OBVIOUS
<1> USE HpcAssumption
<1>0. /\ \A c \in Client : Nothing(c) \in [from : Client, num : 0..MaxCalls]
      /\ Message \subseteq [from : Client, num : 0..MaxCalls]
  BY DEF Nothing, Message
<1>1. ASSUME NEW c \in Client, Construct(c) \/ Destroy(c) \/ Disconnect(c) PROVE TypeOK'
  <2>1. CASE Construct(c) \/ Destroy(c)
    BY <2>1 DEF TypeOK, Construct, Destroy, DeclareQueues, Connection, Usable
  <2>2. CASE Disconnect(c)
    <3>1. response' \in [Client -> Seq(Message)]
      BY <2>2, DeliveredFirst DEF TypeOK, Disconnect
    <3>2. conn' \in [Client -> Connection]
      BY <2>2 DEF TypeOK, Disconnect, Connection, Usable
    <3> QED
      BY <2>2, <3>1, <3>2 DEF TypeOK, Disconnect
  <2> QED
    BY <1>1, <2>1, <2>2
<1>2. ASSUME NEW c \in Client, NEW m \in Method, Call(c, m) PROVE TypeOK'
  <2>1. turn' \in [Client -> [0..MaxCalls -> Nat]]
    <3>1. calls[c] + 1 \in 0..MaxCalls /\ calls[c] \in 0..MaxCalls
      BY <1>2 DEF TypeOK, Call
    <3>2. turn[c][calls[c]] + (IF out[c] = "throw" THEN 0 ELSE 1) \in Nat
      BY <3>1, CounterTypes
    <3> QED
      BY <1>2, <3>1, <3>2 DEF TypeOK, Call
  <2>2. calls' \in [Client -> 0..MaxCalls]
    BY <1>2 DEF TypeOK, Call
  <2>3. /\ pc' \in [Client -> {"idle", "send", "receive"}]
        /\ method' \in [Client -> Method]
        /\ out' \in [Client -> {"pending", "body", "error", "done", "throw"}]
        /\ heard' \in [Client -> [from : Client, num : 0..MaxCalls]]
    BY <1>0, <1>2, Zenon DEF TypeOK, Call
  <2>4. UNCHANGED <<conn, offload, response, carried, redelivered, restarts>>
    BY <1>2 DEF Call
  <2> QED
    BY <2>1, <2>2, <2>3, <2>4 DEF TypeOK
<1>3. ASSUME NEW c \in Client, SendAccepted(c) PROVE TypeOK'
  <2>1. [from |-> c, num |-> calls[c]] \in Message
    <3>1. calls[c] \in 0..MaxCalls /\ calls[c] > 0
      BY <1>3 DEF TypeOK, CallInv, SendAccepted
    <3> QED
      BY <3>1 DEF Message
  <2>2. offload' \in Seq(Message)
    <3>1. /\ offload \in Seq(Message)
          /\ offload' \in {offload, Append(offload, [from |-> c, num |-> calls[c]])}
      BY <1>3 DEF TypeOK, SendAccepted
    <3> QED
      BY <2>1, <3>1
  <2> QED
    BY <1>3, <2>2 DEF TypeOK, SendAccepted
<1>4. ASSUME NEW c \in Client, SendError(c) PROVE TypeOK'
  <2>1. CASE method[c] = "DELETE"
    <3>1. Return(c, "throw", Nothing(c))
      BY <1>4, <2>1 DEF SendError
    <3> QED
      BY <1>0, <1>4, <3>1 DEF TypeOK, SendError, Return
  <2>2. CASE method[c] # "DELETE"
    BY <1>4, <2>2 DEF TypeOK, SendError
  <2> QED
    BY <2>1, <2>2
<1>5. ASSUME NEW c \in Client, ReceiveMessage(c) \/ ReceiveError(c) PROVE TypeOK'
  <2>1. PICK o \in {"body", "error", "done"}, h \in [from : Client, num : 0..MaxCalls] :
          Return(c, o, h)
    <3>1. CASE ReceiveMessage(c)
      <4>1. response[c] \in Seq(Message) /\ response[c] # <<>>
        BY <3>1 DEF TypeOK, ReceiveMessage, ResponseQueue
      <4>2. Head(response[c]) \in [from : Client, num : 0..MaxCalls]
        BY <1>0, <4>1
      <4> QED
        BY <3>1, <4>2 DEF ReceiveMessage, ReceiveValue, ResponseQueue
    <3>2. CASE ReceiveError(c)
      BY <1>0, <3>2 DEF ReceiveError, ReceiveValue
    <3> QED
      BY <1>5, <3>1, <3>2
  <2>2. response' \in [Client -> Seq(Message)]
    <3>1. CASE ReceiveMessage(c)
      <4>1. response[c] \in Seq(Message) /\ response[c] # <<>>
        BY <3>1 DEF TypeOK, ReceiveMessage, ResponseQueue
      <4>2. Tail(response[c]) \in Seq(Message)
        BY <4>1
      <4> QED
        BY <3>1, <4>2 DEF TypeOK, ReceiveMessage, ResponseQueue
    <3>2. CASE ReceiveError(c)
      <4>1. <<>> \in Seq(Message)
        OBVIOUS
      <4> QED
        BY <3>2, <4>1 DEF TypeOK, ReceiveError, ResponseQueue
    <3> QED
      BY <1>5, <3>1, <3>2
  <2> QED
    BY <1>5, <2>1, <2>2 DEF TypeOK, ReceiveMessage, ReceiveError, Return
<1>6. CASE BrokerRestart
  <2>1. conn' \in [Client -> Connection]
    BY <1>6 DEF TypeOK, BrokerRestart, Connection, Usable
  <2>2. <<>> \in Seq(Message)
    OBVIOUS
  <2>3. offload' \in Seq(Message)
    BY <1>6, <2>2 DEF BrokerRestart
  <2>6. response' \in [Client -> Seq(Message)]
    <3>1. PICK got \in [Client -> UNION {Delivered(c) : c \in Client}] :
            (\A c \in Client : got[c] \in Delivered(c)) /\ response' = got
      BY <1>6 DEF BrokerRestart
    <3>2. \A c \in Client : got[c] \in Seq(Message)
      BY <3>1, DeliveredFirst
    <3> QED
      BY <3>1, <3>2
  <2>4. restarts' \in 0..MaxRestarts
    BY <1>6 DEF TypeOK, BrokerRestart
  <2>5. UNCHANGED <<pc, method, calls, out, heard, turn, carried, redelivered>>
    BY <1>6 DEF BrokerRestart
  <2> QED
    BY <2>1, <2>3, <2>4, <2>5, <2>6 DEF TypeOK
<1>7. CASE Serve \/ ServeAndFail
  <2> DEFINE r == Head(offload)
  <2>1. /\ r \in Message /\ r.from \in Client /\ r.num \in 1..MaxCalls
        /\ offload' \in Seq(Message)
    <3>1. /\ offload \in Seq(Message) /\ offload # <<>>
          /\ offload' \in {offload, Tail(offload)}
      BY <1>7 DEF TypeOK, Serve, ServeAndFail
    <3>2. r \in Message /\ Tail(offload) \in Seq(Message)
      BY <3>1
    <3> QED
      BY <3>1, <3>2 DEF Message
  <2>2. Published(r) \in [Client -> Seq(Message)]
    BY <2>1 DEF TypeOK, Published, ResponseQueue
  <2>3. response' \in [Client -> Seq(Message)]
    BY <1>7, <2>2 DEF TypeOK, Serve, ServeAndFail
  <2>4. carried' \in [Client -> [1..MaxCalls -> Nat]]
    <3>1. carried' = [carried EXCEPT ![r.from][r.num] = @ + 1]
      BY <1>7 DEF Serve, ServeAndFail
    <3>2. carried \in [Client -> [1..MaxCalls -> Nat]]
      BY DEF TypeOK
    <3>3. carried[r.from][r.num] + 1 \in Nat
      BY <2>1, <3>2
    <3> HIDE DEF r
    <3> QED
      BY <2>1, <3>1, <3>2, <3>3
  <2>5. redelivered' \in 0..MaxRedeliver
    BY <1>7 DEF TypeOK, Serve, ServeAndFail
  <2>6. UNCHANGED <<clientVars, restarts>>
    BY <1>7 DEF Serve, ServeAndFail
  <2> QED
    BY <2>1, <2>3, <2>4, <2>5, <2>6 DEF TypeOK, clientVars
<1>8. CASE UNCHANGED vars
  BY <1>8 DEF vars, clientVars, TypeOK
<1> QED
  BY <1>1, <1>2, <1>3, <1>4, <1>5, <1>6, <1>7, <1>8 DEF Next, Proceed

----------------------------------------------------------------------------
(* One lemma for each kind of step *)

\* Connections that come and go: only an object without messages gets a new one,
\* and of the answers on their way an object keeps the first ones.
LEMMA ConnectionStep ==
  ASSUME IInv, TypeOK',
         \/ \E c \in Client : Construct(c) \/ Destroy(c) \/ Disconnect(c)
         \/ BrokerRestart
  PROVE  IInv'
<1> USE MessageTypes, CounterTypes
<1>0. TypeOK
  BY DEF IInv
<1>1. /\ UNCHANGED <<pc, method, calls, out, heard, turn, carried, redelivered>>
      /\ offload' \in {offload, <<>>}
      /\ \A d \in Client :
           /\ conn'[d] = "new" => conn[d] = "new"
           /\ conn'[d] = "open" => conn[d] \in {"new", "open"} /\ response'[d] = response[d]
           /\ response'[d] \in Delivered(d) \cup {response[d]}
  <2>1. conn \in [Client -> Connection] /\ DOMAIN response = Client
    BY <1>0 DEF TypeOK
  <2>2. ASSUME NEW c \in Client, Construct(c) \/ Destroy(c)
        PROVE  /\ UNCHANGED <<pc, method, calls, out, heard, turn,
                              offload, response, carried, redelivered>>
               /\ \A d \in Client :
                    /\ conn'[d] = "new" => conn[d] = "new"
                    /\ conn'[d] = "open" => conn[d] \in {"new", "open"}
    BY <2>1, <2>2 DEF Construct, Destroy
  <2>3. ASSUME NEW c \in Client, Disconnect(c)
        PROVE  /\ UNCHANGED <<pc, method, calls, out, heard, turn,
                              offload, carried, redelivered>>
               /\ \A d \in Client :
                    /\ conn'[d] = "new" => conn[d] = "new"
                    /\ conn'[d] = "open" => conn[d] = "open" /\ response'[d] = response[d]
                    /\ response'[d] \in Delivered(d) \cup {response[d]}
    BY <2>1, <2>3 DEF Disconnect
  <2>4. CASE BrokerRestart
    <3>1. /\ UNCHANGED <<pc, method, calls, out, heard, turn, carried, redelivered>>
          /\ offload' = <<>>
          /\ \A d \in Client : response'[d] \in Delivered(d)
      BY <2>4 DEF BrokerRestart
    <3>2. \A d \in Client : conn'[d] # "open" /\ (conn'[d] = "new" => conn[d] = "new")
      BY <2>1, <2>4 DEF BrokerRestart, Up
    <3> QED
      BY <3>1, <3>2
  <2> QED
    BY <2>2, <2>3, <2>4
<1>2. \A d \in Client : \A i \in 1..Len(response'[d]) :
        i \in 1..Len(response[d]) /\ response'[d][i] = response[d][i]
  BY <1>0, <1>1, DeliveredFirst
<1>3. \A i \in 1..Len(offload') :
        offload' = offload /\ i \in 1..Len(offload) /\ offload'[i] = offload[i]
  BY <1>1
<1>4. ASSUME NEW x, WasSent(x) PROVE WasSent(x)'
  BY <1>1, <1>4 DEF WasSent
<1>5. CallInv' /\ HeardInv' /\ ReplyLag'
  BY <1>1 DEF IInv, CallInv, HeardInv, ReplyLag, Nothing
<1>6. SentInv'
  <2>1. ASSUME NEW i \in 1..Len(offload') PROVE WasSent(offload[i])'
    <3>1. PICK x : x = offload[i]
      OBVIOUS
    <3>2. WasSent(x)' /\ offload'[i] = x
      BY <1>3, <1>4, <3>1 DEF IInv, SentInv
    <3> QED
      BY <3>2 DEF WasSent
  <2>2. ASSUME NEW d \in Client, NEW i \in 1..Len(response'[d])
        PROVE  response'[d][i].from = d /\ WasSent(response[d][i])'
    <3>1. PICK x : x = response[d][i]
      OBVIOUS
    <3>2. WasSent(x)' /\ response'[d][i] = x /\ x.from = d
      BY <1>2, <1>4, <3>1 DEF IInv, SentInv
    <3> QED
      BY <3>2 DEF WasSent
  <2> QED
    BY <2>1, <2>2 DEF SentInv
<1>7. OrderInv' /\ CarriedInv'
  <2>1. OrderInv'
    <3>1. CASE offload' = offload
      BY <1>1, <3>1 DEF IInv, OrderInv
    <3>2. CASE offload' = <<>>
      BY <3>2 DEF OrderInv
    <3> QED
      BY <1>1, <3>1, <3>2
  <2>2. CarriedInv'
    BY <1>1, <1>2, <1>3 DEF IInv, CarriedInv
  <2> QED
    BY <2>1, <2>2
<1>8. LagInv'
  <2>1. \A d \in Client : Due(d)' = Due(d)
    BY <1>1 DEF Due
  <2>2. ASSUME NEW d \in Client, NEW i \in 1..Len(response'[d])
        PROVE  turn[d][calls[d]] + (i - 1) + Due(d)
                 <= turn[d][response'[d][i].num] + redelivered
    BY <1>2 DEF IInv, LagInv
  <2>3. ASSUME NEW d \in Client, conn'[d] = "open",
               NEW i \in 1..Len(offload'), offload'[i].from = d
        PROVE  turn[d][calls[d]] + Len(response'[d]) + Due(d)
                 <= turn[d][offload'[i].num] + redelivered
    <3>1. i \in 1..Len(offload) /\ offload'[i] = offload[i]
      BY <1>3
    <3>2. calls[d] > 0
      BY <1>0, <2>3, <3>1 DEF IInv, SentInv, WasSent
    <3>3. conn[d] = "open"
      BY <1>1, <2>3, <3>2 DEF IInv, CallInv
    <3> QED
      BY <1>1, <2>3, <3>1, <3>3 DEF IInv, LagInv
  <2> QED
    BY <1>1, <2>1, <2>2, <2>3 DEF LagInv
<1> QED
  BY <1>5, <1>6, <1>7, <1>8 DEF IInv

\* get, post or del is entered: one more turn, unless the last call threw.
LEMMA CallStep ==
  ASSUME IInv, TypeOK', NEW c \in Client, NEW m \in Method, Call(c, m)
  PROVE  IInv'
<1>0. TypeOK
  BY DEF IInv
<1>1. /\ conn[c] \in Usable /\ pc[c] = "idle" /\ calls[c] < MaxCalls
      /\ UNCHANGED <<conn, offload, response, carried, redelivered, restarts>>
      /\ \A d \in Client :
           /\ calls'[d] = IF d = c THEN calls[c] + 1 ELSE calls[d]
           /\ pc'[d] = IF d = c THEN "send" ELSE pc[d]
           /\ out'[d] = IF d = c THEN "pending" ELSE out[d]
           /\ heard'[d] = IF d = c THEN Nothing(c) ELSE heard[d]
  BY <1>0 DEF Call, TypeOK
<1>2. /\ \A d \in Client : \A k \in 0..calls[d] : turn'[d][k] = turn[d][k]
      /\ turn'[c][calls'[c]] = turn[c][calls[c]] + Due(c)
      /\ Due(c)' = 0
      /\ \A d \in Client \ {c} :
           Due(d)' = Due(d) /\ turn'[d][calls[d]] = turn[d][calls[d]]
  <2>1. turn' = [turn EXCEPT ![c][calls[c] + 1] =
                   turn[c][calls[c]] + IF out[c] = "throw" THEN 0 ELSE 1]
    BY DEF Call
  <2>2. turn \in [Client -> [0..MaxCalls -> Nat]]
    BY <1>0, MessageTypes, CounterTypes DEF TypeOK
  <2>3. calls[c] + 1 \in 0..MaxCalls
    BY <1>0, MessageTypes, CounterTypes, <1>1
  <2>4. \A d \in Client : \A k \in 0..calls[d] : turn'[d][k] = turn[d][k]
    BY <1>0, MessageTypes, CounterTypes, <2>1, <2>2, <2>3
  <2>5. turn'[c][calls[c] + 1] = turn[c][calls[c]] + Due(c)
    BY <1>1, <2>1, <2>2, <2>3 DEF Due
  <2>6. \A d \in Client : calls[d] \in 0..calls[d]
    BY <1>0, MessageTypes, CounterTypes
  <2> QED
    BY <1>1, <2>4, <2>5, <2>6 DEF Due
<1>3. ASSUME NEW x \in Message, WasSent(x)
      PROVE  /\ WasSent(x)'
             /\ turn'[x.from][x.num] = turn[x.from][x.num]
  <2>1. x.from \in Client /\ x.num \in 1..MaxCalls /\ x.num <= calls[x.from]
    BY <1>3 DEF Message, WasSent
  <2>2. turn'[x.from][x.num] = turn[x.from][x.num]
    BY <1>0, MessageTypes, CounterTypes, <1>2, <2>1
  <2>3. CASE x.from # c
    <3>1. /\ calls'[x.from] = calls[x.from] /\ pc'[x.from] = pc[x.from]
          /\ out'[x.from] = out[x.from]
          /\ turn'[x.from][calls[x.from]] = turn[x.from][calls[x.from]]
      BY <1>1, <1>2, <2>1, <2>3
    <3> QED
      BY <1>3, <2>2, <3>1 DEF WasSent
  <2>4. CASE x.from = c
    <3>1. out[c] = "throw" => x.num < calls[c]
      BY <1>1, <1>3, <2>4 DEF WasSent
    <3>2. turn[c][x.num] < turn'[c][calls'[c]]
      BY <1>0, MessageTypes, CounterTypes, <1>1, <1>2, <1>3, <2>1, <2>4, <3>1 DEF WasSent, Due
    <3> QED
      BY <1>0, MessageTypes, CounterTypes, <1>1, <2>1, <2>2, <2>4, <3>2 DEF WasSent
  <2> QED
    BY <2>2, <2>3, <2>4
<1>4. CallInv'
  BY <1>0, MessageTypes, CounterTypes, <1>1 DEF IInv, CallInv, Usable
<1>5. SentInv'
  BY <1>0, MessageTypes, CounterTypes, <1>1, <1>3 DEF IInv, SentInv
<1>6. OrderInv'
  <2>1. \A i \in 1..Len(offload) :
          turn'[offload[i].from][offload[i].num] = turn[offload[i].from][offload[i].num]
    BY <1>0, MessageTypes, CounterTypes, <1>3 DEF IInv, SentInv
  <2> QED
    BY <1>0, MessageTypes, CounterTypes, <1>1, <2>1 DEF IInv, OrderInv
<1>7. LagInv'
  <2>1. ASSUME NEW d \in Client
        PROVE turn'[d][calls'[d]] + Due(d)' = turn[d][calls[d]] + Due(d)
    <3>1. CASE d = c
      BY <1>0, MessageTypes, CounterTypes, <1>2, <3>1
    <3>2. CASE d # c
      BY <1>1, <1>2, <3>2
    <3> QED
      BY <3>1, <3>2
  <2>2. ASSUME NEW d \in Client
        PROVE  /\ turn'[d][calls'[d]] \in Nat /\ turn[d][calls[d]] \in Nat
               /\ Due(d)' \in Nat /\ Due(d) \in Nat
    <3>1. Due(d)' \in 0..1 /\ Due(d) \in 0..1
      BY DEF Due
    <3> QED
      <4>1. calls'[d] \in 0..MaxCalls /\ turn' \in [Client -> [0..MaxCalls -> Nat]]
        BY DEF TypeOK
      <4>2. turn'[d][calls'[d]] \in Nat
        BY <4>1
      <4>3. turn[d][calls[d]] \in Nat
        BY <1>0, MessageTypes, CounterTypes
      <4> QED
        BY <3>1, <4>2, <4>3
  <2>3. ASSUME NEW d \in Client, NEW i \in 1..Len(offload), conn[d] = "open",
               offload[i].from = d
        PROVE  turn'[d][calls'[d]] + Len(response[d]) + Due(d)'
                 <= turn'[d][offload[i].num] + redelivered
    <3> DEFINE x == offload[i]
    <3>1. x \in Message /\ WasSent(x) /\ x.from = d /\ x.num \in 0..MaxCalls
      BY <1>0, MessageTypes, CounterTypes, <2>3 DEF IInv, SentInv
    <3>2. turn[d][calls[d]] + Len(response[d]) + Due(d) <= turn[d][x.num] + redelivered
      BY <2>3 DEF IInv, LagInv
    <3>3. turn'[d][x.num] = turn[d][x.num] /\ turn[d][x.num] \in Nat
      BY <1>0, MessageTypes, CounterTypes, <1>3, <3>1
    <3> HIDE DEF x
    <3>4. turn'[d][calls'[d]] + Len(response[d]) + Due(d)' <= turn'[d][x.num] + redelivered
      <4>1. Len(response[d]) \in Nat /\ redelivered \in Nat
        BY <1>0, MessageTypes, CounterTypes, <3>3
      <4> QED
        <5>1. /\ turn'[d][calls'[d]] + Due(d)' = turn[d][calls[d]] + Due(d)
              /\ turn'[d][calls'[d]] \in Nat /\ turn[d][calls[d]] \in Nat
              /\ Due(d)' \in Nat /\ Due(d) \in Nat
          BY <2>1, <2>2
        <5> QED
          BY <3>2, <3>3, <4>1, <5>1, SameSum, Zenon
    <3> QED
      BY <3>4 DEF x
  <2>4. ASSUME NEW d \in Client, NEW i \in 1..Len(response[d])
        PROVE  turn'[d][calls'[d]] + (i - 1) + Due(d)'
                 <= turn'[d][response[d][i].num] + redelivered
    <3> DEFINE x == response[d][i]
    <3>1. x \in Message /\ WasSent(x) /\ x.from = d /\ x.num \in 0..MaxCalls
      BY <1>0, MessageTypes, CounterTypes DEF IInv, SentInv
    <3>2. turn[d][calls[d]] + (i - 1) + Due(d) <= turn[d][x.num] + redelivered
      BY <2>4 DEF IInv, LagInv
    <3>3. turn'[d][x.num] = turn[d][x.num] /\ turn[d][x.num] \in Nat
      BY <1>0, MessageTypes, CounterTypes, <1>3, <3>1
    <3> HIDE DEF x
    <3>4. turn'[d][calls'[d]] + (i - 1) + Due(d)' <= turn'[d][x.num] + redelivered
      <4>1. i - 1 \in Nat /\ redelivered \in Nat
        BY <1>0, MessageTypes, CounterTypes, <3>3
      <4> QED
        <5>1. /\ turn'[d][calls'[d]] + Due(d)' = turn[d][calls[d]] + Due(d)
              /\ turn'[d][calls'[d]] \in Nat /\ turn[d][calls[d]] \in Nat
              /\ Due(d)' \in Nat /\ Due(d) \in Nat
          BY <2>1, <2>2
        <5> QED
          BY <3>2, <3>3, <4>1, <5>1, SameSum, Zenon
    <3> QED
      BY <3>4 DEF x
  <2> QED
    BY <1>1, <2>3, <2>4 DEF LagInv
<1>8. CarriedInv'
  <2>1. ASSUME NEW d \in Client, NEW k \in 1..MaxCalls,
               k > calls'[d] \/ (k = calls'[d] /\ pc'[d] = "send")
        PROVE  carried[d][k] = 0
    <3>1. calls[d] \in Nat /\ (k > calls[d] \/ (k = calls[d] /\ pc[d] = "send"))
      BY <1>0, CounterTypes, <1>1, <2>1
    <3> QED
      BY <3>1 DEF IInv, CarriedInv
  <2> QED
    BY <1>1, <2>1 DEF IInv, CarriedInv
<1>9. HeardInv'
  <2>1. \A d \in Client \ {c} : pc'[d] = pc[d] /\ heard'[d] = heard[d]
    BY <1>1
  <2>2. heard'[c] = Nothing(c) /\ Nothing(c).from = c
    BY <1>1 DEF Nothing
  <2> QED
    BY <2>1, <2>2, Zenon DEF IInv, HeardInv
<1>10. ReplyLag'
  <2> SUFFICES ASSUME NEW d \in Client, heard'[d].num # 0
               PROVE  /\ heard'[d].from = d
                      /\ heard'[d].num <= calls'[d]
                      /\ turn'[d][calls'[d]] <= turn'[d][heard'[d].num] + redelivered
                      /\ carried[d][heard'[d].num] > 0
    BY <1>1 DEF ReplyLag
  <2>1. d # c /\ heard'[d] = heard[d] /\ calls'[d] = calls[d]
    BY <1>1 DEF Nothing
  <2>2. heard[d].num \in 0..calls[d] /\ calls[d] \in 0..calls[d]
    <3>1. heard[d].num \in 0..MaxCalls /\ heard[d].num <= calls[d] /\ calls[d] \in 0..MaxCalls
      BY <2>1 DEF IInv, ReplyLag, TypeOK
    <3> QED
      BY <1>0, MessageTypes, CounterTypes, <3>1
  <2> QED
    BY <1>2, <2>1, <2>2 DEF IInv, ReplyLag
<1> QED
  BY <1>4, <1>5, <1>6, <1>7, <1>8, <1>9, <1>10 DEF IInv

\* Steps that add nothing to the queues: a failed send, a failed receive, and a
\* send to a broker that does not see or ignores it.
LEMMA QuietStep ==
  ASSUME IInv, TypeOK', NEW c \in Client,
         SendError(c) \/ ReceiveError(c) \/ (SendAccepted(c) /\ UNCHANGED offload)
  PROVE  IInv'
<1>0. TypeOK
  BY DEF IInv
<1>1. /\ UNCHANGED <<conn, calls, turn, offload, carried, redelivered>>
      /\ pc[c] # "idle"
      /\ \A d \in Client \ {c} : pc'[d] = pc[d] /\ out'[d] = out[d]
      /\ pc'[c] # "send"
      /\ pc'[c] = "idle" /\ out'[c] = "throw" => pc[c] = "send"
      /\ \A d \in Client : response'[d] \in {response[d], <<>>}
      /\ pc'[c] = "idle" =>
           out'[c] = "throw" \/ (response'[c] = <<>> /\ conn[c] # "open")
      /\ \A d \in Client : d # c \/ conn[c] = "open" => response'[d] = response[d]
  <2>1. pc \in [Client -> {"idle", "send", "receive"}] /\ DOMAIN out = Client
    BY <1>0 DEF TypeOK
  <2>2. CASE SendError(c)
    BY <2>1, <2>2 DEF SendError, Return
  <2>3. CASE ReceiveError(c)
    BY <1>0, <2>1, <2>3 DEF ReceiveError, Return, ReceiveValue, ResponseQueue, TypeOK
  <2>4. CASE SendAccepted(c) /\ UNCHANGED offload
    BY <2>1, <2>4 DEF SendAccepted
  <2> QED
    BY <2>2, <2>3, <2>4
<1>2. \A d \in Client : heard'[d] = heard[d]
  <2>1. heard[c] = Nothing(c)
    BY <1>1 DEF IInv, HeardInv
  <2>2. heard' \in {heard, [heard EXCEPT ![c] = Nothing(c)]}
    BY DEF SendError, ReceiveError, SendAccepted, Return
  <2> QED
    BY <1>0, <2>1, <2>2 DEF TypeOK
<1>3. \A d \in Client :
        Due(d)' = Due(d) \/ (response'[d] = <<>> /\ conn[d] # "open")
  BY <1>1 DEF Due
<1>11. \A d \in Client : \A i \in 1..Len(response'[d]) : response'[d] = response[d]
  BY <1>1
<1>4. ASSUME NEW x \in Message, WasSent(x) PROVE WasSent(x)'
  BY <1>1, <1>4 DEF WasSent, Message
<1>5. CallInv' /\ OrderInv'
  BY <1>1 DEF IInv, CallInv, OrderInv
<1>6. SentInv'
  BY <1>0, <1>1, <1>4, <1>11, MessageTypes DEF IInv, SentInv
<1>7. LagInv'
  <2>1. ASSUME NEW d \in Client, NEW i \in 1..Len(response'[d])
        PROVE  turn[d][calls[d]] + (i - 1) + Due(d)'
                 <= turn[d][response'[d][i].num] + redelivered
    <3>1. response'[d] = response[d] /\ response[d] # <<>>
      BY <1>11, <2>1
    <3>2. Due(d)' = Due(d)
      BY <1>3, <3>1
    <3> QED
      BY <2>1, <3>1, <3>2 DEF IInv, LagInv
  <2>2. ASSUME NEW d \in Client, conn[d] = "open"
        PROVE  Due(d)' = Due(d) /\ response'[d] = response[d]
    BY <1>1, <1>3, <2>2
  <2> QED
    BY <1>1, <2>1, <2>2 DEF IInv, LagInv
<1>8. CarriedInv'
  BY <1>1, <1>11 DEF IInv, CarriedInv
<1>9. HeardInv'
  <2>1. heard[c] = Nothing(c)
    BY <1>1 DEF IInv, HeardInv
  <2> QED
    BY <1>1, <1>2, <2>1 DEF IInv, HeardInv, Nothing
<1>10. ReplyLag'
  BY <1>1, <1>2 DEF IInv, ReplyLag
<1> QED
  BY <1>5, <1>6, <1>7, <1>8, <1>9, <1>10 DEF IInv

\* send publishes a request: all answers still in the response queue are those of
\* earlier calls, so there are at most as many as there were redeliveries.
LEMMA SendStep ==
  ASSUME IInv, TypeOK', NEW c \in Client, SendAccepted(c), conn[c] = "open"
  PROVE  IInv'
<1> DEFINE n == calls[c]
           x == [from |-> c, num |-> n]
<1>0. TypeOK
  BY DEF IInv
<1>1. /\ UNCHANGED <<conn, calls, out, heard, turn, response, carried, redelivered>>
      /\ pc[c] = "send"
      /\ pc'[c] = "receive"
      /\ \A d \in Client \ {c} : pc'[d] = pc[d]
      /\ offload' = Append(offload, x)
  BY <1>0 DEF SendAccepted, TypeOK
<1>2. n \in 1..MaxCalls /\ x \in Message /\ x.from = c /\ x.num = n
  BY <1>0, <1>1, HpcAssumption DEF IInv, CallInv, TypeOK, Message
<1>3. /\ Len(offload') = Len(offload) + 1
      /\ \A i \in 1..Len(offload) : offload'[i] = offload[i]
      /\ offload'[Len(offload) + 1] = x
  <2>1. offload \in Seq(Message)
    BY <1>0 DEF TypeOK
  <2> HIDE DEF x
  <2> QED
    BY <1>1, <1>2, <2>1
<1> HIDE DEF x
<1>4. ASSUME NEW y \in Message, WasSent(y)
      PROVE  /\ WasSent(y)'
             /\ y.from = c => y.num < n /\ turn[c][y.num] < turn[c][n]
  BY <1>1, <1>4 DEF WasSent, Message
<1>5. WasSent(x)'
  <2>1. WasSent(x)' <=>
          /\ x.num <= calls[x.from]
          /\ x.num < calls[x.from] => turn[x.from][x.num] < turn[x.from][calls[x.from]]
          /\ (pc'[x.from] = "send" \/ (pc'[x.from] = "idle" /\ out[x.from] = "throw"))
               => x.num < calls[x.from]
    BY <1>1 DEF WasSent, x
  <2> QED
    BY <1>1, <1>2, <2>1
<1>6. \A i \in 1..Len(offload') :
        \/ i \in 1..Len(offload) /\ offload'[i] = offload[i]
        \/ i = Len(offload) + 1 /\ offload'[i] = x
  BY <1>0, <1>3, MessageTypes
<1>7. CallInv' /\ HeardInv' /\ ReplyLag'
  BY <1>1 DEF IInv, CallInv, HeardInv, ReplyLag, Nothing
<1>8. SentInv'
  BY <1>0, <1>1, <1>4, <1>5, <1>6, MessageTypes DEF IInv, SentInv, x
<1>9. OrderInv'
  BY <1>0, <1>1, <1>2, <1>4, <1>6, MessageTypes DEF IInv, OrderInv, SentInv
<1>10. LagInv'
  <2>1. \A d \in Client : Due(d)' = Due(d)
    BY <1>1 DEF Due
  <2>2. turn[c][n] + Len(response[c]) + Due(c) <= turn[c][n] + redelivered
    <3>1. Due(c) = 0
      BY <1>1 DEF Due
    <3>2. Len(response[c]) \in Nat /\ turn[c][n] \in Nat /\ redelivered \in Nat
      BY <1>0, <1>2, MessageTypes, CounterTypes
    <3>3. CASE Len(response[c]) = 0
      BY <3>1, <3>2, <3>3
    <3>4. CASE Len(response[c]) > 0
      <4> DEFINE l == Len(response[c])
                 k == response[c][l].num
      <4>1. l \in 1..Len(response[c])
        BY <3>2, <3>4
      <4>2. turn[c][n] + (l - 1) + Due(c) <= turn[c][k] + redelivered
        BY <4>1 DEF IInv, LagInv
      <4>3. turn[c][k] < turn[c][n] /\ turn[c][k] \in Nat
        <5>1. /\ response[c][l] \in Message /\ k \in 0..MaxCalls
              /\ WasSent(response[c][l]) /\ response[c][l].from = c
          BY <1>0, <4>1, MessageTypes DEF IInv, SentInv
        <5> QED
          BY <1>0, <1>4, <5>1, CounterTypes
      <4> HIDE DEF k
      <4> QED
        BY <3>1, <3>2, <4>2, <4>3
    <3> QED
      BY <3>2, <3>3, <3>4
  <2>3. ASSUME NEW d \in Client, NEW i \in 1..Len(offload'), offload'[i].from = d,
               conn[d] = "open"
        PROVE  turn[d][calls[d]] + Len(response[d]) + Due(d)
                 <= turn[d][offload'[i].num] + redelivered
    BY <1>2, <1>6, <2>2, <2>3 DEF IInv, LagInv
  <2> QED
    BY <1>1, <2>1, <2>3 DEF IInv, LagInv
<1>11. CarriedInv'
  <2>1. carried[c][n] <= redelivered
    BY <1>0, <1>1, <1>2, CounterTypes DEF IInv, CarriedInv
  <2>2. \A i \in 1..Len(offload') :
          carried[offload'[i].from][offload'[i].num] <= redelivered
    BY <1>2, <1>6, <2>1 DEF IInv, CarriedInv
  <2> QED
    BY <1>1, <2>2 DEF IInv, CarriedInv
<1> QED
  BY <1>7, <1>8, <1>9, <1>10, <1>11 DEF IInv

\* receive takes the first answer: the others move up by one.
LEMMA ReceiveStep ==
  ASSUME IInv, TypeOK', NEW c \in Client, ReceiveMessage(c)
  PROVE  IInv'
<1> DEFINE x == response[c][1]
           n == calls[c]
<1>0. TypeOK
  BY DEF IInv
<1>1. /\ UNCHANGED <<conn, calls, turn, offload, carried, redelivered>>
      /\ pc[c] = "receive" /\ response[c] # <<>>
      /\ pc'[c] = "idle" /\ out'[c] # "throw" /\ heard'[c] = Head(response[c])
      /\ \A d \in Client \ {c} :
           pc'[d] = pc[d] /\ out'[d] = out[d] /\ heard'[d] = heard[d]
      /\ response'[c] = Tail(response[c])
      /\ \A d \in Client \ {c} : response'[d] = response[d]
  BY <1>0 DEF ReceiveMessage, ResponseQueue, Return, ReceiveValue, TypeOK
<1>2. /\ Len(response[c]) \in Nat
      /\ 1 \in 1..Len(response[c])
      /\ heard'[c] = x
      /\ Len(response'[c]) = Len(response[c]) - 1
      /\ \A i \in 1..Len(response'[c]) :
           i + 1 \in 1..Len(response[c]) /\ response'[c][i] = response[c][i + 1]
  <2>1. response[c] \in Seq(Message)
    BY <1>0 DEF TypeOK
  <2> QED
    BY <1>1, <2>1
<1>3. ASSUME NEW d \in Client, NEW i \in 1..Len(response'[d])
       PROVE  \E j \in 1..Len(response[d]) : response'[d][i] = response[d][j]
  <2>1. CASE d = c
    BY <1>2, <2>1
  <2>2. CASE d # c
    BY <1>1, <2>2
  <2> QED
    BY <2>1, <2>2
<1>4. x \in Message /\ x.from = c /\ x.num \in 1..MaxCalls /\ WasSent(x)
  BY <1>0, <1>2, MessageTypes DEF IInv, SentInv
<1>5. ASSUME NEW y \in Message, WasSent(y) PROVE WasSent(y)'
  BY <1>1, <1>5 DEF WasSent, Message
<1>6. CallInv' /\ OrderInv'
  BY <1>1 DEF IInv, CallInv, OrderInv
<1>7. SentInv'
  <2>1. ASSUME NEW d \in Client, NEW i \in 1..Len(response'[d])
        PROVE  response'[d][i].from = d /\ WasSent(response[d][i])' 
    <3>1. PICK j \in 1..Len(response[d]) : response'[d][i] = response[d][j]
      BY <1>3
    <3>2. response[d][j] \in Message /\ WasSent(response[d][j]) /\ response[d][j].from = d
      BY <1>0, MessageTypes DEF IInv, SentInv
    <3>3. PICK y \in Message : y = response[d][j]
      BY <3>2
    <3>4. WasSent(y)'
      BY <1>5, <3>2, <3>3
    <3> QED
      BY <3>1, <3>2, <3>3, <3>4 DEF WasSent
  <2> QED
    BY <1>0, <1>1, <1>5, <2>1, MessageTypes DEF IInv, SentInv
<1>8. LagInv'
  <2>1. /\ \A d \in Client \ {c} : Due(d)' = Due(d)
        /\ Due(c) = 0 /\ Due(c)' = 1
    BY <1>1 DEF Due
  <2>2. turn[c][n] \in Nat /\ redelivered \in Nat
    BY <1>0, CounterTypes
  <2>3. ASSUME NEW i \in 1..Len(offload), offload[i].from = c, conn[c] = "open"
        PROVE  turn[c][n] + Len(response'[c]) + 1 <= turn[c][offload[i].num] + redelivered
    <3>1. turn[c][n] + Len(response[c]) + Due(c) <= turn[c][offload[i].num] + redelivered
      BY <1>1, <2>3 DEF IInv, LagInv
    <3>2. turn[c][offload[i].num] \in Nat
      BY <1>0, MessageTypes, CounterTypes
    <3> QED
      BY <1>2, <2>1, <2>2, <3>1, <3>2
  <2>4. ASSUME NEW i \in 1..Len(response'[c])
        PROVE  turn[c][n] + (i - 1) + 1 <= turn[c][response'[c][i].num] + redelivered
    <3>1. i \in Nat /\ i + 1 \in 1..Len(response[c])
      BY <1>2
    <3>2. turn[c][n] + ((i + 1) - 1) + Due(c) <= turn[c][response[c][i + 1].num] + redelivered
      BY <1>1, <3>1 DEF IInv, LagInv
    <3>3. turn[c][response[c][i + 1].num] \in Nat
      BY <1>0, <3>1, MessageTypes, CounterTypes
    <3>4. response'[c][i] = response[c][i + 1]
      BY <1>2
    <3>5. Due(c) = 0
      BY <2>1
    <3>6. (i + 1) - 1 = (i - 1) + 1 /\ (i - 1) + 1 \in Nat
      BY <3>1
    <3> QED
      BY <2>2, <3>1, <3>2, <3>3, <3>4, <3>5
  <2>5. ASSUME NEW d \in Client
        PROVE  /\ \A i \in 1..Len(offload) : conn[d] = "open" /\ offload[i].from = d =>
                    turn[d][calls[d]] + Len(response'[d]) + Due(d)'
                      <= turn[d][offload[i].num] + redelivered
               /\ \A i \in 1..Len(response'[d]) :
                    turn[d][calls[d]] + (i - 1) + Due(d)'
                      <= turn[d][response'[d][i].num] + redelivered
    <3>1. CASE d = c
      BY <2>1, <2>3, <2>4, <3>1
    <3>2. CASE d # c
      <4>1. response'[d] = response[d] /\ Due(d)' = Due(d)
        BY <1>1, <2>1, <3>2
      <4> QED
        BY <4>1 DEF IInv, LagInv
    <3> QED
      BY <3>1, <3>2
  <2> QED
    BY <1>1, <2>5 DEF LagInv
<1>9. CarriedInv'
  <2>1. \A d \in Client : \A i \in 1..Len(response'[d]) : carried[d][response'[d][i].num] > 0
    BY <1>3 DEF IInv, CarriedInv
  <2> QED
    BY <1>1, <2>1 DEF IInv, CarriedInv
<1>10. HeardInv'
  BY <1>1, <1>2, <1>4 DEF IInv, HeardInv, Nothing
<1>11. ReplyLag'
  <2>1. turn[c][n] <= turn[c][x.num] + redelivered
    <3>1. Due(c) = 0
      BY <1>1 DEF Due
    <3>2. turn[c][n] + (1 - 1) + Due(c) <= turn[c][x.num] + redelivered
      BY <1>1, <1>2 DEF IInv, LagInv
    <3>3. turn[c][n] \in Nat /\ redelivered \in Nat /\ turn[c][x.num] \in Nat
      BY <1>0, <1>4, CounterTypes
    <3> QED
      BY <3>1, <3>2, <3>3
  <2>2. x.num <= calls[c] /\ carried[c][x.num] > 0
    BY <1>2, <1>4 DEF IInv, CarriedInv, WasSent
  <2> QED
    BY <1>1, <1>2, <1>4, <2>1, <2>2 DEF IInv, ReplyLag
<1> QED
  BY <1>6, <1>7, <1>8, <1>9, <1>10, <1>11 DEF IInv

\* The listener serves the first request: the requests of the same client behind
\* it have a later turn, or there is one more redelivery to account for.
LEMMA ServeStep ==
  ASSUME IInv, TypeOK', Serve \/ ServeAndFail
  PROVE  IInv'
<1> DEFINE x == offload[1]
           c == x.from
           n == x.num
<1>0. TypeOK
  BY DEF IInv
<1>1. /\ UNCHANGED clientVars
      /\ offload # <<>>
      /\ carried' = [carried EXCEPT ![Head(offload).from][Head(offload).num] = @ + 1]
      /\ \/ /\ offload' = Tail(offload) /\ redelivered' = redelivered
            /\ response' = Published(Head(offload))
         \/ /\ offload' = offload /\ redelivered' = redelivered + 1
            /\ response' \in {response, Published(Head(offload))}
  BY DEF Serve, ServeAndFail
<1>2. /\ Len(offload) \in Nat /\ 1 \in 1..Len(offload)
      /\ Head(offload) = x
      /\ Len(Tail(offload)) = Len(offload) - 1
      /\ \A i \in 1..Len(Tail(offload)) :
           i + 1 \in 1..Len(offload) /\ Tail(offload)[i] = offload[i + 1]
  <2>1. offload \in Seq(Message)
    BY <1>0 DEF TypeOK
  <2> QED
    BY <1>1, <2>1
<1>3. x \in Message /\ c \in Client /\ n \in 1..MaxCalls /\ WasSent(x)
  BY <1>0, <1>2, MessageTypes DEF IInv, SentInv
<1>4. /\ \A d \in Client, k \in 1..MaxCalls :
           carried'[d][k] = IF d = c /\ k = n THEN carried[c][n] + 1 ELSE carried[d][k]
  <2>1. carried \in [Client -> [1..MaxCalls -> Nat]]
    BY <1>0 DEF TypeOK
  <2> HIDE DEF x
  <2> QED
    BY <1>1, <1>2, <1>3, <2>1
\* where the messages of the next state come from
<1>5. ASSUME NEW i \in 1..Len(offload')
      PROVE  \E j \in 1..Len(offload) :
               /\ offload'[i] = offload[j]
               /\ redelivered' = redelivered => j = i + 1
               /\ redelivered' # redelivered => j = i
  BY <1>0, <1>1, <1>2, CounterTypes
<1>6. /\ \A d \in Client \ {c} : response'[d] = response[d]
      /\ \/ /\ response'[c] = response[c]
            /\ redelivered' = redelivered + 1 \/ conn[c] # "open"
         \/ response'[c] = Append(response[c], x) /\ conn[c] = "open"
  <2>1. response \in [Client -> Seq(Message)]
    BY <1>0 DEF TypeOK
  <2>2. /\ Published(x)[c] = IF conn[c] = "open" THEN Append(response[c], x) ELSE response[c]
        /\ \A d \in Client \ {c} : Published(x)[d] = response[d]
    BY <1>3, <2>1 DEF Published, ResponseQueue
  <2> QED
    BY <1>1, <1>2, <2>2
<1>7. /\ Len(response[c]) \in Nat
      /\ response'[c] = Append(response[c], x) =>
           /\ Len(response'[c]) = Len(response[c]) + 1
           /\ \A i \in 1..Len(response[c]) : response'[c][i] = response[c][i]
           /\ response'[c][Len(response[c]) + 1] = x
  <2>1. response[c] \in Seq(Message)
    BY <1>0, <1>3 DEF TypeOK
  <2> HIDE DEF c
  <2> QED
    BY <1>3, <2>1
<1>8. ASSUME NEW d \in Client, NEW i \in 1..Len(response'[d])
      PROVE  \/ i \in 1..Len(response[d]) /\ response'[d][i] = response[d][i]
             \/ d = c /\ i = Len(response[d]) + 1 /\ response'[d][i] = x
  <2>1. CASE d # c
    BY <1>6, <2>1
  <2>2. CASE d = c /\ response'[c] = response[c]
    BY <2>2
  <2>3. CASE d = c /\ response'[c] = Append(response[c], x)
    <3>1. i \in 1..(Len(response[c]) + 1)
      BY <1>7, <2>3
    <3>2. i \in 1..Len(response[c]) \/ i = Len(response[c]) + 1
      BY <1>7, <3>1
    <3> QED
      BY <1>7, <2>3, <3>2
  <2> QED
    BY <1>6, <2>1, <2>2, <2>3
<1> HIDE DEF x, c, n
<1>9. /\ redelivered \in Nat
      /\ redelivered' \in {redelivered, redelivered + 1}
      /\ UNCHANGED <<conn, pc, calls, out, heard, turn>>
      /\ \A d \in Client : Due(d)' = Due(d)
  BY <1>0, <1>1, CounterTypes DEF clientVars, Due
<1>10. CallInv' /\ HeardInv'
  BY <1>9 DEF IInv, CallInv, HeardInv, Nothing
<1>11. SentInv'
  <2>1. ASSUME NEW y, WasSent(y) PROVE WasSent(y)'
    BY <1>9, <2>1 DEF WasSent
  <2>2. ASSUME NEW i \in 1..Len(offload') PROVE WasSent(offload[i])'
    <3>1. PICK j \in 1..Len(offload) : offload'[i] = offload[j]
      BY <1>5
    <3>2. PICK y : y = offload[j]
      OBVIOUS
    <3>3. WasSent(y)'
      BY <2>1, <3>2 DEF IInv, SentInv
    <3> QED
      BY <3>1, <3>2, <3>3 DEF WasSent
  <2>3. ASSUME NEW d \in Client, NEW i \in 1..Len(response'[d])
        PROVE  response'[d][i].from = d /\ WasSent(response[d][i])'
    <3>1. PICK y : y = response'[d][i]
      OBVIOUS
    <3>2. y.from = d /\ WasSent(y)
      BY <1>3, <1>8, <3>1 DEF IInv, SentInv, c
    <3>3. WasSent(y)'
      BY <2>1, <3>2
    <3> QED
      BY <3>1, <3>2, <3>3 DEF WasSent
  <2> QED
    BY <2>2, <2>3 DEF SentInv
<1>12. OrderInv'
  <2> SUFFICES ASSUME NEW i \in 1..Len(offload'), NEW j \in 1..Len(offload'), i < j,
                      offload'[i].from = offload'[j].from
               PROVE  turn[offload'[i].from][offload'[i].num]
                        < turn[offload'[j].from][offload'[j].num]
    BY <1>9 DEF OrderInv
  <2>1. PICK i2 \in 1..Len(offload), j2 \in 1..Len(offload) :
          offload'[i] = offload[i2] /\ offload'[j] = offload[j2] /\ i2 < j2
    <3>1. i \in Nat /\ j \in Nat
      OBVIOUS
    <3> QED
      BY <1>5, <3>1
  <2> QED
    BY <2>1 DEF IInv, OrderInv
\* a request behind the first one, of the same client
<1>13. ASSUME NEW j \in 1..Len(offload), j > 1, offload[j].from = c
       PROVE  turn[c][n] < turn[c][offload[j].num]
  BY <1>2, <1>13 DEF IInv, OrderInv, x, c, n
<1>14. LagInv'
  <2>0. /\ \A d \in Client : turn[d][calls[d]] \in Nat /\ Due(d) \in Nat /\ Len(response[d]) \in Nat
        /\ turn[c][n] \in Nat
    BY <1>0, <1>3, CounterTypes, MessageTypes
  <2>1. conn[c] = "open" =>
          turn[c][calls[c]] + Len(response[c]) + Due(c) <= turn[c][n] + redelivered
    BY <1>2, <1>3 DEF IInv, LagInv, x, c, n
  <2>2. ASSUME NEW d \in Client, NEW i \in 1..Len(offload'), offload'[i].from = d,
               conn[d] = "open"
        PROVE  turn[d][calls[d]] + Len(response'[d]) + Due(d)
                 <= turn[d][offload'[i].num] + redelivered'
    <3>1. PICK j \in 1..Len(offload) :
               /\ offload'[i] = offload[j]
               /\ redelivered' = redelivered => j = i + 1
               /\ redelivered' # redelivered => j = i
      BY <1>5
    <3>2. /\ turn[d][calls[d]] + Len(response[d]) + Due(d)
               <= turn[d][offload[j].num] + redelivered
          /\ turn[d][offload[j].num] \in Nat
      BY <1>0, <2>2, <3>1, MessageTypes, CounterTypes DEF IInv, LagInv
    <3>3. PICK a \in Nat, b \in Nat, l \in Nat, l2 \in Nat, t \in Nat, r \in Nat, r2 \in Nat :
            /\ a = turn[d][calls[d]] /\ b = Due(d)
            /\ l = Len(response[d]) /\ l2 = Len(response'[d])
            /\ t = turn[d][offload[j].num]
            /\ r = redelivered /\ r2 = redelivered'
      <4>1. /\ turn[d][calls[d]] \in Nat /\ Due(d) \in Nat
            /\ Len(response[d]) \in Nat /\ Len(response'[d]) \in Nat
            /\ redelivered \in Nat /\ redelivered' \in Nat
        BY <1>6, <1>7, <1>9, <2>0
      <4> QED
        BY <3>2, <4>1, Zenon
    <3>4. a + l + b <= t + r /\ r2 >= r
      BY <1>9, <3>2, <3>3
    <3>5. a + l2 + b <= t + r2
      <4>1. CASE d # c
        <5>1. l2 = l
          BY <1>6, <3>3, <4>1
        <5> QED
          BY <3>4, <5>1
      <4>2. CASE d = c /\ redelivered' = redelivered
        <5>1. PICK u \in Nat : u = turn[c][n]
          BY <2>0
        <5>2. u < t
          BY <1>13, <2>2, <3>1, <3>3, <4>2, <5>1
        <5>3. l2 = l + 1 /\ r2 = r
          <6>1. response'[c] = Append(response[c], x)
            BY <1>6, <1>9, <2>2, <4>2
          <6> QED
            BY <1>7, <3>3, <4>2, <6>1
        <5>4. a + l + b <= u + r
          BY <2>1, <2>2, <3>3, <4>2, <5>1
        <5> QED
          BY <5>2, <5>3, <5>4
      <4>3. CASE d = c /\ redelivered' = redelivered + 1
        <5>1. l2 <= l + 1 /\ r2 = r + 1
          BY <1>6, <1>7, <3>3, <4>3
        <5> QED
          BY <3>4, <5>1
      <4> QED
        BY <1>9, <4>1, <4>2, <4>3
    <3> QED
      BY <3>1, <3>3, <3>5
  <2>3. ASSUME NEW d \in Client, NEW i \in 1..Len(response'[d])
        PROVE  turn[d][calls[d]] + (i - 1) + Due(d)
                 <= turn[d][response'[d][i].num] + redelivered'
    <3>1. /\ turn[d][calls[d]] + (i - 1) + Due(d)
               <= turn[d][response'[d][i].num] + redelivered
          /\ turn[d][response'[d][i].num] \in Nat
      <4>1. CASE i \in 1..Len(response[d]) /\ response'[d][i] = response[d][i]
        BY <1>0, <2>3, <4>1, MessageTypes, CounterTypes DEF IInv, LagInv
      <4>2. CASE d = c /\ i = Len(response[d]) + 1 /\ response'[d][i] = x
        <5>1. i - 1 = Len(response[c]) /\ response'[d][i].num = n
          BY <1>3, <2>0, <4>2 DEF n
        <5>2. conn[c] = "open"
          BY <1>6, <1>7, <2>3, <4>2
        <5> QED
          BY <2>0, <2>1, <2>3, <4>2, <5>1, <5>2
      <4> QED
        BY <1>8, <4>1, <4>2
    <3>2. PICK a \in Int, t \in Nat, r \in Nat, r2 \in Nat :
            /\ a = turn[d][calls[d]] + (i - 1) + Due(d)
            /\ t = turn[d][response'[d][i].num]
            /\ r = redelivered /\ r2 = redelivered'
      <4>1. turn[d][calls[d]] + (i - 1) + Due(d) \in Int
        <5>1. turn[d][calls[d]] \in Nat /\ Due(d) \in Nat
          BY <2>0
        <5> QED
          BY <5>1
      <4>2. redelivered \in Nat /\ redelivered' \in Nat
        BY <1>9
      <4> QED
        BY <3>1, <4>1, <4>2, Zenon
    <3>3. a <= t + r /\ r2 >= r
      BY <1>9, <3>1, <3>2
    <3>4. a <= t + r2
      BY <3>3
    <3> QED
      BY <3>2, <3>4
  <2> QED
    BY <1>9, <2>2, <2>3 DEF LagInv
<1>15. \A d \in Client, k \in 1..MaxCalls : carried[d][k] \in Nat /\ carried'[d][k] >= carried[d][k]
  BY <1>0, <1>3, <1>4, CounterTypes
<1>16. CarriedInv'
  <2>1. carried[c][n] <= redelivered
    BY <1>2 DEF IInv, CarriedInv, x, c, n
  <2>2. ASSUME NEW i \in 1..Len(offload')
        PROVE  carried'[offload'[i].from][offload'[i].num] <= redelivered'
    <3>1. PICK j \in 1..Len(offload) :
               /\ offload'[i] = offload[j]
               /\ redelivered' = redelivered => j = i + 1
               /\ redelivered' # redelivered => j = i
      BY <1>5
    <3>2. /\ offload[j].from \in Client /\ offload[j].num \in 1..MaxCalls
          /\ carried[offload[j].from][offload[j].num] <= redelivered
      BY <1>0, MessageTypes DEF IInv, CarriedInv
    <3>3. CASE redelivered' = redelivered
      <4>1. ~(offload[j].from = c /\ offload[j].num = n)
        <5>1. turn[c][n] \in Nat
          BY <1>0, <1>3, CounterTypes
        <5> QED
          BY <1>13, <3>1, <3>3, <5>1
      <4> QED
        BY <1>4, <1>9, <3>1, <3>2, <3>3, <4>1
    <3>4. CASE redelivered' = redelivered + 1
      <4>1. carried'[offload[j].from][offload[j].num]
              <= carried[offload[j].from][offload[j].num] + 1
        <5>1. /\ carried'[offload[j].from][offload[j].num]
                   = IF offload[j].from = c /\ offload[j].num = n
                       THEN carried[c][n] + 1 ELSE carried[offload[j].from][offload[j].num]
              /\ carried[offload[j].from][offload[j].num] \in Nat
          BY <1>4, <1>15, <3>2
        <5> QED
          BY <5>1
      <4>2. /\ carried[offload[j].from][offload[j].num] \in Nat
            /\ carried'[offload[j].from][offload[j].num] \in Nat
        <5>1. carried' \in [Client -> [1..MaxCalls -> Nat]]
          BY DEF TypeOK
        <5> QED
          BY <1>15, <3>2, <5>1
      <4> QED
        BY <1>9, <3>1, <3>2, <3>4, <4>1, <4>2
    <3> QED
      BY <1>9, <3>3, <3>4
  <2>3. ASSUME NEW d \in Client, NEW i \in 1..Len(response'[d])
        PROVE  carried'[d][response'[d][i].num] > 0
    <3>1. CASE i \in 1..Len(response[d]) /\ response'[d][i] = response[d][i]
      <4>1. response[d][i].num \in 1..MaxCalls /\ carried[d][response[d][i].num] > 0
        BY <1>0, <3>1, MessageTypes DEF IInv, CarriedInv
      <4>2. carried[d][response[d][i].num] \in Nat /\ carried'[d][response[d][i].num] \in Nat
        BY <1>15, <4>1, <1>3, <1>4
      <4> QED
        BY <1>15, <3>1, <4>1, <4>2
    <3>2. CASE d = c /\ response'[d][i] = x
      BY <1>3, <1>4, <1>15, <3>2 DEF n
    <3> QED
      BY <1>8, <3>1, <3>2
  <2>4. ASSUME NEW d \in Client, NEW k \in 1..MaxCalls
        PROVE  /\ carried'[d][k] <= 1 + redelivered'
               /\ (k > calls[d] \/ (k = calls[d] /\ pc[d] = "send")) => carried'[d][k] = 0
    <3>1. CASE d = c /\ k = n
      <4>1. n <= calls[c] /\ (pc[c] = "send" => n < calls[c]) /\ calls[c] \in Nat
        BY <1>0, <1>3, CounterTypes DEF WasSent, c, n
      <4> QED
        BY <1>3, <1>4, <1>9, <1>15, <2>1, <3>1, <4>1
    <3>2. CASE ~(d = c /\ k = n)
      BY <1>4, <1>9, <1>15, <3>2 DEF IInv, CarriedInv
    <3> QED
      BY <3>1, <3>2
  <2> QED
    BY <1>9, <2>2, <2>3, <2>4 DEF CarriedInv
<1>17. ReplyLag'
  <2> SUFFICES ASSUME NEW d \in Client, heard[d].num # 0
               PROVE  /\ heard[d].from = d
                      /\ heard[d].num <= calls[d]
                      /\ turn[d][calls[d]] <= turn[d][heard[d].num] + redelivered'
                      /\ carried'[d][heard[d].num] > 0
    BY <1>9 DEF ReplyLag
  <2>1. /\ heard[d].from = d
        /\ heard[d].num <= calls[d]
        /\ turn[d][calls[d]] <= turn[d][heard[d].num] + redelivered
        /\ carried[d][heard[d].num] > 0
    BY DEF IInv, ReplyLag
  <2>2. heard[d].num \in 1..MaxCalls
    <3>1. heard[d].num \in 0..MaxCalls
      BY <1>0 DEF TypeOK
    <3> QED
      BY <1>0, <3>1, CounterTypes
  <2>3. turn[d][calls[d]] \in Nat /\ turn[d][heard[d].num] \in Nat
    BY <1>0, <2>2, CounterTypes
  <2> QED
    BY <1>3, <1>4, <1>9, <1>15, <2>1, <2>2, <2>3
<1> QED
  BY <1>10, <1>11, <1>12, <1>14, <1>16, <1>17 DEF IInv

----------------------------------------------------------------------------
(* The theorems *)

\* Every step of clients, broker and listener keeps the inductive invariant.
LEMMA IInvStep == IInv /\ [Next]_vars => IInv'
<1> SUFFICES ASSUME IInv, [Next]_vars PROVE IInv'
  OBVIOUS
<1>1. TypeOK'
  BY TypeStep DEF IInv
<1>2. CASE UNCHANGED vars
  BY <1>2 DEF vars, clientVars, IInv, TypeOK, CallInv, SentInv, WasSent, OrderInv,
              LagInv, Due, CarriedInv, HeardInv, Nothing, ReplyLag
<1>3. ASSUME NEW c \in Client, SendAccepted(c) PROVE IInv'
  <2>1. conn[c] = "open" \/ UNCHANGED offload
    BY <1>3 DEF SendAccepted
  <2> QED
    BY <1>1, <1>3, <2>1, SendStep, QuietStep
<1> QED
  BY <1>1, <1>2, <1>3, ConnectionStep, CallStep, QuietStep, ReceiveStep, ServeStep
     DEF Next, Proceed

\* The inductive invariant holds in every reachable state.
THEOREM TransportInvariant == Spec => []IInv
  BY InitIInv, IInvStep, PTL DEF Spec

\* The state of the clients and of the queues is well typed.
THEOREM TransportTyped == Spec => []TypeOK
<1>1. IInv => TypeOK
  BY DEF IInv
<1> QED
  BY <1>1, TransportInvariant, PTL

\* get, post and del over shared queues: an answer handed to a caller is one of
\* the object's own, late by no more answered calls than there were redeliveries,
\* for any number of clients, calls and redeliveries.
THEOREM AnswersLag == Spec => []ReplyLag
<1>1. IInv => ReplyLag
  BY DEF IInv
<1> QED
  BY <1>1, TransportInvariant, PTL

\* send never repeats a request: only redeliveries make the listener carry a call
\* out again, and no call is carried out before it is made.
THEOREM CarriedOutOnce == Spec => []CarriedOnce
<1>1. IInv => CarriedOnce
  BY CounterTypes DEF IInv, CarriedInv, CarriedOnce
<1> QED
  BY <1>1, TransportInvariant, PTL

\* del checks what send returned: on a connection that is up it never waits for an
\* answer that is neither there nor on its way.
THEOREM DelAnswered == Spec => []DelWaitsForAnswer
<1>1. Init => DelWaitsForAnswer
  BY DEF Init, DelWaitsForAnswer
<1>2. IInv /\ DelWaitsForAnswer /\ [Next]_vars => DelWaitsForAnswer'
  <2> SUFFICES ASSUME IInv, DelWaitsForAnswer, [Next]_vars,
                      NEW d \in Client, pc'[d] = "receive", method'[d] = "DELETE",
                      conn'[d] = "open"
               PROVE  \/ Contains(offload, [from |-> d, num |-> calls[d]])'
                      \/ response'[d] # <<>>
    BY DEF DelWaitsForAnswer
  <2> DEFINE x == [from |-> d, num |-> calls[d]]
  <2>0. TypeOK
    BY DEF IInv
  <2>1. ASSUME UNCHANGED <<pc, method, calls, offload>>, response'[d] = response[d],
               conn[d] \in {"open", "new"}
        PROVE  \/ Contains(offload, [from |-> d, num |-> calls[d]])'
               \/ response'[d] # <<>>
    <3>1. conn[d] = "open"
      BY <2>1 DEF IInv, CallInv
    <3> QED
      BY <2>1, <3>1 DEF DelWaitsForAnswer, Contains
  <2>2. ASSUME NEW c \in Client, c # d, conn' = conn, pc'[d] = pc[d], method'[d] = method[d],
               calls'[d] = calls[d], response'[d] = response[d],
               \/ UNCHANGED offload
               \/ \E y : offload' = Append(offload, y)
        PROVE  \/ Contains(offload, [from |-> d, num |-> calls[d]])'
               \/ response'[d] # <<>>
    <3>1. Contains(offload, x) \/ response[d] # <<>>
      BY <2>2 DEF DelWaitsForAnswer
    <3>2. ASSUME NEW i \in 1..Len(offload), offload[i] = x
          PROVE  i \in 1..Len(offload') /\ offload'[i] = x
      <4>1. offload \in Seq(Message)
        BY <2>0 DEF TypeOK
      <4> QED
        BY <2>2, <3>2, <4>1
    <3> QED
      BY <2>2, <3>1, <3>2 DEF Contains
  <2>3. ASSUME NEW c \in Client, Construct(c) \/ Destroy(c) \/ Disconnect(c)
        PROVE  \/ Contains(offload, [from |-> d, num |-> calls[d]])'
               \/ response'[d] # <<>>
    <3>1. /\ conn[d] \in {"open", "new"} /\ response'[d] = response[d]
          /\ UNCHANGED <<pc, method, calls, offload>>
      BY <2>0, <2>3 DEF Construct, Destroy, Disconnect, TypeOK
    <3> QED
      BY <2>1, <3>1
  <2>4. ASSUME NEW c \in Client, NEW m \in Method, Call(c, m)
        PROVE  \/ Contains(offload, [from |-> d, num |-> calls[d]])'
               \/ response'[d] # <<>>
    <3>1. c # d
      BY <2>0, <2>4 DEF Call, TypeOK
    <3> QED
      BY <2>0, <2>2, <2>4, <3>1 DEF Call, TypeOK
  <2>5. ASSUME NEW c \in Client, SendAccepted(c)
        PROVE  \/ Contains(offload, [from |-> d, num |-> calls[d]])'
               \/ response'[d] # <<>>
    <3>1. CASE c # d
      BY <2>0, <2>2, <2>5, <3>1 DEF SendAccepted, TypeOK
    <3>2. CASE c = d
      <4>1. offload \in Seq(Message) /\ offload' = Append(offload, x) /\ calls' = calls
        BY <2>0, <2>5, <3>2 DEF SendAccepted, TypeOK
      <4>2. offload'[Len(offload) + 1] = x /\ Len(offload) + 1 \in 1..Len(offload')
        BY <4>1
      <4> QED
        BY <4>1, <4>2 DEF Contains
    <3> QED
      BY <3>1, <3>2
  <2>6. ASSUME NEW c \in Client, SendError(c) \/ ReceiveMessage(c) \/ ReceiveError(c)
        PROVE  \/ Contains(offload, [from |-> d, num |-> calls[d]])'
               \/ response'[d] # <<>>
    <3>1. c # d
      BY <2>0, <2>6 DEF SendError, ReceiveMessage, ReceiveError, Return, TypeOK
    <3> QED
      BY <2>0, <2>2, <2>6, <3>1
         DEF SendError, ReceiveMessage, ReceiveError, ResponseQueue, Return, TypeOK
  <2>7. ~BrokerRestart
    BY <2>0 DEF BrokerRestart, TypeOK, Up
  <2>8. CASE Serve \/ ServeAndFail
    <3>1. UNCHANGED <<conn, pc, method, calls>>
      BY <2>8 DEF Serve, ServeAndFail, clientVars
    <3>2. Contains(offload, x) \/ response[d] # <<>>
      BY <3>1 DEF DelWaitsForAnswer
    <3>3. offload \in Seq(Message) /\ offload # <<>> /\ response \in [Client -> Seq(Message)]
      BY <2>0, <2>8 DEF Serve, ServeAndFail, TypeOK
    <3>4. Head(offload) \in Message /\ Head(offload).from \in Client
      <4>1. Head(offload) \in Message
        BY <3>3
      <4> QED
        BY <4>1 DEF Message
    <3>5. CASE response[d] # <<>>
      <4>1. Published(Head(offload))[d] \in {response[d], Append(response[d], Head(offload))}
        BY <3>3, <3>4 DEF Published, ResponseQueue
      <4>2. response[d] \in Seq(Message)
        BY <3>3
      <4>3. Append(response[d], Head(offload)) # <<>>
        <5>1. ASSUME NEW t \in Seq(Message), NEW y \in Message PROVE Append(t, y) # <<>>
          <6>1. Len(Append(t, y)) = Len(t) + 1 /\ Len(t) \in Nat /\ Len(<<>>) = 0
            OBVIOUS
          <6> QED
            BY <6>1
        <5> QED
          BY <3>4, <4>2, <5>1
      <4> QED
        BY <2>8, <3>5, <4>1, <4>3 DEF Serve, ServeAndFail
    <3>6. CASE Contains(offload, x) /\ ServeAndFail
      BY <3>1, <3>6 DEF ServeAndFail, Contains
    <3>7. ASSUME NEW i \in 1..Len(offload), offload[i] = x, Serve
          PROVE  Contains(offload, [from |-> d, num |-> calls[d]])' \/ response'[d] # <<>>
      <4>1. CASE i = 1
        <5>1. Head(offload) = x /\ x.from = d
          BY <3>3, <3>7, <4>1
        <5>2. response' = Published(Head(offload))
          BY <3>7 DEF Serve
        <5>3. response'[d] = Append(response[d], Head(offload))
          BY <3>1, <3>3, <5>1, <5>2 DEF Published, ResponseQueue
        <5> QED
          <6>1. response[d] \in Seq(Message)
            BY <3>3
          <6> QED
            BY <3>4, <5>3, <6>1
      <4>2. CASE i # 1
        <5>1. offload' = Tail(offload)
          BY <3>7 DEF Serve
        <5>2. i - 1 \in 1..Len(offload') /\ offload'[i - 1] = x
          BY <3>3, <3>7, <4>2, <5>1
        <5> QED
          BY <3>1, <5>2 DEF Contains
      <4> QED
        BY <4>1, <4>2
    <3> QED
      BY <2>8, <3>2, <3>5, <3>6, <3>7 DEF Contains
  <2>9. CASE UNCHANGED vars
    BY <2>1, <2>9 DEF vars, clientVars
  <2> QED
    BY <2>3, <2>4, <2>5, <2>6, <2>7, <2>8, <2>9 DEF Next, Proceed
<1> QED
  BY <1>1, <1>2, TransportInvariant, PTL DEF Spec

\* No call is under way before any object is constructed.
LEMMA ImplementsInit == Init => Abstract!Init
<1> SUFFICES ASSUME Init PROVE Abstract!Init
  OBVIOUS
<1>1. [c \in Client |-> pc[c] # "idle"] = [c \in Client |-> FALSE]
  BY DEF Init
<1>2. [c \in Client |-> heard[c].num] = [c \in Client |-> 0]
  BY DEF Init, Nothing
<1> QED
  BY <1>1, <1>2 DEF Init, Abstract!Init

\* With a listener that acknowledges what it has served, every step is one of
\* Transport, or changes nothing that it speaks of.
LEMMA ImplementsStep ==
  ASSUME MaxRedeliver = 0
  PROVE  IInv /\ [Next]_vars => [Abstract!Next]_(Abstract!vars)
<1> SUFFICES ASSUME IInv, [Next]_vars PROVE [Abstract!Next]_(Abstract!vars)
  OBVIOUS
<1> DEFINE busy == [c \in Client |-> pc[c] # "idle"]
           last == [c \in Client |-> heard[c].num]
<1>0. TypeOK /\ redelivered = 0
  <2>1. TypeOK /\ redelivered \in 0..MaxRedeliver
    BY DEF IInv, TypeOK
  <2> QED
    BY <2>1
<1>1. ASSUME UNCHANGED <<pc, calls, carried, heard>> PROVE UNCHANGED Abstract!vars
  BY <1>1 DEF Abstract!vars
<1>2. ASSUME NEW c \in Client, NEW m \in Method, Call(c, m) PROVE Abstract!Begin(c)
  <2>1. pc[c] = "idle" /\ calls[c] < MaxCalls
    BY <1>2 DEF Call
  <2>2. busy' = [busy EXCEPT ![c] = TRUE]
    BY <1>0, <1>2 DEF Call, TypeOK
  <2>3. last' = [last EXCEPT ![c] = 0]
    BY <1>0, <1>2 DEF Call, TypeOK, Nothing
  <2>4. calls' = [calls EXCEPT ![c] = @ + 1] /\ carried' = carried
    BY <1>2 DEF Call
  <2> QED
    BY <2>1, <2>2, <2>3, <2>4 DEF Abstract!Begin
<1>3. ASSUME NEW c \in Client,
             SendAccepted(c) \/ (SendError(c) /\ method[c] # "DELETE")
      PROVE  UNCHANGED Abstract!vars
  <2>1. UNCHANGED <<calls, carried, heard>>
    BY <1>3 DEF SendAccepted, SendError
  <2>2. pc[c] = "send" /\ pc' = [pc EXCEPT ![c] = "receive"]
    BY <1>3 DEF SendAccepted, SendError
  <2>3. busy' = busy
    BY <1>0, <2>2 DEF TypeOK
  <2> QED
    BY <2>1, <2>3 DEF Abstract!vars
<1>4. ASSUME NEW c \in Client,
             (SendError(c) /\ method[c] = "DELETE") \/ ReceiveError(c)
      PROVE  Abstract!NotAnswered(c)
  <2>1. /\ pc[c] # "idle" /\ pc' = [pc EXCEPT ![c] = "idle"]
        /\ heard' = [heard EXCEPT ![c] = Nothing(c)]
        /\ UNCHANGED <<calls, carried>>
    BY <1>4 DEF SendError, ReceiveError, Return
  <2>2. busy' = [busy EXCEPT ![c] = FALSE]
    BY <1>0, <2>1 DEF TypeOK
  <2>3. last' = last
    BY <1>0, <2>1 DEF IInv, HeardInv, TypeOK
  <2> QED
    BY <2>1, <2>2, <2>3 DEF Abstract!NotAnswered
<1>5. ASSUME NEW c \in Client, ReceiveMessage(c) PROVE Abstract!Answered(c)
  <2> DEFINE x == response[c][1]
  <2>1. /\ pc[c] = "receive" /\ pc' = [pc EXCEPT ![c] = "idle"]
        /\ response[c] # <<>>
        /\ heard' = [heard EXCEPT ![c] = Head(response[c])]
        /\ UNCHANGED <<calls, carried>>
    BY <1>5 DEF ReceiveMessage, ResponseQueue, Return
  <2>2. 1 \in 1..Len(response[c]) /\ Head(response[c]) = x
    <3>1. response[c] \in Seq(Message)
      BY <1>0 DEF TypeOK
    <3> QED
      BY <2>1, <3>1
  <2>3. /\ x.from = c /\ x.num \in 1..MaxCalls /\ x.num <= calls[c]
        /\ x.num < calls[c] => turn[c][x.num] < turn[c][calls[c]]
        /\ carried[c][x.num] > 0 /\ carried[c][x.num] <= 1 + redelivered
    BY <1>0, <2>2, MessageTypes DEF IInv, SentInv, WasSent, CarriedInv
  <2>4. turn[c][calls[c]] <= turn[c][x.num]
    <3>1. turn[c][calls[c]] + (1 - 1) + Due(c) <= turn[c][x.num] + redelivered
      BY <2>1, <2>2 DEF IInv, LagInv
    <3>2. Due(c) = 0
      BY <2>1 DEF Due
    <3>3. turn[c][calls[c]] \in Nat /\ turn[c][x.num] \in Nat
      BY <1>0, <2>3, CounterTypes
    <3> QED
      BY <1>0, <3>1, <3>2, <3>3
  <2>5. x.num = calls[c] /\ carried[c][calls[c]] = 1
    <3>1. /\ turn[c][calls[c]] \in Nat /\ turn[c][x.num] \in Nat
          /\ calls[c] \in Nat /\ carried[c][x.num] \in Nat
      BY <1>0, <2>3, CounterTypes
    <3> QED
      BY <1>0, <2>3, <2>4, <3>1
  <2>6. busy' = [busy EXCEPT ![c] = FALSE]
    BY <1>0, <2>1 DEF TypeOK
  <2>7. last' = [last EXCEPT ![c] = calls[c]]
    BY <1>0, <2>1, <2>2, <2>5 DEF TypeOK
  <2> QED
    BY <2>1, <2>5, <2>6, <2>7 DEF Abstract!Answered
<1>6. CASE Serve
  <2> DEFINE x == offload[1]
  <2>1. /\ offload # <<>>
        /\ carried' = [carried EXCEPT ![Head(offload).from][Head(offload).num] = @ + 1]
        /\ UNCHANGED <<pc, calls, heard>>
    BY <1>6 DEF Serve, clientVars
  <2>2. 1 \in 1..Len(offload) /\ Head(offload) = x
    <3>1. offload \in Seq(Message)
      BY <1>0 DEF TypeOK
    <3> QED
      BY <2>1, <3>1
  <2>3. /\ x.from \in Client /\ x.num \in 1..MaxCalls
        /\ x.num <= calls[x.from] /\ carried[x.from][x.num] <= 0
    BY <1>0, <2>2, MessageTypes DEF IInv, SentInv, WasSent, CarriedInv
  <2>4. PICK c \in Client, k \in 1..MaxCalls : c = x.from /\ k = x.num
    BY <2>3
  <2>5. carried[c][k] = 0 /\ k \in 1..calls[c]
    BY <1>0, <2>3, <2>4, CounterTypes
  <2>6. carried' = [carried EXCEPT ![c][k] = 1]
    <3>1. carried' = [carried EXCEPT ![c][k] = carried[c][k] + 1]
      BY <2>1, <2>2, <2>4
    <3>2. carried[c][k] + 1 = 1
      BY <2>5
    <3> QED
      BY <3>1, <3>2, Zenon
  <2>7. Abstract!CarryOut(c, k)
    BY <2>1, <2>5, <2>6 DEF Abstract!CarryOut
  <2> QED
    BY <2>7 DEF Abstract!Next
<1>7. ~ServeAndFail
  BY <1>0 DEF ServeAndFail
<1>8. ASSUME NEW c \in Client, Construct(c) \/ Destroy(c) \/ Disconnect(c)
      PROVE  UNCHANGED Abstract!vars
  BY <1>1, <1>8 DEF Construct, Destroy, Disconnect
<1>9. CASE BrokerRestart \/ UNCHANGED vars
  BY <1>1, <1>9 DEF BrokerRestart, vars, clientVars
<1> QED
  BY <1>2, <1>3, <1>4, <1>5, <1>6, <1>7, <1>8, <1>9 DEF Next, Proceed, Abstract!Next

\* With a listener that acknowledges what it has served, the AMQP transport keeps
\* the promise of MQSSBaseClient: every answer is that of the very call, and a
\* call is carried out at most once.
THEOREM TransportImplemented ==
  ASSUME MaxRedeliver = 0
  PROVE  Spec => ImplementsTransport
<1>1. IInv /\ [Next]_vars => [Abstract!Next]_(Abstract!vars)
  BY ImplementsStep
<1> QED
  BY <1>1, ImplementsInit, TransportInvariant, PTL
     DEF Spec, ImplementsTransport, Abstract!Spec
=============================================================================

--------------------------- MODULE HpcJobsProofs ---------------------------
(***************************************************************************)
(* MQSSClient over AMQP, for any number of objects, calls, JobRequests and *)
(* submissions: the transport keeps its promise under the client, and the  *)
(* client over it implements JobClient.                                    *)
(***************************************************************************)
EXTENDS HpcJobs, TLAPS

\* The lemmas about the two parts, with the same substitutions.
CP == INSTANCE JobClientProofs WITH
        Thread <- Client, latePost <- {}, lateDelete <- {}
TP == INSTANCE HpcTransportProofs WITH
        pc <- wire, MaxRedeliver <- 0, redelivered <- 0

----------------------------------------------------------------------------
(* The transport under the client *)

\* The two instances of HpcTransport describe the same steps.
LEMMA SameWireNext == T!Next <=> TP!Next
<1>1. ASSUME NEW c \in Client PROVE T!Delivered(c) = TP!Delivered(c)
  BY DEF T!Delivered, TP!Delivered, T!Prefixes, TP!Prefixes, T!Up, TP!Up
<1>2. T!BrokerRestart <=> TP!BrokerRestart
  <2>1. UNION {T!Delivered(c) : c \in Client} = UNION {TP!Delivered(c) : c \in Client}
    BY <1>1
  <2> QED
    BY <1>1, <2>1 DEF T!BrokerRestart, TP!BrokerRestart, T!Up, TP!Up
<1>3. ASSUME NEW c \in Client PROVE T!Disconnect(c) <=> TP!Disconnect(c)
  BY <1>1 DEF T!Disconnect, TP!Disconnect, T!Up, TP!Up
<1>4. ASSUME NEW c \in Client
      PROVE  /\ T!Construct(c) <=> TP!Construct(c)
             /\ T!Destroy(c) <=> TP!Destroy(c)
             /\ T!Proceed(c) <=> TP!Proceed(c)
  BY DEF T!Construct, TP!Construct, T!Connect, TP!Connect, T!DeclareQueues, TP!DeclareQueues,
    T!Destroy, TP!Destroy, T!Usable, TP!Usable, T!Nothing, TP!Nothing,
    T!Proceed, TP!Proceed, T!SendAccepted, TP!SendAccepted, T!SendError, TP!SendError,
    T!ReceiveMessage, TP!ReceiveMessage, T!ReceiveError, TP!ReceiveError, T!Return, TP!Return,
    T!ReceiveValue, TP!ReceiveValue, T!ResponseQueue, TP!ResponseQueue
<1>5. ASSUME NEW c \in Client, NEW m PROVE T!Call(c, m) <=> TP!Call(c, m)
  BY DEF T!Call, TP!Call, T!Usable, TP!Usable, T!Nothing, TP!Nothing
<1>6. (T!Serve <=> TP!Serve) /\ (T!ServeAndFail <=> TP!ServeAndFail)
  BY DEF T!Serve, TP!Serve, T!ServeAndFail, TP!ServeAndFail, T!Published, TP!Published,
    T!ResponseQueue, TP!ResponseQueue, T!clientVars, TP!clientVars
<1> QED
  BY <1>2, <1>3, <1>4, <1>5, <1>6 DEF T!Next, TP!Next, T!Method, TP!Method

\* They also agree on the types of its variables.
LEMMA SameWireTypes == T!TypeOK <=> TP!TypeOK
  BY DEF T!TypeOK, TP!TypeOK, T!Method, TP!Method, T!Message, TP!Message,
         T!Connection, TP!Connection, T!Usable, TP!Usable

\* At first no object of HpcTransport has been constructed.
LEMMA WireInit == Init => TP!Init
  BY DEF Init, T!Init, TP!Init, T!Nothing, TP!Nothing

\* What the client does to its object, to the broker and to the listener are
\* steps of HpcTransport.
LEMMA WireStep == [Next]_vars => [TP!Next]_(TP!vars)
<1> SUFFICES ASSUME [Next]_vars PROVE T!Next \/ UNCHANGED wireVars
  BY SameWireNext DEF TP!vars, TP!clientVars, wireVars
<1>1. ASSUME NEW c \in Client, Enter(c) PROVE T!Next \/ UNCHANGED wireVars
  <2>1. Verb(ask'[c]) \in T!Method
    BY DEF Verb, T!Method
  <2> QED BY <1>1, <2>1 DEF Enter, T!Next
<1>2. ASSUME NEW c \in Client, BeginJobCall(c) \/ Proceed(c)
      PROVE  T!Next \/ UNCHANGED wireVars
  BY <1>1, <1>2 DEF BeginJobCall, Proceed, Compute, Transport, T!Next
<1>3. CASE Serve
  BY <1>3 DEF Serve, T!Next
<1>4. CASE Connection
  BY <1>4 DEF Connection, T!Next
<1> QED BY <1>2, <1>3, <1>4 DEF Next, JobEnds, vars

\* The invariant of HpcTransport, and what Transport says of an answer.
OwnAnswer == \A c \in Client : heard[c].num \in {0, calls[c]}

\* At first nothing was sent or heard.
LEMMA WireInvInit == Init => TP!IInv /\ OwnAnswer
<1> SUFFICES ASSUME Init PROVE TP!IInv /\ OwnAnswer
  OBVIOUS
<1>1. TP!IInv
  BY HpcJobsAssumption, WireInit, TP!InitIInv
<1>2. OwnAnswer
  BY DEF Init, T!Init, T!Nothing, OwnAnswer
<1> QED BY <1>1, <1>2

\* A step of the client, the broker or the listener keeps the transport's invariant;
\* an answer handed out is that of the call in progress, as Transport promises.
LEMMA WireInvStep == TP!IInv /\ OwnAnswer /\ [Next]_vars => (TP!IInv /\ OwnAnswer)'
<1> SUFFICES ASSUME TP!IInv, OwnAnswer, [Next]_vars PROVE (TP!IInv /\ OwnAnswer)'
  OBVIOUS
<1>1. [TP!Next]_(TP!vars)
  BY WireStep
<1>2. TP!IInv'
  BY HpcJobsAssumption, <1>1, TP!IInvStep
<1>3. [TP!Abstract!Next]_(TP!Abstract!vars)
  BY HpcJobsAssumption, <1>1, TP!ImplementsStep
<1>4. TP!TypeOK /\ TP!TypeOK'
  BY <1>2 DEF TP!IInv
<1>5. ASSUME NEW d \in Client PROVE heard'[d].num \in {0, calls'[d]}
  <2> DEFINE last == [c \in Client |-> heard[c].num]
  <2>1. last[d] \in {0, calls[d]} /\ last'[d] = heard'[d].num
    BY DEF OwnAnswer
  <2>2. calls \in [Client -> 0..MaxCalls]
    BY <1>4 DEF TP!TypeOK
  <2>3. CASE UNCHANGED TP!Abstract!vars
    <3>1. last' = last /\ calls' = calls
      BY <2>3 DEF TP!Abstract!vars
    <3> QED BY <2>1, <3>1
  <2>4. ASSUME NEW c \in Client, TP!Abstract!Begin(c) PROVE last'[d] \in {0, calls'[d]}
    <3>1. last' = [last EXCEPT ![c] = 0] /\ calls' = [calls EXCEPT ![c] = @ + 1]
      BY <2>4 DEF TP!Abstract!Begin
    <3> QED BY <2>1, <2>2, <3>1
  <2>5. ASSUME NEW c \in Client, NEW k \in 1..MaxCalls, TP!Abstract!CarryOut(c, k)
        PROVE last'[d] \in {0, calls'[d]}
    <3>1. last' = last /\ calls' = calls
      BY <2>5 DEF TP!Abstract!CarryOut
    <3> QED BY <2>1, <3>1
  <2>6. ASSUME NEW c \in Client, TP!Abstract!Answered(c) PROVE last'[d] \in {0, calls'[d]}
    <3>1. last' = [last EXCEPT ![c] = calls[c]] /\ calls' = calls
      BY <2>6 DEF TP!Abstract!Answered
    <3> QED BY <2>1, <3>1
  <2>7. ASSUME NEW c \in Client, TP!Abstract!NotAnswered(c) PROVE last'[d] \in {0, calls'[d]}
    <3>1. last' = last /\ calls' = calls
      BY <2>7 DEF TP!Abstract!NotAnswered
    <3> QED BY <2>1, <3>1
  <2> QED BY <1>3, <2>1, <2>3, <2>4, <2>5, <2>6, <2>7 DEF TP!Abstract!Next
<1> QED BY <1>2, <1>5 DEF OwnAnswer

\* The transport under the client keeps its invariant, and its calls hear only their
\* own answers (MQSSRabbitMQClient::receive takes the next message, whatever it is).
THEOREM WireInvariant == Spec => [](TP!IInv /\ OwnAnswer)
  BY WireInvInit, WireInvStep, PTL DEF Spec

\* get, post and del of MQSSHPCClient keep the promise of MQSSBaseClient under
\* whatever sequence of calls MQSSClient makes.
THEOREM WireImplemented == Spec => ImplementsTransport
<1>1. TP!Init => TP!Abstract!Init
  BY HpcJobsAssumption, TP!ImplementsInit
<1>2. Init => T!Abstract!Init
  BY WireInit, <1>1 DEF TP!Abstract!Init, T!Abstract!Init
<1>3. TP!IInv /\ [TP!Next]_(TP!vars) => [TP!Abstract!Next]_(TP!Abstract!vars)
  BY HpcJobsAssumption, TP!ImplementsStep
<1>4. [TP!Abstract!Next]_(TP!Abstract!vars) <=> [T!Abstract!Next]_(T!Abstract!vars)
  BY DEF TP!Abstract!Next, T!Abstract!Next, TP!Abstract!vars, T!Abstract!vars,
         TP!Abstract!Begin, T!Abstract!Begin, TP!Abstract!CarryOut, T!Abstract!CarryOut,
         TP!Abstract!Answered, T!Abstract!Answered,
         TP!Abstract!NotAnswered, T!Abstract!NotAnswered
<1>5. TP!IInv /\ OwnAnswer /\ [Next]_vars => [T!Abstract!Next]_(T!Abstract!vars)
  BY WireStep, <1>3, <1>4
<1> QED
  BY <1>2, <1>5, WireInvariant, PTL
     DEF Spec, ImplementsTransport, T!ImplementsTransport, T!Abstract!Spec

----------------------------------------------------------------------------
(* Types *)

\* The two instances of JobClient agree on the types of its variables.
LEMMA SameJobTypes == C!TypeOK <=> CP!TypeOK
  BY DEF C!TypeOK, CP!TypeOK, C!Call, CP!Call, C!Op, CP!Op, C!Ask, CP!Ask,
         C!Answer, CP!Answer, C!Body, CP!Body, C!Status, CP!Status,
         C!Loop, CP!Loop, C!Return, CP!Return

\* The steps of the client code are those of JobClient.
CodeStep(c) ==
  \/ C!Begin(c)
  \/ C!WaitLoop(c)
  \/ C!SubmitReturns(c)
  \/ C!CancelReturns(c)
  \/ C!StatusReturns(c)
  \/ C!PollReturns(c)
  \/ C!ResultReturns(c)

\* They agree on every step of the client code.
LEMMA SameCode == ASSUME NEW c \in Client, CodeStep(c) PROVE CP!Next
<1>1. C!Begin(c) => CP!Begin(c)
  BY DEF C!Begin, CP!Begin, C!SubmitJob, CP!SubmitJob, C!CancelJob, CP!CancelJob,
         C!GetJobStatus, CP!GetJobStatus, C!GetJobResult, CP!GetJobResult,
         C!WaitForJobResult, CP!WaitForJobResult, C!MayRead, CP!MayRead, C!Using, CP!Using,
         C!Start, CP!Start, C!Send, CP!Send, C!Pending, CP!Pending, C!ToInt, CP!ToInt,
         C!serviceVars, CP!serviceVars, C!clientVars, CP!clientVars
<1>2. C!WaitLoop(c) => CP!WaitLoop(c)
  BY DEF C!WaitLoop, CP!WaitLoop, C!Send, CP!Send, C!Finish, CP!Finish,
         C!NoAnswer, CP!NoAnswer, C!NoLoop, CP!NoLoop,
         C!serviceVars, CP!serviceVars, C!clientVars, CP!clientVars
<1>3. C!SubmitReturns(c) => CP!SubmitReturns(c)
  BY DEF C!SubmitReturns, CP!SubmitReturns, C!SubmitValue, CP!SubmitValue,
         C!SetUuid, CP!SetUuid, C!Finish, CP!Finish,
         C!NoAnswer, CP!NoAnswer, C!NoLoop, CP!NoLoop, C!serviceVars, CP!serviceVars
<1>4. C!CancelReturns(c) => CP!CancelReturns(c)
  BY DEF C!CancelReturns, CP!CancelReturns, C!DelValue, CP!DelValue, C!Finish, CP!Finish,
         C!NoAnswer, CP!NoAnswer, C!NoLoop, CP!NoLoop,
         C!serviceVars, CP!serviceVars, C!clientVars, CP!clientVars
<1>5. C!StatusReturns(c) => CP!StatusReturns(c)
  BY DEF C!StatusReturns, CP!StatusReturns, C!StatusValue, CP!StatusValue,
         C!Finish, CP!Finish, C!NoAnswer, CP!NoAnswer, C!NoLoop, CP!NoLoop,
         C!serviceVars, CP!serviceVars, C!clientVars, CP!clientVars
<1>6. C!PollReturns(c) => CP!PollReturns(c)
  BY DEF C!PollReturns, CP!PollReturns, C!StatusValue, CP!StatusValue,
         C!StopsWaiting, CP!StopsWaiting, C!SleepSeconds, CP!SleepSeconds,
         C!PollSeconds, CP!PollSeconds, C!Send, CP!Send,
         C!Finish, CP!Finish, C!NoAnswer, CP!NoAnswer, C!NoLoop, CP!NoLoop,
         C!serviceVars, CP!serviceVars, C!clientVars, CP!clientVars
<1>7. C!ResultReturns(c) => CP!ResultReturns(c)
  BY DEF C!ResultReturns, CP!ResultReturns, C!ResultValue, CP!ResultValue,
         C!Finish, CP!Finish, C!NoAnswer, CP!NoAnswer, C!NoLoop, CP!NoLoop,
         C!serviceVars, CP!serviceVars, C!clientVars, CP!clientVars
<1> QED BY <1>1, <1>2, <1>3, <1>4, <1>5, <1>6, <1>7 DEF CodeStep, CP!Next, CP!Proceed

\* They agree on a job that ends by itself.
LEMMA SameJobEnds == ASSUME NEW u \in Uuid, C!JobEnds(u) PROVE CP!Next
  BY DEF C!JobEnds, CP!JobEnds, CP!Next, CP!Service, C!Terminal, CP!Terminal,
         C!clientVars, CP!clientVars, C!threadVars, CP!threadVars

\* A step of JobClient keeps the types, whatever is known of the late requests.
LEMMA JobTypeStep == C!TypeOK /\ [CP!Next]_(CP!vars) => C!TypeOK'
<1> SUFFICES ASSUME C!TypeOK, [CP!Next]_(CP!vars) PROVE C!TypeOK'
  OBVIOUS
<1>1. CP!TypeOK
  BY SameJobTypes
<1>2. CP!TypeOK'
  BY HpcJobsAssumption, <1>1, CP!TypeStep
<1> QED BY <1>2
   DEF C!TypeOK, CP!TypeOK, C!Call, CP!Call, C!Op, CP!Op, C!Ask, CP!Ask,
         C!Answer, CP!Answer, C!Body, CP!Body, C!Status, CP!Status,
         C!Loop, CP!Loop, C!Return, CP!Return

----------------------------------------------------------------------------
(* What one step of the client code does *)

\* Beginning a call, and the code between two exchanges, change one thread.
CodeChange(c) ==
  /\ pc[c] # "sent"
  /\ pc'[c] \in {"idle", "loop", "sent"}
  /\ UNCHANGED <<status, ledger>>
  /\ \A d \in Client \ {c} :
       /\ pc'[d] = pc[d] /\ call'[d] = call[d] /\ ask'[d] = ask[d]
       /\ answer'[d] = answer[d] /\ ret'[d] = ret[d]
       /\ pc[d] # "idle" => subs'[call[d].job] = subs[call[d].job]
  /\ \A j \in Job : subs[j] <= subs'[j]
  /\ pc[c] # "idle" => /\ call'[c] = call[c] /\ subs' = subs
                       /\ pc'[c] # "idle" => ret'[c] = ret[c]
  /\ pc[c] = "idle" => pc'[c] # "idle" /\ ret'[c] = C!Pending
  /\ (pc'[c] = "sent" /\ ask'[c] = "POST") =>
       subs'[call'[c].job] = subs[call'[c].job] + 1
  /\ (pc'[c] = "idle" /\ ret'[c].val = "done") =>
       pc[c] = "answered" /\ ask[c] = "DELETE" /\ answer[c].body # "fail"

\* Every step of the client code is such a change.
LEMMA CodeChanges ==
  ASSUME C!TypeOK, NEW c \in Client, CodeStep(c)
  PROVE  CodeChange(c)
<1> USE DEF C!clientVars, C!serviceVars
<1>0. /\ pc \in [Client -> {"idle", "loop", "sent", "answered"}]
      /\ \A d \in Client : call[d].job \in Job
      /\ subs \in [Job -> Nat]
      /\ call \in [Client -> C!Call] /\ ret \in [Client -> C!Return]
      /\ ask \in [Client -> C!Ask] /\ answer \in [Client -> C!Answer]
  BY DEF C!TypeOK, C!Call
<1>1. ASSUME NEW j \in Job, C!SubmitJob(c, j) PROVE CodeChange(c)
  <2>1. \A d \in Client : pc[d] # "idle" => call[d].job # j
    BY <1>1 DEF C!SubmitJob, C!Using
  <2>2. /\ pc[c] = "idle" /\ pc' = [pc EXCEPT ![c] = "sent"]
        /\ ask' = [ask EXCEPT ![c] = "POST"] /\ ret' = [ret EXCEPT ![c] = C!Pending]
        /\ call' = [call EXCEPT ![c] = [op |-> "submit", job |-> j, uuid |-> mUuid[j], timeout |-> 0]]
        /\ subs' = [subs EXCEPT ![j] = @ + 1] /\ UNCHANGED <<status, ledger, answer>>
    BY <1>1 DEF C!SubmitJob, C!Start, C!Send
  <2>3. call'[c].job = j /\ pc'[c] = "sent"
    BY <1>0, <2>2
  <2>4. \A i \in Job : subs[i] <= subs'[i] /\ subs'[j] = subs[j] + 1 /\ (i # j => subs'[i] = subs[i])
    BY <1>0, <2>2
  <2> QED BY <1>0, <2>1, <2>2, <2>3, <2>4 DEF CodeChange
<1>2. ASSUME NEW j \in Job, NEW n, NEW o, C!Start(c, o, j, n), pc[c] = "idle",
             \/ \E k \in {"STATUS", "DELETE", "RESULT"} : C!Send(c, k)
             \/ pc' = [pc EXCEPT ![c] = "loop"] /\ ask' = ask,
             UNCHANGED <<status, ledger, answer, subs>>
      PROVE  CodeChange(c)
  <2>1. /\ pc' \in {[pc EXCEPT ![c] = "sent"], [pc EXCEPT ![c] = "loop"]}
        /\ ret' = [ret EXCEPT ![c] = C!Pending]
        /\ pc'[c] = "sent" => ask'[c] # "POST"
        /\ \A d \in Client \ {c} : ask'[d] = ask[d] /\ call'[d] = call[d] /\ ret'[d] = ret[d]
        /\ pc'[c] \in {"loop", "sent"} /\ ret'[c] = C!Pending
    BY <1>0, <1>2 DEF C!Start, C!Send
  <2>2. \A i \in Job : subs[i] <= subs'[i]
    BY <1>0, <1>2
  <2> QED BY <1>0, <1>2, <2>1, <2>2 DEF CodeChange
<1>3. CASE C!Begin(c)
  <2>1. ASSUME NEW j \in Job, C!CancelJob(c, j) PROVE CodeChange(c)
    BY <1>2, <2>1 DEF C!CancelJob, C!MayRead
  <2>2. ASSUME NEW j \in Job, C!GetJobStatus(c, j) PROVE CodeChange(c)
    BY <1>2, <2>2 DEF C!GetJobStatus, C!MayRead
  <2>3. ASSUME NEW j \in Job, C!GetJobResult(c, j) PROVE CodeChange(c)
    BY <1>2, <2>3 DEF C!GetJobResult, C!MayRead
  <2>4. ASSUME NEW j \in Job, NEW n \in Timeout, C!WaitForJobResult(c, j, n) PROVE CodeChange(c)
    BY <1>2, <2>4 DEF C!WaitForJobResult, C!MayRead
  <2> QED BY <1>1, <1>3, <2>1, <2>2, <2>3, <2>4 DEF C!Begin
\* Inside a call nothing of the call itself changes.
<1>4. ASSUME pc[c] \in {"loop", "answered"}, UNCHANGED <<call, subs, status, ledger>>,
             \/ \E k \in {"STATUS", "RESULT"} : C!Send(c, k) /\ UNCHANGED <<answer, ret>>
             \/ pc' = [pc EXCEPT ![c] = "loop"] /\ UNCHANGED <<ask, answer, ret>>
             \/ \E v, u : /\ C!Finish(c, v, u) /\ ask' = ask
                          /\ v = "done" => /\ pc[c] = "answered" /\ ask[c] = "DELETE"
                                           /\ answer[c].body # "fail"
      PROVE  CodeChange(c)
  <2>0. \A i \in Job : subs[i] <= subs'[i]
    BY <1>0, <1>4
  <2>1. ASSUME NEW k \in {"STATUS", "RESULT"}, C!Send(c, k), UNCHANGED <<answer, ret>>
        PROVE  CodeChange(c)
    BY <1>0, <1>4, <2>0, <2>1 DEF C!Send, CodeChange
  <2>2. CASE pc' = [pc EXCEPT ![c] = "loop"] /\ UNCHANGED <<ask, answer, ret>>
    BY <1>0, <1>4, <2>0, <2>2 DEF CodeChange
  <2>3. ASSUME NEW v, NEW u, C!Finish(c, v, u), ask' = ask,
               v = "done" => pc[c] = "answered" /\ ask[c] = "DELETE" /\ answer[c].body # "fail"
        PROVE  CodeChange(c)
    <3>1. /\ pc' = [pc EXCEPT ![c] = "idle"] /\ ret' = [ret EXCEPT ![c] = [val |-> v, got |-> u]]
          /\ answer' = [answer EXCEPT ![c] = C!NoAnswer]
      BY <2>3 DEF C!Finish
    <3>2. pc'[c] = "idle" /\ ret'[c].val = v
      BY <1>0, <3>1
    <3> QED BY <1>0, <1>4, <2>0, <2>3, <3>1, <3>2 DEF CodeChange
  <2> QED BY <1>4, <2>1, <2>2, <2>3
<1>5. CASE C!WaitLoop(c)
  BY <1>4, <1>5 DEF C!WaitLoop
<1>6. CASE C!SubmitReturns(c)
  <2>1. C!SubmitValue(answer[c].body) # "done"
    BY DEF C!SubmitValue
  <2> QED BY <1>4, <1>6, <2>1 DEF C!SubmitReturns
<1>7. CASE C!CancelReturns(c)
  <2>1. C!DelValue(answer[c].body) = "done" => answer[c].body # "fail"
    BY DEF C!DelValue
  <2> QED BY <1>4, <1>7, <2>1 DEF C!CancelReturns
<1>8. CASE C!StatusReturns(c)
  <2>1. C!StatusValue(answer[c]) # "done"
    BY <1>0 DEF C!StatusValue, C!Answer, C!Status
  <2> QED BY <1>4, <1>8, <2>1 DEF C!StatusReturns
<1>9. CASE C!PollReturns(c)
  BY <1>4, <1>9 DEF C!PollReturns
<1>10. CASE C!ResultReturns(c)
  <2>1. C!ResultValue(answer[c].body) # "done"
    BY DEF C!ResultValue
  <2> QED BY <1>4, <1>10, <2>1 DEF C!ResultReturns
<1> QED BY <1>3, <1>5, <1>6, <1>7, <1>8, <1>9, <1>10 DEF CodeStep

----------------------------------------------------------------------------
(* The log of exchanges *)

\* The log of an object has one typed entry for each of its calls.
LEMMA LogTypes ==
  ASSUME TypeOK, NEW c \in Client
  PROVE  /\ log[c] \in Seq(Request) /\ Len(log[c]) = calls[c] /\ calls[c] \in 0..MaxCalls
         /\ calls[c] \in Nat
         /\ \A k \in 1..calls[c] :
              /\ log[c][k] \in Request
              /\ log[c][k].ask \in C!Ask /\ log[c][k].job \in Job
              /\ log[c][k].uuid \in Uuid \cup {NoUuid} /\ log[c][k].sub \in Nat
              /\ log[c][k].reply \in C!Answer
<1>1. /\ log[c] \in Seq(Request) /\ Len(log[c]) = calls[c] /\ calls[c] \in 0..MaxCalls
      /\ calls[c] \in Nat
  BY HpcJobsAssumption DEF TypeOK, T!TypeOK
<1>2. \A k \in 1..calls[c] : log[c][k] \in Request
  BY <1>1
<1> QED BY <1>1, <1>2 DEF Request

\* What an exchange asks, as it is entered.
Asked(c) ==
  [ask |-> ask[c], job |-> call[c].job, uuid |-> call[c].uuid,
   sub |-> subs[call[c].job], reply |-> C!NoAnswer]

\* An exchange is entered: one call more, one entry of the log more.
LEMMA EnterChanges ==
  ASSUME TypeOK, C!TypeOK', NEW c \in Client, Enter(c), pc'[c] = "sent"
  PROVE  /\ T!Call(c, Verb(ask'[c])) /\ wire[c] = "idle"
         /\ wire' = [wire EXCEPT ![c] = "send"]
         /\ method' = [method EXCEPT ![c] = Verb(ask'[c])]
         /\ calls' = [calls EXCEPT ![c] = @ + 1]
         /\ out' = [out EXCEPT ![c] = "pending"]
         /\ heard' = [heard EXCEPT ![c] = T!Nothing(c)]
         /\ calls'[c] = calls[c] + 1 /\ calls'[c] \in 1..MaxCalls
         /\ UNCHANGED <<conn, carried>>
         /\ log' \in [Client -> Seq(Request)]
         /\ \A d \in Client \ {c} : log'[d] = log[d] /\ calls'[d] = calls[d]
         /\ Len(log'[c]) = calls'[c]
         /\ \A k \in 1..calls[c] : log'[c][k] = log[c][k]
         /\ log'[c][calls'[c]] = Asked(c)'
<1>1. /\ T!Call(c, Verb(ask'[c])) /\ log' = [log EXCEPT ![c] = Append(@, Asked(c)')]
  BY DEF Enter, Asked
<1>2. /\ wire[c] = "idle" /\ wire' = [wire EXCEPT ![c] = "send"]
      /\ method' = [method EXCEPT ![c] = Verb(ask'[c])]
      /\ calls[c] < MaxCalls
      /\ calls' = [calls EXCEPT ![c] = @ + 1]
      /\ out' = [out EXCEPT ![c] = "pending"]
      /\ heard' = [heard EXCEPT ![c] = T!Nothing(c)]
      /\ UNCHANGED <<conn, carried>>
  BY <1>1 DEF T!Call
<1>3. Asked(c)' \in Request
  <2>1. /\ ask'[c] \in C!Ask /\ call'[c] \in C!Call /\ subs' \in [Job -> Nat]
    BY DEF C!TypeOK
  <2>2. call'[c].job \in Job /\ call'[c].uuid \in Uuid \cup {NoUuid}
    BY <2>1 DEF C!Call
  <2>3. C!NoAnswer \in C!Answer
    BY DEF C!NoAnswer, C!Answer, C!Body, C!Status
  <2> QED BY <2>1, <2>2, <2>3 DEF Request, Asked
<1>4. log[c] \in Seq(Request) /\ Len(log[c]) = calls[c] /\ calls[c] \in Nat
  BY LogTypes
<1>5. log \in [Client -> Seq(Request)] /\ calls \in [Client -> 0..MaxCalls]
  BY DEF TypeOK, T!TypeOK
<1>6. calls'[c] = calls[c] + 1 /\ calls'[c] \in 1..MaxCalls
  BY <1>2, <1>4, <1>5, HpcJobsAssumption
<1> HIDE DEF Asked
<1>7. log'[c] = Append(log[c], Asked(c)')
  BY <1>1, <1>5
<1>8. /\ Len(log'[c]) = calls'[c]
      /\ \A k \in 1..calls[c] : log'[c][k] = log[c][k]
      /\ log'[c][calls'[c]] = Asked(c)'
      /\ log'[c] \in Seq(Request)
  BY <1>3, <1>4, <1>6, <1>7
<1>9. log' \in [Client -> Seq(Request)]
  BY <1>1, <1>5, <1>7, <1>8
<1>10. \A d \in Client \ {c} : log'[d] = log[d] /\ calls'[d] = calls[d]
  BY <1>1, <1>2, <1>5
<1> QED BY <1>1, <1>2, <1>6, <1>8, <1>9, <1>10

\* The request the listener serves is one of its client's log.
LEMMA ServedRequest ==
  ASSUME TypeOK, TP!IInv, Serve
  PROVE  \E c \in Client, k \in 1..MaxCalls :
           /\ Head(offload) = [from |-> c, num |-> k]
           /\ k \in 1..calls[c]
           /\ carried[c][k] = 0
           /\ carried' = [carried EXCEPT ![c][k] = 1]
           /\ \/ CarryOut([from |-> c, num |-> k], log[c][k])
              \/ Refuse([from |-> c, num |-> k], log[c][k])
           /\ wire[c] # "send" \/ k # calls[c]
<1> DEFINE r == Head(offload)
<1>1. T!Serve /\ (CarryOut(r, log[r.from][r.num]) \/ Refuse(r, log[r.from][r.num]))
  BY DEF Serve
<1>2. offload \in Seq(TP!Message) /\ offload # <<>>
  <2>1. offload \in Seq(TP!Message)
    BY DEF TP!IInv, TP!TypeOK
  <2> QED BY <1>1, <2>1 DEF T!Serve
<1>3. 1 \in 1..Len(offload) /\ r = offload[1] /\ r \in TP!Message
  BY <1>2
<1>4. PICK c \in Client, k \in 1..MaxCalls : r = [from |-> c, num |-> k]
  BY <1>3 DEF TP!Message
<1>5. r.from = c /\ r.num = k
  BY <1>4
<1>6. /\ k <= calls[c] /\ carried[c][k] <= 0
      /\ wire[c] = "send" => k < calls[c]
  BY <1>3, <1>5 DEF TP!IInv, TP!SentInv, TP!WasSent, TP!CarriedInv
<1>7. calls[c] \in Nat /\ carried[c][k] \in Nat
  BY HpcJobsAssumption DEF TP!IInv, TP!TypeOK
<1>8. carried[c][k] = 0 /\ k \in 1..calls[c] /\ (wire[c] = "send" => k # calls[c])
  BY HpcJobsAssumption, <1>6, <1>7
<1>9. carried' = [carried EXCEPT ![c][k] = 1]
  <2>1. carried' = [carried EXCEPT ![c][k] = carried[c][k] + 1]
    BY <1>1, <1>5 DEF T!Serve
  <2>2. carried[c][k] + 1 = 1
    BY <1>8
  <2> QED BY <2>1, <2>2, Zenon
<1> QED BY <1>1, <1>4, <1>5, <1>8, <1>9

\* An answer is entered for one request and leaves the rest of the log.
LEMMA ReplyChanges ==
  ASSUME TypeOK, NEW c \in Client, NEW k \in 1..calls[c], NEW b, NEW u, NEW s,
         Reply([from |-> c, num |-> k], b, u, s)
  PROVE  /\ log'[c][k].reply = [body |-> b, uuid |-> u, status |-> s]
         /\ \A d \in Client : \A l \in 1..calls[d] : (d # c \/ l # k) => log'[d][l] = log[d][l]
         /\ \A d \in Client : \A l \in 1..calls[d] :
              /\ log'[d][l].ask = log[d][l].ask /\ log'[d][l].job = log[d][l].job
              /\ log'[d][l].uuid = log[d][l].uuid /\ log'[d][l].sub = log[d][l].sub
         /\ \A d \in Client : Len(log'[d]) = Len(log[d])
         /\ [body |-> b, uuid |-> u, status |-> s] \in C!Answer =>
              log' \in [Client -> Seq(Request)]
<1> DEFINE a == [body |-> b, uuid |-> u, status |-> s]
           q == [log[c][k] EXCEPT !.reply = a]
<1>1. log' = [log EXCEPT ![c] = [log[c] EXCEPT ![k] = [log[c][k] EXCEPT !.reply = a]]]
  BY DEF Reply
<1>2. log \in [Client -> Seq(Request)] /\ \A d \in Client : Len(log[d]) = calls[d]
  BY DEF TypeOK
<1>3. log[c] \in Seq(Request) /\ log[c][k] \in Request /\ Len(log[c]) = calls[c]
      /\ calls[c] \in Nat
  BY LogTypes
<1> HIDE DEF a
<1>4. /\ q.reply = a /\ q.ask = log[c][k].ask /\ q.job = log[c][k].job
      /\ q.uuid = log[c][k].uuid /\ q.sub = log[c][k].sub
      /\ a \in C!Answer => q \in Request
  BY <1>3 DEF Request
<1> HIDE DEF q
<1>5. log'[c] = [log[c] EXCEPT ![k] = q]
  BY <1>1, <1>2 DEF q
<1>6. \A d \in Client : d # c => log'[d] = log[d]
  BY <1>1, <1>2
<1>7. k \in DOMAIN log[c] /\ DOMAIN log[c] = 1..calls[c]
  BY <1>3
<1>8. log'[c][k] = q /\ \A l \in 1..calls[c] : l # k => log'[c][l] = log[c][l]
  BY <1>5, <1>7
<1>9. Len(log'[c]) = Len(log[c])
  BY <1>3, <1>5
<1>10. a \in C!Answer => log'[c] \in Seq(Request)
  BY <1>3, <1>4, <1>5
<1>11. a \in C!Answer => log' \in [Client -> Seq(Request)]
  BY <1>1, <1>2, <1>10
<1>12. \A d \in Client : \A l \in 1..calls[d] : (d # c \/ l # k) => log'[d][l] = log[d][l]
  BY <1>6, <1>8
<1>13. \A d \in Client : \A l \in 1..calls[d] :
              /\ log'[d][l].ask = log[d][l].ask /\ log'[d][l].job = log[d][l].job
              /\ log'[d][l].uuid = log[d][l].uuid /\ log'[d][l].sub = log[d][l].sub
  BY <1>4, <1>8, <1>12
<1> QED BY <1>4, <1>6, <1>8, <1>9, <1>11, <1>12, <1>13 DEF a, q

\* The service has answered the k-th request of c with [b, u, s].
Served(c, k, b, u, s) ==
  /\ Reply([from |-> c, num |-> k], b, u, s)
  /\ b = "fail" => u = NoUuid /\ s = "NONE"
  /\ (log[c][k].ask = "DELETE" /\ b # "fail") =>
       log[c][k].uuid \in Uuid /\ status'[log[c][k].uuid] \in C!Terminal
  /\ \A v \in Uuid : status[v] \in C!Terminal => status'[v] = status[v]
  /\ status' \in [Uuid -> C!Status]
  /\ ledger' \subseteq [uuid : Uuid, job : Job, sub : Nat]

\* What the service does with a request: it answers it, and a job that has ended
\* stays as it is.
LEMMA ServeChanges ==
  ASSUME TypeOK, NEW c \in Client, NEW k \in 1..calls[c],
         \/ CarryOut([from |-> c, num |-> k], log[c][k])
         \/ Refuse([from |-> c, num |-> k], log[c][k])
  PROVE  \E b \in C!Body, u \in Uuid \cup {NoUuid}, s \in C!Status : Served(c, k, b, u, s)
<1> DEFINE r == [from |-> c, num |-> k]
           q == log[c][k]
<1>0. /\ status \in [Uuid -> C!Status] /\ ledger \subseteq [uuid : Uuid, job : Job, sub : Nat]
      /\ q.job \in Job /\ q.sub \in Nat /\ q.uuid \in Uuid \cup {NoUuid} /\ q.ask \in C!Ask
  BY LogTypes DEF TypeOK, C!TypeOK
<1> HIDE DEF r, q
<1>1. CASE Refuse(r, q)
  <2>1. PICK b \in C!Body : Reply(r, b, NoUuid, "NONE") /\ (q.ask = "DELETE" => b = "fail")
    BY <1>1 DEF Refuse, C!Refusal, C!Body
  <2>2. UNCHANGED <<status, ledger>> /\ "NONE" \in C!Status
    BY <1>1 DEF Refuse, C!Status
  <2> QED BY <1>0, <2>1, <2>2 DEF Served, r, q
<1>2. ASSUME q.ask = "POST", NEW u \in Uuid, C!Create(u, q.job, q.sub), Reply(r, "field", u, "RUNNING")
      PROVE  Served(c, k, "field", u, "RUNNING")
  <2>1. status[u] = "NONE" /\ status' = [status EXCEPT ![u] = "RUNNING"]
        /\ ledger' = ledger \cup {[uuid |-> u, job |-> q.job, sub |-> q.sub]}
    BY <1>2 DEF C!Create
  <2>2. "field" \in C!Body /\ "RUNNING" \in C!Status
    BY DEF C!Body, C!Status
  <2>3. status' \in [Uuid -> C!Status] /\ ledger' \subseteq [uuid : Uuid, job : Job, sub : Nat]
    BY <1>0, <2>1, <2>2
  <2>4. \A v \in Uuid : status[v] \in C!Terminal => status'[v] = status[v]
    BY <1>0, <2>1 DEF C!Terminal
  <2> QED BY <1>2, <2>2, <2>3, <2>4 DEF Served, r, q
<1>3. ASSUME q.ask = "DELETE", Known(q.uuid), status' = C!Cancelled(q.uuid),
             Reply(r, "text", NoUuid, "NONE"), ledger' = ledger
      PROVE  Served(c, k, "text", NoUuid, "NONE")
  <2>1. "text" \in C!Body /\ "NONE" \in C!Status
    BY DEF C!Body, C!Status
  <2>2. q.uuid \in Uuid /\ status[q.uuid] # "NONE"
    BY <1>3 DEF Known
  <2>3. status' \in [Uuid -> C!Status] /\ status'[q.uuid] \in C!Terminal
    BY <1>0, <1>3, <2>2 DEF C!Cancelled, C!Terminal, C!Status
  <2>4. \A v \in Uuid : status[v] \in C!Terminal => status'[v] = status[v]
    BY <1>0, <1>3, <2>2 DEF C!Cancelled, C!Terminal
  <2> QED BY <1>0, <1>3, <2>1, <2>2, <2>3, <2>4 DEF Served, r, q
<1>4. ASSUME q.ask = "STATUS", Known(q.uuid), Reply(r, "field", q.uuid, status[q.uuid]),
             UNCHANGED <<status, ledger>>
      PROVE  Served(c, k, "field", q.uuid, status[q.uuid]) /\ status[q.uuid] \in C!Status
  <2>1. "field" \in C!Body /\ q.uuid \in Uuid /\ status[q.uuid] \in C!Status
    BY <1>0, <1>4 DEF C!Body, Known
  <2> QED BY <1>0, <1>4, <2>1 DEF Served, r, q
<1>5. ASSUME q.ask = "RESULT", q.uuid \in Uuid, NEW b \in {"field", "badresult"},
             Reply(r, b, q.uuid, "COMPLETED"), UNCHANGED <<status, ledger>>
      PROVE  Served(c, k, b, q.uuid, "COMPLETED")
  <2>1. b \in C!Body /\ b # "fail" /\ "COMPLETED" \in C!Status
    BY DEF C!Body, C!Status
  <2> QED BY <1>0, <1>5, <2>1 DEF Served, r, q
<1>6. {"field", "text", "badresult"} \subseteq C!Body
      /\ {"RUNNING", "NONE", "COMPLETED"} \subseteq C!Status
  BY DEF C!Body, C!Status
<1>7. CASE CarryOut(r, q)
  BY <1>0, <1>2, <1>3, <1>4, <1>5, <1>6, <1>7 DEF CarryOut
<1> QED BY <1>1, <1>7 DEF r, q

\* A step of the client code begins with the code and may enter an exchange.
LEMMA ClientSteps ==
  ASSUME TypeOK, NEW c \in Client, BeginJobCall(c) \/ Compute(c)
  PROVE  CodeStep(c) /\ CodeChange(c) /\ Enter(c) /\ C!TypeOK'
<1>1. CodeStep(c) /\ Enter(c)
  BY DEF BeginJobCall, Compute, CodeStep
<1>2. C!TypeOK
  BY DEF TypeOK
<1>3. CodeChange(c)
  BY <1>1, <1>2, CodeChanges
<1>4. C!TypeOK'
  <2>1. CP!Next
    BY <1>1, SameCode
  <2> QED BY <1>2, <2>1, JobTypeStep
<1> QED BY <1>1, <1>3, <1>4

\* A call of the transport returns.
LEMMA TransportReturn ==
  ASSUME TypeOK, TP!IInv', NEW c \in Client, Transport(c), wire'[c] = "idle"
  PROVE  Returned(c) \in C!Answer
<1>1. /\ calls' = calls /\ log' = log
  BY DEF Transport, T!Proceed, T!SendAccepted, T!SendError, T!ReceiveMessage, T!ReceiveError
<1>2. heard'[c].num # 0 => heard'[c].num \in 1..calls[c]
  <2>1. heard'[c].num \in 0..MaxCalls /\ calls[c] \in Nat
    BY LogTypes DEF TP!IInv, TP!TypeOK
  <2>2. heard'[c].num # 0 => heard'[c].num <= calls'[c]
    BY DEF TP!IInv, TP!ReplyLag
  <2> QED BY HpcJobsAssumption, <1>1, <2>1, <2>2
<1>3. C!NoAnswer \in C!Answer /\ C!FailedAnswer \in C!Answer
  BY DEF C!NoAnswer, C!FailedAnswer, C!Answer, C!Body, C!Status
<1> QED BY <1>2, <1>3, LogTypes DEF Returned

\* The initial state has the types.
LEMMA TypesInit == Init => TypeOK
<1> SUFFICES ASSUME Init PROVE TypeOK
  OBVIOUS
<1>1. CP!TypeOK
  <2>1. CP!Init
    BY DEF Init, C!Init, CP!Init, C!NoAnswer, CP!NoAnswer, C!NoLoop, CP!NoLoop,
           C!Pending, CP!Pending
  <2> QED BY HpcJobsAssumption, <2>1, CP!InitTypes
<1>2. TP!TypeOK
  BY WireInvInit DEF TP!IInv
<1>3. log \in [Client -> Seq(Request)] /\ \A c \in Client : Len(log[c]) = calls[c]
  BY DEF Init, T!Init
<1> QED BY <1>1, <1>2, <1>3, SameJobTypes, SameWireTypes DEF TypeOK

\* Every step keeps them; what a call hears lies inside the log.
LEMMA TypesStep == TypeOK /\ TP!IInv /\ TP!IInv' /\ [Next]_vars => TypeOK'
<1> SUFFICES ASSUME TypeOK, TP!IInv, TP!IInv', [Next]_vars PROVE TypeOK'
  OBVIOUS
<1>1. T!TypeOK'
  BY DEF TP!IInv, T!TypeOK, TP!TypeOK, T!Method, TP!Method, T!Message, TP!Message,
         T!Connection, TP!Connection, T!Usable, TP!Usable
<1>2. C!TypeOK /\ log \in [Client -> Seq(Request)] /\ \A c \in Client : Len(log[c]) = calls[c]
  BY DEF TypeOK
<1>3. ASSUME C!TypeOK', UNCHANGED <<log, calls>> PROVE TypeOK'
  BY <1>1, <1>2, <1>3 DEF TypeOK
<1>4. ASSUME NEW c \in Client, BeginJobCall(c) \/ Compute(c) PROVE TypeOK'
  <2>1. C!TypeOK' /\ Enter(c)
    BY <1>4, ClientSteps
  <2>2. CASE pc'[c] # "sent"
    BY <1>3, <2>1, <2>2 DEF Enter, wireVars
  <2>3. CASE pc'[c] = "sent"
    <3>1. /\ log' \in [Client -> Seq(Request)] /\ Len(log'[c]) = calls'[c]
          /\ \A d \in Client \ {c} : log'[d] = log[d] /\ calls'[d] = calls[d]
      BY <2>1, <2>3, EnterChanges
    <3>2. \A d \in Client : Len(log'[d]) = calls'[d]
      BY <1>2, <3>1
    <3> QED BY <1>1, <2>1, <3>1, <3>2 DEF TypeOK
  <2> QED BY <2>2, <2>3
<1>5. ASSUME NEW c \in Client, Transport(c) PROVE TypeOK'
  <2>1. UNCHANGED <<log, calls, mUuid, subs, acked, call, ask, loop, ret, status, ledger>>
    BY <1>5 DEF Transport, T!Proceed, T!SendAccepted, T!SendError, T!ReceiveMessage, T!ReceiveError
  <2>2. /\ pc' \in [Client -> {"idle", "loop", "sent", "answered"}]
        /\ answer' \in [Client -> C!Answer]
    <3>1. pc \in [Client -> {"idle", "loop", "sent", "answered"}] /\ answer \in [Client -> C!Answer]
      BY <1>2 DEF C!TypeOK
    <3> QED BY <1>5, <3>1, TransportReturn DEF Transport
  <2>3. C!TypeOK'
    BY <1>2, <2>1, <2>2 DEF C!TypeOK
  <2> QED BY <1>3, <2>1, <2>3
<1>6. CASE Serve
  <2>1. PICK c \in Client, k \in 1..MaxCalls :
           /\ k \in 1..calls[c]
           /\ \/ CarryOut([from |-> c, num |-> k], log[c][k])
              \/ Refuse([from |-> c, num |-> k], log[c][k])
    BY <1>6, ServedRequest
  <2>2. PICK b \in C!Body, u \in Uuid \cup {NoUuid}, s \in C!Status : Served(c, k, b, u, s)
    BY <2>1, ServeChanges
  <2>3. [body |-> b, uuid |-> u, status |-> s] \in C!Answer
    BY DEF C!Answer
  <2>4. log' \in [Client -> Seq(Request)] /\ \A d \in Client : Len(log'[d]) = Len(log[d])
    BY <2>1, <2>2, <2>3, ReplyChanges DEF Served
  <2>5. UNCHANGED <<calls, mUuid, subs, acked, pc, call, ask, answer, loop, ret>>
    BY <1>6 DEF Serve, T!Serve, T!clientVars
  <2>6. C!TypeOK'
    BY <1>2, <2>2, <2>5 DEF C!TypeOK, Served
  <2> QED BY <1>1, <1>2, <2>4, <2>5, <2>6 DEF TypeOK
<1>7. ASSUME NEW u \in Uuid, JobEnds(u) PROVE TypeOK'
  <2>1. C!TypeOK'
    BY <1>2, <1>7, SameJobEnds, JobTypeStep DEF JobEnds
  <2> QED BY <1>3, <1>7, <2>1 DEF JobEnds, wireVars
<1>8. CASE Connection \/ UNCHANGED vars
  <2>1. UNCHANGED <<jobVars, log, calls>>
    BY <1>8 DEF Connection, T!Construct, T!Destroy, T!Disconnect, T!BrokerRestart, vars, wireVars
  <2>2. C!TypeOK'
    BY <1>2, <2>1 DEF C!TypeOK, jobVars
  <2> QED BY <1>3, <2>1, <2>2
<1> QED BY <1>4, <1>5, <1>6, <1>7, <1>8 DEF Next, Proceed

\* The state of MQSSClient over AMQP always has its types, and the log grows with the
\* calls of the transport.
THEOREM Typed == Spec => []TypeOK
<1>1. TypeOK /\ TP!IInv /\ OwnAnswer /\ TP!IInv' /\ [Next]_vars => TypeOK'
  BY TypesStep
<1> QED BY <1>1, TypesInit, WireInvariant, PTL DEF Spec

----------------------------------------------------------------------------
(* The inductive invariant *)

\* The request of the exchange in progress, or of the last one.
Current(c) == log[c][calls[c]]

\* What the transport gave the client.
AnswerOf(c) ==
  IF out[c] = "throw" THEN C!FailedAnswer
  ELSE IF method[c] = "DELETE" \/ heard[c].num = 0 THEN C!NoAnswer
  ELSE log[c][heard[c].num].reply

\* The log knows what the exchange is about.
Matches(c) ==
  /\ calls[c] > 0
  /\ method[c] = Verb(ask[c])
  /\ Current(c).ask = ask[c]
  /\ Current(c).job = call[c].job
  /\ Current(c).uuid = call[c].uuid
  /\ Current(c).sub = subs[call[c].job]

\* The client is in an exchange exactly while its object is in a call, and has of
\* it what the transport gave; a cancellation that is back was the last call.
ExchangeInv ==
  \A c \in Client :
    /\ pc[c] = "sent" <=> wire[c] # "idle"
    /\ pc[c] # "idle" => ret[c] = C!Pending
    /\ pc[c] \in {"sent", "answered"} => Matches(c)
    /\ pc[c] = "answered" => answer[c] = AnswerOf(c)
    /\ ret[c].val = "done" =>
         /\ calls[c] > 0 /\ out[c] = "done"
         /\ Current(c).ask = "DELETE" /\ Current(c).uuid = call[c].uuid

\* del comes back without an answer only by throwing or on a lost connection.
OutInv ==
  \A c \in Client :
    /\ out[c] = "throw" => heard[c].num = 0
    /\ (wire[c] = "idle" /\ calls[c] > 0 /\ method[c] = "DELETE") => out[c] \in {"done", "throw"}
    /\ (out[c] = "done" /\ conn[c] = "open") => heard[c].num # 0
    /\ calls[c] = 0 => out[c] = "pending"

\* A request is answered when it is carried out; a cancellation that was agreed to
\* has ended the job.
ReplyInv ==
  \A c \in Client : \A k \in 1..calls[c] :
    /\ carried[c][k] = 0 => log[c][k].reply = C!NoAnswer
    /\ log[c][k].reply.body = "fail" => log[c][k].reply = C!FailedAnswer
    /\ (log[c][k].ask = "DELETE" /\ carried[c][k] # 0 /\ log[c][k].reply.body # "fail") =>
         log[c][k].uuid \in Uuid /\ status[log[c][k].uuid] \in C!Terminal

\* Every submission has a number of its own.
Posted(c, k) == k \in 1..calls[c] /\ log[c][k].ask = "POST"
SameSubmission(c, k, d, l) ==
  log[c][k].job = log[d][l].job /\ log[c][k].sub = log[d][l].sub
SubInv ==
  /\ \A c \in Client : \A k \in 1..MaxCalls :
       Posted(c, k) => log[c][k].sub <= subs[log[c][k].job]
  /\ \A c, d \in Client : \A k, l \in 1..MaxCalls :
       (Posted(c, k) /\ Posted(d, l) /\ SameSubmission(c, k, d, l)) => c = d /\ k = l

JInv == TypeOK /\ TP!IInv /\ OwnAnswer /\ ExchangeInv /\ OutInv /\ ReplyInv /\ SubInv

\* At first no exchange has begun.
LEMMA JInvInit == Init => ExchangeInv /\ OutInv /\ ReplyInv /\ SubInv
<1> SUFFICES ASSUME Init PROVE ExchangeInv /\ OutInv /\ ReplyInv /\ SubInv
  OBVIOUS
<1>1. \A c \in Client : /\ pc[c] = "idle" /\ wire[c] = "idle" /\ calls[c] = 0
                        /\ ret[c] = C!Pending /\ out[c] = "pending"
  BY DEF Init, C!Init, T!Init
<1>2. C!Pending.val # "done"
  BY DEF C!Pending
<1> QED BY <1>1, <1>2 DEF ExchangeInv, OutInv, ReplyInv, SubInv, Posted

\* A step of the client code.
LEMMA ClientKeeps ==
  ASSUME JInv, NEW c \in Client, BeginJobCall(c) \/ Compute(c)
  PROVE  ExchangeInv' /\ OutInv' /\ ReplyInv' /\ SubInv'
<1>0. TypeOK /\ TP!IInv /\ ExchangeInv /\ OutInv /\ ReplyInv /\ SubInv
  BY DEF JInv
<1>1. CodeChange(c) /\ Enter(c) /\ C!TypeOK'
  BY <1>0, ClientSteps
<1>2. /\ pc[c] # "sent" /\ wire[c] = "idle" /\ pc'[c] \in {"idle", "loop", "sent"}
      /\ UNCHANGED <<status, ledger>>
      /\ pc'[c] # "idle" => ret'[c] = C!Pending
  BY <1>0, <1>1 DEF CodeChange, ExchangeInv
<1>3. ASSUME NEW d \in Client, d # c
      PROVE  /\ pc'[d] = pc[d] /\ call'[d] = call[d] /\ ask'[d] = ask[d]
             /\ answer'[d] = answer[d] /\ ret'[d] = ret[d]
             /\ pc[d] # "idle" => subs'[call[d].job] = subs[call[d].job]
  BY <1>1, <1>3 DEF CodeChange
<1>4. C!Pending.val # "done"
  BY DEF C!Pending
<1>5. \A d \in Client : calls[d] \in Nat /\ call[d].job \in Job
  BY <1>0, LogTypes DEF TypeOK, C!TypeOK, C!Call
<1>6. subs \in [Job -> Nat] /\ subs' \in [Job -> Nat] /\ \A j \in Job : subs[j] <= subs'[j]
  BY <1>0, <1>1 DEF TypeOK, C!TypeOK, CodeChange
<1>7. CASE pc'[c] # "sent"
  <2>1. UNCHANGED <<wireVars, log>>
    BY <1>1, <1>7 DEF Enter
  <2>2. UNCHANGED <<conn, wire, method, calls, out, heard, carried, log>>
    BY <2>1 DEF wireVars
  <2>3. OutInv' /\ ReplyInv'
    BY <1>0, <1>2, <2>2 DEF OutInv, ReplyInv
  <2>4. SubInv'
    <3>1. \A d \in Client : \A k \in 1..calls[d] : log[d][k].job \in Job /\ log[d][k].sub \in Nat
      BY <1>0, LogTypes
    <3>2. ASSUME NEW d \in Client, NEW k \in 1..MaxCalls, Posted(d, k)
          PROVE  log[d][k].sub <= subs'[log[d][k].job]
      <4>1. log[d][k].job \in Job /\ log[d][k].sub \in Nat /\ log[d][k].sub <= subs[log[d][k].job]
        BY <1>0, <3>1, <3>2 DEF SubInv, Posted
      <4> QED BY <1>6, <4>1
    <3> QED BY <1>0, <2>2, <3>2 DEF SubInv, Posted, SameSubmission
  <2>5. ExchangeInv'
    <3> SUFFICES ASSUME NEW d \in Client
                 PROVE  /\ pc'[d] = "sent" <=> wire'[d] # "idle"
                        /\ pc'[d] # "idle" => ret'[d] = C!Pending
                        /\ pc'[d] \in {"sent", "answered"} => Matches(d)'
                        /\ pc'[d] = "answered" => answer'[d] = AnswerOf(d)'
                        /\ ret'[d].val = "done" =>
                             /\ calls'[d] > 0 /\ out'[d] = "done"
                             /\ Current(d)'.ask = "DELETE" /\ Current(d)'.uuid = call'[d].uuid
      BY DEF ExchangeInv
    <3>1. CASE d # c
      <4>1. AnswerOf(d)' = AnswerOf(d) /\ Current(d)' = Current(d)
        BY <2>2 DEF AnswerOf, Current
      <4>2. pc[d] \in {"sent", "answered"} => Matches(d)'
        BY <1>0, <1>3, <2>2, <3>1, <4>1 DEF Matches, ExchangeInv
      <4> QED BY <1>0, <1>3, <2>2, <3>1, <4>1, <4>2 DEF ExchangeInv
    <3>2. CASE d = c
      <4>1. pc'[c] \in {"idle", "loop"} /\ wire'[c] = "idle"
        BY <1>2, <1>7, <2>2
      <4>2. ASSUME ret'[c].val = "done"
            PROVE  /\ calls'[c] > 0 /\ out'[c] = "done"
                   /\ Current(c)'.ask = "DELETE" /\ Current(c)'.uuid = call'[c].uuid
        <5>1. pc'[c] = "idle"
          BY <1>2, <1>4, <4>2
        <5>2. pc[c] = "answered" /\ ask[c] = "DELETE" /\ answer[c].body # "fail" /\ call'[c] = call[c]
          BY <1>1, <4>2, <5>1 DEF CodeChange
        <5>3. Matches(c) /\ answer[c] = AnswerOf(c)
          BY <1>0, <5>2 DEF ExchangeInv
        <5>4. method[c] = "DELETE" /\ out[c] # "throw"
          BY <5>2, <5>3 DEF Matches, Verb, AnswerOf, C!FailedAnswer, C!NoAnswer
        <5>5. out[c] = "done"
          BY <1>0, <1>2, <5>3, <5>4 DEF OutInv, Matches
        <5> QED BY <2>2, <5>2, <5>3, <5>5 DEF Matches, Current
      <4> QED BY <1>2, <3>2, <4>1, <4>2
    <3> QED BY <3>1, <3>2
  <2> QED BY <2>3, <2>4, <2>5
<1>8. CASE pc'[c] = "sent"
  <2>1. /\ wire' = [wire EXCEPT ![c] = "send"]
        /\ method' = [method EXCEPT ![c] = Verb(ask'[c])]
        /\ calls' = [calls EXCEPT ![c] = @ + 1]
        /\ out' = [out EXCEPT ![c] = "pending"]
        /\ heard' = [heard EXCEPT ![c] = T!Nothing(c)]
        /\ calls'[c] = calls[c] + 1 /\ calls'[c] \in 1..MaxCalls
        /\ UNCHANGED <<conn, carried>>
        /\ \A d \in Client \ {c} : log'[d] = log[d] /\ calls'[d] = calls[d]
        /\ \A k \in 1..calls[c] : log'[c][k] = log[c][k]
        /\ log'[c][calls'[c]] = Asked(c)'
    BY <1>0, <1>1, <1>8, EnterChanges
  <2>2. /\ wire \in [Client -> {"idle", "send", "receive"}] /\ method \in [Client -> T!Method]
        /\ DOMAIN out = Client /\ DOMAIN heard = Client
    BY <1>0 DEF TypeOK, T!TypeOK
  <2>3. ASSUME NEW d \in Client, d # c
        PROVE  /\ wire'[d] = wire[d] /\ method'[d] = method[d] /\ out'[d] = out[d]
               /\ heard'[d] = heard[d] /\ conn'[d] = conn[d] /\ calls'[d] = calls[d]
               /\ log'[d] = log[d]
    BY <2>1, <2>2, <2>3
  <2>4. /\ wire'[c] = "send" /\ method'[c] = Verb(ask'[c]) /\ out'[c] = "pending"
        /\ heard'[c].num = 0
    BY <2>1, <2>2 DEF T!Nothing
  <2>5. OutInv'
    <3> SUFFICES ASSUME NEW d \in Client
                 PROVE  /\ out'[d] = "throw" => heard'[d].num = 0
                        /\ (wire'[d] = "idle" /\ calls'[d] > 0 /\ method'[d] = "DELETE")
                             => out'[d] \in {"done", "throw"}
                        /\ (out'[d] = "done" /\ conn'[d] = "open") => heard'[d].num # 0
                        /\ calls'[d] = 0 => out'[d] = "pending"
      BY DEF OutInv
    <3> QED BY <1>0, <2>3, <2>4 DEF OutInv
  <2>6. ExchangeInv'
    <3> SUFFICES ASSUME NEW d \in Client
                 PROVE  /\ pc'[d] = "sent" <=> wire'[d] # "idle"
                        /\ pc'[d] # "idle" => ret'[d] = C!Pending
                        /\ pc'[d] \in {"sent", "answered"} => Matches(d)'
                        /\ pc'[d] = "answered" => answer'[d] = AnswerOf(d)'
                        /\ ret'[d].val = "done" =>
                             /\ calls'[d] > 0 /\ out'[d] = "done"
                             /\ Current(d)'.ask = "DELETE" /\ Current(d)'.uuid = call'[d].uuid
      BY DEF ExchangeInv
    <3>1. CASE d # c
      <4>1. AnswerOf(d)' = AnswerOf(d) /\ Current(d)' = Current(d)
        BY <2>3, <3>1 DEF AnswerOf, Current
      <4>2. pc[d] \in {"sent", "answered"} => Matches(d)'
        BY <1>0, <1>3, <2>3, <3>1, <4>1 DEF Matches, ExchangeInv
      <4> QED BY <1>0, <1>3, <2>3, <3>1, <4>1, <4>2 DEF ExchangeInv
    <3>2. CASE d = c
      <4>1. Matches(c)'
        <5>1. Current(c)' = Asked(c)'
          BY <2>1 DEF Current
        <5>2. calls'[c] > 0
          BY <1>5, <2>1
        <5> QED BY <2>4, <5>1, <5>2 DEF Matches, Asked
      <4>2. ret'[c] = C!Pending
        BY <1>2, <1>8
      <4> QED BY <1>4, <1>8, <2>4, <3>2, <4>1, <4>2
    <3> QED BY <3>1, <3>2
  <2>7. Asked(c)'.reply = C!NoAnswer /\ C!NoAnswer.body = "text"
        /\ Asked(c)'.ask = ask'[c] /\ Asked(c)'.job = call'[c].job
        /\ Asked(c)'.sub = subs'[call'[c].job]
    BY DEF Asked, C!NoAnswer
  <2>8. carried[c][calls[c] + 1] = 0
    BY <1>0, <1>5, <2>1 DEF TP!IInv, TP!CarriedInv
  <2>9. ReplyInv'
    <3> SUFFICES ASSUME NEW d \in Client, NEW k \in 1..calls'[d]
                 PROVE  /\ carried[d][k] = 0 => log'[d][k].reply = C!NoAnswer
                        /\ log'[d][k].reply.body = "fail" => log'[d][k].reply = C!FailedAnswer
                        /\ (log'[d][k].ask = "DELETE" /\ carried[d][k] # 0
                              /\ log'[d][k].reply.body # "fail") =>
                             log'[d][k].uuid \in Uuid /\ status[log'[d][k].uuid] \in C!Terminal
      BY <1>2, <2>1 DEF ReplyInv
    <3>1. CASE d = c /\ k = calls[c] + 1
      BY <2>1, <2>7, <2>8, <3>1
    <3>2. CASE d # c \/ k # calls[c] + 1
      <4>1. k \in 1..calls[d] /\ log'[d][k] = log[d][k]
        BY <1>5, <2>1, <2>3, <3>2
      <4> QED BY <1>0, <4>1 DEF ReplyInv
    <3> QED BY <3>1, <3>2
  <2>10. SubInv'
    <3>1. ASSUME NEW d \in Client, NEW k \in 1..MaxCalls, Posted(d, k)', d # c \/ k # calls[c] + 1
          PROVE  Posted(d, k) /\ log'[d][k] = log[d][k] /\ k \in 1..calls[d]
      <4>1. k \in 1..calls[d] /\ log'[d][k] = log[d][k]
        BY <1>5, <2>1, <2>3, <3>1 DEF Posted
      <4> QED BY <3>1, <4>1 DEF Posted
    <3>2. ASSUME NEW d \in Client, NEW k \in 1..MaxCalls, Posted(d, k)
          PROVE  log[d][k].sub <= subs[log[d][k].job] /\ log[d][k].job \in Job
                 /\ log[d][k].sub \in Nat
      BY <1>0, <3>2, LogTypes DEF SubInv, Posted
    <3>3. ask'[c] = "POST" => subs'[call'[c].job] = subs[call'[c].job] + 1
      BY <1>1, <1>8 DEF CodeChange
    <3>4. call'[c].job \in Job
      BY <1>1 DEF C!TypeOK, C!Call
    <3>0. PICK n \in 1..MaxCalls : n = calls[c] + 1
      BY <2>1
    <3>5. log'[c][n].ask = ask'[c] /\ log'[c][n].job = call'[c].job
          /\ log'[c][n].sub = subs'[call'[c].job]
      BY <2>1, <2>7, <3>0
    <3>6. ASSUME NEW d \in Client, NEW k \in 1..MaxCalls, Posted(d, k)'
          PROVE  log'[d][k].sub <= subs'[log'[d][k].job]
      <4>1. CASE d = c /\ k = n
        BY <1>6, <3>4, <3>5, <4>1
      <4>2. CASE ~(d = c /\ k = n)
        <5>1. /\ log'[d][k] = log[d][k] /\ log[d][k].sub <= subs[log[d][k].job]
              /\ log[d][k].job \in Job /\ log[d][k].sub \in Nat
          BY <3>0, <3>1, <3>2, <3>6, <4>2
        <5> QED BY <1>6, <5>1
      <4> QED BY <4>1, <4>2
    <3>7. ASSUME NEW d \in Client, NEW k \in 1..MaxCalls, Posted(d, k)', Posted(c, n)',
                 ~(d = c /\ k = n)
          PROVE  ~SameSubmission(d, k, c, n)' /\ ~SameSubmission(c, n, d, k)'
      <4>1. /\ log'[d][k] = log[d][k] /\ log[d][k].sub <= subs[log[d][k].job]
            /\ log[d][k].job \in Job /\ log[d][k].sub \in Nat
        BY <3>0, <3>1, <3>2, <3>7
      <4>2. ask'[c] = "POST"
        BY <3>5, <3>7 DEF Posted
      <4>3. log[d][k].job = call'[c].job => log[d][k].sub # subs'[call'[c].job]
        BY <1>6, <3>3, <3>4, <4>1, <4>2
      <4> QED BY <3>5, <4>1, <4>3 DEF SameSubmission
    <3>8. ASSUME NEW d \in Client, NEW k \in 1..MaxCalls, Posted(d, k)',
                 NEW e \in Client, NEW l \in 1..MaxCalls, Posted(e, l)', SameSubmission(d, k, e, l)'
          PROVE  d = e /\ k = l
      <4>1. CASE (d = c /\ k = n) \/ (e = c /\ l = n)
        BY <3>7, <3>8, <4>1
      <4>2. CASE ~(d = c /\ k = n) /\ ~(e = c /\ l = n)
        <5>1. Posted(d, k) /\ Posted(e, l) /\ log'[d][k] = log[d][k] /\ log'[e][l] = log[e][l]
          BY <3>0, <3>1, <3>8, <4>2
        <5> QED BY <1>0, <3>8, <5>1 DEF SubInv, SameSubmission
      <4> QED BY <4>1, <4>2
    <3> QED BY <3>6, <3>8 DEF SubInv
  <2> QED BY <2>5, <2>6, <2>9, <2>10
<1> QED BY <1>7, <1>8

\* A step of a call of the transport, which may be its last.
LEMMA TransportChanges ==
  ASSUME JInv, NEW c \in Client, Transport(c)
  PROVE  /\ wire[c] # "idle" /\ pc[c] = "sent" /\ Matches(c)
         /\ UNCHANGED <<mUuid, subs, acked, call, ask, loop, ret, status, ledger, log,
                        conn, calls, method, carried>>
         /\ \A d \in Client \ {c} : wire'[d] = wire[d] /\ out'[d] = out[d] /\ heard'[d] = heard[d]
         /\ \/ /\ wire'[c] # "idle" /\ out'[c] = out[c] /\ heard'[c] = heard[c]
               /\ UNCHANGED <<pc, answer>>
            \/ /\ wire'[c] = "idle"
               /\ pc' = [pc EXCEPT ![c] = "answered"]
               /\ answer' = [answer EXCEPT ![c] = AnswerOf(c)']
               /\ out'[c] # "pending"
               /\ method[c] = "DELETE" => out'[c] \in {"done", "throw"}
               /\ out'[c] = "throw" => heard'[c].num = 0
               /\ (out'[c] = "done" /\ conn[c] = "open") => heard'[c].num # 0
<1>0. TypeOK /\ TP!IInv /\ ExchangeInv
  BY DEF JInv
<1>1. /\ wire \in [Client -> {"idle", "send", "receive"}] /\ out \in [Client -> {"pending", "body", "error", "done", "throw"}]
      /\ DOMAIN heard = Client
  BY <1>0 DEF TypeOK, T!TypeOK
<1>2. /\ wire[c] # "idle"
      /\ UNCHANGED <<mUuid, subs, acked, call, ask, loop, ret, status, ledger, log,
                     conn, calls, method, carried>>
  BY DEF Transport, T!Proceed, T!SendAccepted, T!SendError, T!ReceiveMessage, T!ReceiveError
<1>3. pc[c] = "sent" /\ Matches(c)
  BY <1>0, <1>2 DEF ExchangeInv
<1>4. \A d \in Client \ {c} : wire'[d] = wire[d] /\ out'[d] = out[d] /\ heard'[d] = heard[d]
  BY <1>1 DEF Transport, T!Proceed, T!SendAccepted, T!SendError, T!ReceiveMessage, T!ReceiveError,
              T!Return
<1>5. CASE wire'[c] # "idle"
  <2>1. out' = out /\ heard' = heard
    BY <1>1, <1>5 DEF Transport, T!Proceed, T!SendAccepted, T!SendError, T!ReceiveMessage,
              T!ReceiveError, T!Return
  <2> QED BY <1>2, <1>3, <1>4, <1>5, <2>1 DEF Transport
<1>6. CASE wire'[c] = "idle"
  <2>1. pc' = [pc EXCEPT ![c] = "answered"] /\ answer' = [answer EXCEPT ![c] = Returned(c)]
    BY <1>6 DEF Transport
  <2>2. Returned(c) = AnswerOf(c)'
    BY <1>2 DEF Returned, AnswerOf
  <2>3. /\ out'[c] # "pending"
        /\ method[c] = "DELETE" => out'[c] \in {"done", "throw"}
        /\ out'[c] = "throw" => heard'[c].num = 0
        /\ (out'[c] = "done" /\ conn[c] = "open") => heard'[c].num # 0
    <3>1. CASE T!SendAccepted(c)
      BY <1>1, <1>6, <3>1 DEF T!SendAccepted
    <3>2. CASE T!SendError(c)
      BY <1>1, <1>6, <3>2 DEF T!SendError, T!Return, T!Nothing
    <3>3. CASE T!ReceiveError(c)
      BY <1>1, <3>3 DEF T!ReceiveError, T!Return, T!ReceiveValue, T!Nothing
    <3>4. CASE T!ReceiveMessage(c)
      <4>1. /\ response[c] # <<>> /\ out'[c] \in {"done", "body"} /\ (method[c] = "DELETE" => out'[c] = "done")
            /\ heard'[c] = Head(response[c])
        BY <1>1, <3>4 DEF T!ReceiveMessage, T!Return, T!ReceiveValue, T!ResponseQueue
      <4>2. response[c] \in Seq(T!Message)
        BY <1>0 DEF TypeOK, T!TypeOK
      <4>3. heard'[c] \in T!Message
        BY <4>1, <4>2
      <4>4. heard'[c].num # 0
        BY <4>3, HpcJobsAssumption DEF T!Message
      <4> QED BY <4>1, <4>4
    <3> QED BY <3>1, <3>2, <3>3, <3>4 DEF Transport, T!Proceed
  <2> QED BY <1>2, <1>3, <1>4, <1>6, <2>1, <2>2, <2>3
<1> QED BY <1>5, <1>6

\* It keeps the invariant.
LEMMA TransportKeeps ==
  ASSUME JInv, NEW c \in Client, Transport(c)
  PROVE  ExchangeInv' /\ OutInv' /\ ReplyInv' /\ SubInv'
<1>0. TypeOK /\ TP!IInv /\ ExchangeInv /\ OutInv /\ ReplyInv /\ SubInv
  BY DEF JInv
<1>1. /\ wire[c] # "idle" /\ pc[c] = "sent" /\ Matches(c)
      /\ UNCHANGED <<subs, call, ask, ret, status, log, conn, calls, method, carried>>
      /\ \A d \in Client \ {c} : wire'[d] = wire[d] /\ out'[d] = out[d] /\ heard'[d] = heard[d]
      /\ \/ /\ wire'[c] # "idle" /\ out'[c] = out[c] /\ heard'[c] = heard[c]
            /\ UNCHANGED <<pc, answer>>
         \/ /\ wire'[c] = "idle"
            /\ pc' = [pc EXCEPT ![c] = "answered"]
            /\ answer' = [answer EXCEPT ![c] = AnswerOf(c)']
            /\ out'[c] # "pending"
            /\ method[c] = "DELETE" => out'[c] \in {"done", "throw"}
            /\ out'[c] = "throw" => heard'[c].num = 0
            /\ (out'[c] = "done" /\ conn[c] = "open") => heard'[c].num # 0
  BY TransportChanges
<1>2. ReplyInv' /\ SubInv'
  BY <1>0, <1>1 DEF ReplyInv, SubInv, Posted, SameSubmission
<1>3. calls[c] > 0
  BY <1>1 DEF Matches
<1>4. calls[c] \in Nat
  BY <1>0, LogTypes
<1>5. OutInv'
  <2> SUFFICES ASSUME NEW d \in Client
               PROVE  /\ out'[d] = "throw" => heard'[d].num = 0
                      /\ (wire'[d] = "idle" /\ calls[d] > 0 /\ method[d] = "DELETE")
                           => out'[d] \in {"done", "throw"}
                      /\ (out'[d] = "done" /\ conn[d] = "open") => heard'[d].num # 0
                      /\ calls[d] = 0 => out'[d] = "pending"
    BY <1>1 DEF OutInv
  <2>1. CASE d # c
    BY <1>0, <1>1, <2>1 DEF OutInv
  <2>2. CASE d = c
    BY <1>0, <1>1, <1>3, <1>4, <2>2 DEF OutInv
  <2> QED BY <2>1, <2>2
<1>6. /\ pc \in [Client -> {"idle", "loop", "sent", "answered"}] /\ DOMAIN answer = Client
  BY <1>0 DEF TypeOK, C!TypeOK
<1>7. ExchangeInv'
  <2> SUFFICES ASSUME NEW d \in Client
               PROVE  /\ pc'[d] = "sent" <=> wire'[d] # "idle"
                      /\ pc'[d] # "idle" => ret'[d] = C!Pending
                      /\ pc'[d] \in {"sent", "answered"} => Matches(d)'
                      /\ pc'[d] = "answered" => answer'[d] = AnswerOf(d)'
                      /\ ret'[d].val = "done" =>
                           /\ calls'[d] > 0 /\ out'[d] = "done"
                           /\ Current(d)'.ask = "DELETE" /\ Current(d)'.uuid = call'[d].uuid
    BY DEF ExchangeInv
  <2>1. /\ Matches(d)' <=> Matches(d)
        /\ Current(d)' = Current(d)
    BY <1>1 DEF Matches, Current
  <2>2. CASE d # c
    <3>1. pc'[d] = pc[d] /\ answer'[d] = answer[d] /\ AnswerOf(d)' = AnswerOf(d)
      BY <1>1, <1>6, <2>2 DEF AnswerOf
    <3> QED BY <1>0, <1>1, <2>1, <2>2, <3>1 DEF ExchangeInv
  <2>3. CASE d = c
    <3>1. ret[c] = C!Pending /\ C!Pending.val # "done"
      BY <1>0, <1>1 DEF ExchangeInv, C!Pending
    <3>2. CASE wire'[c] # "idle"
      BY <1>0, <1>1, <2>1, <2>3, <3>1, <3>2 DEF ExchangeInv
    <3>3. CASE wire'[c] = "idle"
      <4>1. pc'[c] = "answered" /\ answer'[c] = AnswerOf(c)'
        BY <1>1, <1>6, <3>3
      <4> QED BY <1>1, <2>1, <2>3, <3>1, <3>3, <4>1
    <3> QED BY <3>2, <3>3
  <2> QED BY <2>2, <2>3
<1> QED BY <1>2, <1>5, <1>7

\* The listener serves a request.
LEMMA ServeKeeps ==
  ASSUME JInv, Serve
  PROVE  ExchangeInv' /\ OutInv' /\ ReplyInv' /\ SubInv'
<1>0. TypeOK /\ TP!IInv /\ ExchangeInv /\ OutInv /\ ReplyInv /\ SubInv
  BY DEF JInv
<1>1. PICK c \in Client, k \in 1..MaxCalls :
           /\ k \in 1..calls[c]
           /\ carried[c][k] = 0
           /\ carried' = [carried EXCEPT ![c][k] = 1]
           /\ \/ CarryOut([from |-> c, num |-> k], log[c][k])
              \/ Refuse([from |-> c, num |-> k], log[c][k])
  BY <1>0, ServedRequest
<1>2. PICK b \in C!Body, u \in Uuid \cup {NoUuid}, s \in C!Status : Served(c, k, b, u, s)
  BY <1>0, <1>1, ServeChanges
<1>3. /\ log'[c][k].reply = [body |-> b, uuid |-> u, status |-> s]
      /\ \A d \in Client : \A l \in 1..calls[d] : (d # c \/ l # k) => log'[d][l] = log[d][l]
      /\ \A d \in Client : \A l \in 1..calls[d] :
           /\ log'[d][l].ask = log[d][l].ask /\ log'[d][l].job = log[d][l].job
           /\ log'[d][l].uuid = log[d][l].uuid /\ log'[d][l].sub = log[d][l].sub
  <2>1. k \in 1..calls[c] /\ Reply([from |-> c, num |-> k], b, u, s)
    BY <1>1, <1>2 DEF Served
  <2>2. log'[c][k].reply = [body |-> b, uuid |-> u, status |-> s]
    BY <1>0, <2>1, ReplyChanges
  <2>3. \A d \in Client : \A l \in 1..calls[d] : (d # c \/ l # k) => log'[d][l] = log[d][l]
    BY <1>0, <2>1, ReplyChanges
  <2>4. \A d \in Client : \A l \in 1..calls[d] :
           /\ log'[d][l].ask = log[d][l].ask /\ log'[d][l].job = log[d][l].job
           /\ log'[d][l].uuid = log[d][l].uuid /\ log'[d][l].sub = log[d][l].sub
    BY <1>0, <2>1, ReplyChanges
  <2> QED BY <2>2, <2>3, <2>4
<1>4. /\ UNCHANGED <<conn, wire, method, calls, out, heard>>
      /\ UNCHANGED <<subs, pc, call, ask, answer, ret>>
  BY DEF Serve, T!Serve, T!clientVars
<1>5. OutInv'
  BY <1>0, <1>4 DEF OutInv
<1>6. SubInv'
  BY <1>0, <1>3, <1>4 DEF SubInv, Posted, SameSubmission
<1>7. /\ carried'[c][k] = 1
      /\ \A d \in Client : \A l \in 1..MaxCalls : (d # c \/ l # k) => carried'[d][l] = carried[d][l]
  <2>1. carried \in [Client -> [1..MaxCalls -> Nat]]
    BY <1>0 DEF TypeOK, T!TypeOK
  <2> QED BY <1>1, <2>1
<1>8. ReplyInv'
  <2> SUFFICES ASSUME NEW d \in Client, NEW l \in 1..calls[d]
               PROVE  /\ carried'[d][l] = 0 => log'[d][l].reply = C!NoAnswer
                      /\ log'[d][l].reply.body = "fail" => log'[d][l].reply = C!FailedAnswer
                      /\ (log'[d][l].ask = "DELETE" /\ carried'[d][l] # 0
                            /\ log'[d][l].reply.body # "fail") =>
                           log'[d][l].uuid \in Uuid /\ status'[log'[d][l].uuid] \in C!Terminal
    BY <1>4 DEF ReplyInv
  <2>1. CASE d = c /\ l = k
    <3>1. /\ b = "fail" => u = NoUuid /\ s = "NONE"
          /\ (log[c][k].ask = "DELETE" /\ b # "fail") =>
               log[c][k].uuid \in Uuid /\ status'[log[c][k].uuid] \in C!Terminal
      BY <1>2 DEF Served
    <3>2. log'[c][k].ask = log[c][k].ask /\ log'[c][k].uuid = log[c][k].uuid
      BY <1>1, <1>3
    <3>3. log'[c][k].reply.body = b
      BY <1>3
    <3>4. b = "fail" => log'[c][k].reply = C!FailedAnswer
      BY <1>3, <3>1 DEF C!FailedAnswer, C!NoAnswer
    <3> QED BY <1>7, <2>1, <3>1, <3>2, <3>3, <3>4
  <2>2. CASE d # c \/ l # k
    <3>1. l \in 1..MaxCalls
      BY <1>0, LogTypes, HpcJobsAssumption
    <3>2. log'[d][l] = log[d][l] /\ carried'[d][l] = carried[d][l]
      BY <1>3, <1>7, <2>2, <3>1
    <3> QED BY <1>0, <1>2, <3>2 DEF ReplyInv, Served
  <2> QED BY <2>1, <2>2
<1>9. ExchangeInv'
  <2> SUFFICES ASSUME NEW d \in Client
               PROVE  /\ pc[d] \in {"sent", "answered"} => Matches(d)'
                      /\ pc[d] = "answered" => answer[d] = AnswerOf(d)'
                      /\ ret[d].val = "done" =>
                           Current(d)'.ask = "DELETE" /\ Current(d)'.uuid = call[d].uuid
    BY <1>0, <1>4 DEF ExchangeInv
  <2>0. calls[d] \in Nat
    BY <1>0, LogTypes
  <2>1. calls[d] > 0 => /\ Current(d)'.ask = Current(d).ask /\ Current(d)'.job = Current(d).job
                        /\ Current(d)'.uuid = Current(d).uuid /\ Current(d)'.sub = Current(d).sub
    <3>1. calls[d] > 0 => calls[d] \in 1..calls[d]
      BY <2>0
    <3> QED BY <1>3, <1>4, <3>1 DEF Current
  <2>2. Matches(d) => Matches(d)'
    BY <1>4, <2>1 DEF Matches
  <2>3. AnswerOf(d)' = AnswerOf(d)
    <3>1. CASE heard[d].num = 0
      BY <1>4, <3>1 DEF AnswerOf
    <3>2. CASE heard[d].num # 0
      <4>1. heard[d].num \in 1..calls[d] /\ carried[d][heard[d].num] > 0
        <5>1. heard[d].num \in 0..MaxCalls
          BY <1>0 DEF TypeOK, T!TypeOK
        <5>2. heard[d].num <= calls[d] /\ carried[d][heard[d].num] > 0
          BY <1>0, <3>2 DEF TP!IInv, TP!ReplyLag
        <5> QED BY <2>0, <3>2, <5>1, <5>2, HpcJobsAssumption
      <4>2. d # c \/ heard[d].num # k
        BY <1>1, <4>1
      <4>3. log'[d][heard[d].num] = log[d][heard[d].num]
        BY <1>3, <4>1, <4>2
      <4> QED BY <1>4, <4>3 DEF AnswerOf
    <3> QED BY <3>1, <3>2
  <2> QED BY <1>0, <2>1, <2>2, <2>3 DEF ExchangeInv
<1> QED BY <1>5, <1>6, <1>8, <1>9

\* A job ends by itself; connections come and go.
LEMMA QuietKeeps ==
  ASSUME JInv, (\E u \in Uuid : JobEnds(u)) \/ Connection \/ UNCHANGED vars
  PROVE  ExchangeInv' /\ OutInv' /\ ReplyInv' /\ SubInv'
<1>0. TypeOK /\ TP!IInv /\ ExchangeInv /\ OutInv /\ ReplyInv /\ SubInv
  BY DEF JInv
<1>1. UNCHANGED <<subs, pc, call, ask, answer, ret, wire, method, calls, out, heard, carried, log>>
  BY DEF JobEnds, C!JobEnds, C!clientVars, C!threadVars, wireVars, vars, jobVars, Connection,
         T!Construct, T!Destroy, T!Disconnect, T!BrokerRestart
<1>2. ExchangeInv' /\ SubInv'
  BY <1>0, <1>1 DEF ExchangeInv, SubInv, Matches, Current, AnswerOf, Posted, SameSubmission
<1>3. \A u \in Uuid : status[u] \in C!Terminal => status'[u] \in C!Terminal
  <2>1. status \in [Uuid -> C!Status]
    BY <1>0 DEF TypeOK, C!TypeOK
  <2>2. ASSUME NEW u \in Uuid, JobEnds(u) PROVE \A v \in Uuid : status[v] \in C!Terminal => status'[v] \in C!Terminal
    BY <2>1, <2>2 DEF JobEnds, C!JobEnds, C!Terminal
  <2>3. CASE Connection \/ UNCHANGED vars
    BY <2>3 DEF Connection, vars, jobVars
  <2> QED BY <2>2, <2>3
<1>4. ReplyInv'
  BY <1>0, <1>1, <1>3 DEF ReplyInv
<1>5. \A d \in Client : conn'[d] = "open" => conn[d] \in {"new", "open"}
  <2>1. conn \in [Client -> T!Connection]
    BY <1>0 DEF TypeOK, T!TypeOK
  <2>2. CASE Connection
    BY <2>1, <2>2 DEF Connection, T!Construct, T!DeclareQueues, T!Destroy, T!Disconnect, T!BrokerRestart, T!Up
  <2> QED BY <2>2 DEF JobEnds, vars, wireVars
<1>6. \A d \in Client : conn[d] = "new" => calls[d] = 0
  BY <1>0 DEF TP!IInv, TP!CallInv
<1>7. OutInv'
  BY <1>0, <1>1, <1>5, <1>6 DEF OutInv
<1> QED BY <1>2, <1>4, <1>7

\* Every step keeps the invariant.
LEMMA JInvStep == JInv /\ [Next]_vars => JInv'
<1> SUFFICES ASSUME JInv, [Next]_vars PROVE JInv'
  OBVIOUS
<1>1. (TP!IInv /\ OwnAnswer)'
  BY WireInvStep DEF JInv
<1>2. TypeOK'
  BY <1>1, TypesStep DEF JInv
<1>3. ExchangeInv' /\ OutInv' /\ ReplyInv' /\ SubInv'
  BY ClientKeeps, TransportKeeps, ServeKeeps, QuietKeeps DEF Next, Proceed
<1> QED BY <1>1, <1>2, <1>3 DEF JInv

\* JInv is an invariant of MQSSClient over AMQP.
THEOREM JobsInvariant == Spec => []JInv
<1>1. Init => JInv
  BY JInvInit, WireInvInit, TypesInit DEF JInv
<1> QED BY <1>1, JInvStep, PTL DEF Spec

\* cancelJob over AMQP: a cancellation that returned normally on a connection that is
\* up heard the answer to its own request; unless that was a refusal, the job has ended.
THEOREM CancelAnswered == Spec => []CancelWasAnswered
<1>1. JInv => CancelWasAnswered
  <2> SUFFICES ASSUME JInv, NEW c \in Client, ret[c].val = "done", conn[c] = "open"
               PROVE  /\ heard[c] = [from |-> c, num |-> calls[c]]
                      /\ \/ log[c][calls[c]].reply.body = "fail"
                         \/ call[c].uuid \in Uuid /\ status[call[c].uuid] \in C!Terminal
    BY DEF CancelWasAnswered
  <2>0. TypeOK /\ TP!IInv /\ OwnAnswer /\ ExchangeInv /\ OutInv /\ ReplyInv
    BY DEF JInv
  <2>1. /\ calls[c] > 0 /\ out[c] = "done"
        /\ Current(c).ask = "DELETE" /\ Current(c).uuid = call[c].uuid
    BY <2>0 DEF ExchangeInv
  <2>2. heard[c].num = calls[c] /\ heard[c].num # 0
    BY <2>0, <2>1 DEF OutInv, OwnAnswer
  <2>3. heard[c] = [from |-> c, num |-> calls[c]]
    <3>1. heard[c] \in [from : Client, num : 0..MaxCalls] /\ heard[c].from = c
      BY <2>0 DEF TypeOK, T!TypeOK, TP!IInv, TP!HeardInv
    <3> QED BY <2>2, <3>1
  <2>4. carried[c][calls[c]] # 0
    BY <2>0, <2>2 DEF TP!IInv, TP!ReplyLag
  <2>5. calls[c] \in 1..calls[c]
    BY <2>0, <2>1, LogTypes
  <2> QED BY <2>0, <2>1, <2>3, <2>4, <2>5 DEF ReplyInv, Current
<1> QED BY <1>1, JobsInvariant, PTL

----------------------------------------------------------------------------
(* The client over AMQP implements JobClient *)

\* The answer the client has is the one JobClient has, unless it got none.
LEMMA SeenAnswer ==
  ASSUME JInv, NEW c \in Client, pc[c] = "answered"
  PROVE  /\ AbstractAnswer(c) = IF heard[c].num = 0 THEN C!FailedAnswer ELSE Current(c).reply
         /\ heard[c].num # 0 => answer[c] = IF ask[c] = "DELETE" THEN C!NoAnswer ELSE Current(c).reply
         /\ heard[c].num = 0 => answer[c] \in {C!FailedAnswer, C!NoAnswer}
         /\ answer[c].body = "fail" => heard[c].num = 0 \/ Current(c).reply.body = "fail"
         /\ (ask[c] = "DELETE" /\ answer[c].body # "fail") => answer[c] = C!NoAnswer
<1>1. AbstractAnswer(c) = IF heard[c].num = 0 THEN C!FailedAnswer ELSE Current(c).reply
  BY DEF AbstractAnswer, AbstractAnswered, Current
<1>2. Matches(c) /\ answer[c] = AnswerOf(c)
  BY DEF JInv, ExchangeInv
<1>3. /\ out[c] = "throw" => heard[c].num = 0
      /\ heard[c].num \in {0, calls[c]}
  BY DEF JInv, OutInv, OwnAnswer
<1>4. method[c] = "DELETE" <=> ask[c] = "DELETE"
  BY <1>2 DEF Matches, Verb
<1>5. C!FailedAnswer.body = "fail" /\ C!NoAnswer.body = "text"
  BY DEF C!FailedAnswer, C!NoAnswer
<1>6. answer[c] = IF out[c] = "throw" THEN C!FailedAnswer
                  ELSE IF ask[c] = "DELETE" \/ heard[c].num = 0 THEN C!NoAnswer
                  ELSE log[c][heard[c].num].reply
  BY <1>2, <1>4 DEF AnswerOf
<1> QED BY <1>1, <1>3, <1>5, <1>6 DEF Current

\* Which submissions JobClient takes for late.
Late(c, k) ==
  /\ Posted(c, k)
  /\ carried[c][k] = 0
  /\ pc[c] # "sent" \/ calls[c] # k
Submission(c, k) == [job |-> log[c][k].job, sub |-> log[c][k].sub]

\* They are the elements of AbstractLatePost.
LEMMA LatePosts ==
  \A r : r \in AbstractLatePost <=>
           \E c \in Client : \E k \in 1..calls[c] : Late(c, k) /\ r = Submission(c, k)
  BY DEF AbstractLatePost, Late, Posted, Submission

\* What JobClient sees of a step of the client code.
LEMMA CodeMapped ==
  ASSUME JInv, NEW c \in Client, BeginJobCall(c) \/ Compute(c)
  PROVE  /\ pc[c] # "sent" /\ AbstractPcs[c] = pc[c]
         /\ AbstractPcs' = [AbstractPcs EXCEPT ![c] = pc'[c]]
         /\ AbstractAnswers' = [AbstractAnswers EXCEPT ![c] = answer'[c]]
         /\ AbstractReturns' = [AbstractReturns EXCEPT ![c] = AbstractReturn(c)']
         /\ pc'[c] # "idle" => AbstractReturn(c)' = C!Pending
         /\ pc[c] # "idle" => AbstractReturn(c) = C!Pending
         /\ pc'[c] = "idle" => UNCHANGED <<heard, log, calls>>
         /\ pc[c] # "answered" => AbstractAnswers[c] = answer[c]
         /\ AbstractLatePost' = AbstractLatePost
<1>0. TypeOK /\ TP!IInv /\ ExchangeInv /\ OutInv /\ ReplyInv /\ SubInv
  BY DEF JInv
<1>1. CodeChange(c) /\ Enter(c) /\ C!TypeOK'
  BY <1>0, ClientSteps
<1>2. /\ pc[c] # "sent" /\ pc'[c] \in {"idle", "loop", "sent"}
      /\ pc'[c] # "idle" => ret'[c] = C!Pending
      /\ pc[c] # "idle" => ret[c] = C!Pending
  BY <1>0, <1>1 DEF CodeChange, ExchangeInv
<1>3. C!Pending.val # "done"
  BY DEF C!Pending
<1>4. \A d \in Client \ {c} : pc'[d] = pc[d] /\ answer'[d] = answer[d] /\ ret'[d] = ret[d]
  BY <1>1 DEF CodeChange
<1>5. /\ pc'[c] # "sent" => UNCHANGED <<heard, log, calls, carried>>
      /\ carried' = carried
      /\ \A d \in Client \ {c} : heard'[d] = heard[d] /\ log'[d] = log[d] /\ calls'[d] = calls[d]
  <2>1. CASE pc'[c] # "sent"
    BY <1>1, <2>1 DEF Enter, wireVars
  <2>2. CASE pc'[c] = "sent"
    <3>1. DOMAIN heard = Client
      BY <1>0 DEF TypeOK, T!TypeOK
    <3> QED BY <1>0, <1>1, <2>2, <3>1, EnterChanges
  <2> QED BY <2>1, <2>2
<1>6. pc'[c] = "sent" => /\ calls'[c] = calls[c] + 1 /\ carried[c][calls'[c]] = 0
                         /\ calls[c] \in Nat /\ \A k \in 1..calls[c] : log'[c][k] = log[c][k]
  <2> SUFFICES ASSUME pc'[c] = "sent" PROVE /\ calls'[c] = calls[c] + 1 /\ carried[c][calls'[c]] = 0
                         /\ calls[c] \in Nat /\ \A k \in 1..calls[c] : log'[c][k] = log[c][k]
    OBVIOUS
  <2>1. /\ calls'[c] = calls[c] + 1 /\ calls'[c] \in 1..MaxCalls
        /\ \A k \in 1..calls[c] : log'[c][k] = log[c][k]
    BY <1>0, <1>1, EnterChanges
  <2>2. calls[c] \in Nat
    BY <1>0, LogTypes
  <2>3. calls'[c] > calls[c]
    BY <2>1, <2>2
  <2> QED BY <1>0, <2>1, <2>2, <2>3 DEF TP!IInv, TP!CarriedInv
<1>7. ~AbstractAnswered(c)'
  BY <1>2, <1>5, <1>6 DEF AbstractAnswered
<1>8. ASSUME NEW d \in Client, d # c
      PROVE  /\ AbstractAnswered(d)' <=> AbstractAnswered(d)
             /\ AbstractAnswer(d)' = AbstractAnswer(d)
             /\ AbstractReturn(d)' = AbstractReturn(d)
  <2>1. AbstractAnswered(d)' <=> AbstractAnswered(d)
    BY <1>4, <1>5, <1>8 DEF AbstractAnswered
  <2>2. AbstractAnswer(d)' = AbstractAnswer(d)
    BY <1>4, <1>5, <1>8, <2>1 DEF AbstractAnswer
  <2>3. AbstractReturn(d)' = AbstractReturn(d)
    BY <1>4, <1>5, <1>8 DEF AbstractReturn
  <2> QED BY <2>1, <2>2, <2>3
<1>9. AbstractPcs[c] = pc[c] /\ (pc[c] # "answered" => AbstractAnswers[c] = answer[c])
  BY <1>2 DEF AbstractPcs, AbstractAnswers, AbstractAnswer, AbstractAnswered
<1>10. AbstractPcs' = [AbstractPcs EXCEPT ![c] = pc'[c]]
  BY <1>4, <1>7, <1>8 DEF AbstractPcs
<1>11. AbstractAnswers' = [AbstractAnswers EXCEPT ![c] = answer'[c]]
  <2>1. AbstractAnswer(c)' = answer'[c]
    BY <1>7 DEF AbstractAnswer
  <2> QED BY <1>8, <2>1 DEF AbstractAnswers
<1>12. AbstractReturns' = [AbstractReturns EXCEPT ![c] = AbstractReturn(c)']
  BY <1>8 DEF AbstractReturns
<1>13. /\ pc'[c] # "idle" => AbstractReturn(c)' = C!Pending
       /\ pc[c] # "idle" => AbstractReturn(c) = C!Pending
  BY <1>2, <1>3 DEF AbstractReturn
<1>14. AbstractLatePost' = AbstractLatePost
  <2>1. ASSUME NEW d \in Client, NEW k \in 1..calls[d]
        PROVE  /\ Late(d, k)' <=> Late(d, k)
               /\ Submission(d, k)' = Submission(d, k)
               /\ k \in 1..calls'[d]
    <3>1. CASE d # c
      BY <1>4, <1>5, <3>1 DEF Late, Posted, Submission
    <3>2. CASE d = c /\ pc'[c] # "sent"
      BY <1>2, <1>5, <3>2 DEF Late, Posted, Submission
    <3>3. CASE d = c /\ pc'[c] = "sent"
      <4>1. log'[c][k] = log[c][k] /\ k \in 1..calls'[c] /\ calls'[c] # k
        BY <1>6, <3>3
      <4> QED BY <1>2, <1>5, <3>3, <4>1 DEF Late, Posted, Submission
    <3> QED BY <3>1, <3>2, <3>3
  <2>2. ASSUME NEW d \in Client, NEW k \in 1..calls'[d], Late(d, k)'
        PROVE  k \in 1..calls[d]
    <3>1. CASE d # c \/ pc'[c] # "sent"
      BY <1>5, <3>1
    <3>2. CASE d = c /\ pc'[c] = "sent"
      BY <1>6, <2>2, <3>2 DEF Late
    <3> QED BY <3>1, <3>2
  <2>3. ASSUME NEW r PROVE r \in AbstractLatePost' <=> r \in AbstractLatePost
    <3>1. r \in AbstractLatePost' <=>
            \E d \in Client : \E k \in 1..calls'[d] : Late(d, k)' /\ r = Submission(d, k)'
      BY DEF AbstractLatePost, Late, Posted, Submission
    <3> QED BY <2>1, <2>2, <3>1, LatePosts
  <2> QED BY <2>3
<1> QED BY <1>2, <1>5, <1>9, <1>10, <1>11, <1>12, <1>13, <1>14

\* The values JobClient computes with do not depend on its variables.
LEMMA SameValues ==
  /\ Abstract!Pending = C!Pending /\ Abstract!NoAnswer = C!NoAnswer
  /\ Abstract!FailedAnswer = C!FailedAnswer /\ Abstract!NoLoop = C!NoLoop
  /\ Abstract!Terminal = C!Terminal /\ Abstract!Refusal = C!Refusal
  /\ \A n : Abstract!ToInt(n) = C!ToInt(n)
  /\ \A b : /\ Abstract!SubmitValue(b) = C!SubmitValue(b)
            /\ Abstract!DelValue(b) = C!DelValue(b)
            /\ Abstract!ResultValue(b) = C!ResultValue(b)
            /\ Abstract!StatusValue(b) = C!StatusValue(b)
            /\ Abstract!StopsWaiting(b) = C!StopsWaiting(b)
            /\ Abstract!SleepSeconds(b) = C!SleepSeconds(b)
  BY DEF Abstract!Pending, C!Pending, Abstract!NoAnswer, C!NoAnswer,
         Abstract!FailedAnswer, C!FailedAnswer, Abstract!NoLoop, C!NoLoop,
         Abstract!Terminal, C!Terminal, Abstract!Refusal, C!Refusal,
         Abstract!ToInt, C!ToInt, Abstract!SubmitValue, C!SubmitValue,
         Abstract!DelValue, C!DelValue, Abstract!ResultValue, C!ResultValue,
         Abstract!StatusValue, C!StatusValue, Abstract!StopsWaiting, C!StopsWaiting,
         Abstract!SleepSeconds, C!SleepSeconds, Abstract!PollSeconds, C!PollSeconds

\* JobClient's thread is in a call exactly while the client is.
LEMMA AbstractIdle ==
  ASSUME NEW d \in Client
  PROVE  AbstractPcs[d] = "idle" <=> pc[d] = "idle"
  BY DEF AbstractPcs, AbstractAnswered

\* A call begins: JobClient begins the same call.
LEMMA BeginMapped ==
  ASSUME JInv, NEW c \in Client, BeginJobCall(c)
  PROVE  Abstract!Begin(c)
<1> USE DEF C!clientVars, C!serviceVars, Abstract!clientVars, Abstract!serviceVars
<1>0. /\ AbstractPcs' = [AbstractPcs EXCEPT ![c] = pc'[c]]
      /\ AbstractAnswers' = [AbstractAnswers EXCEPT ![c] = answer'[c]]
      /\ AbstractReturns' = [AbstractReturns EXCEPT ![c] = AbstractReturn(c)']
      /\ pc'[c] # "idle" => AbstractReturn(c)' = C!Pending
      /\ pc[c] # "answered" => AbstractAnswers[c] = answer[c]
      /\ AbstractLatePost' = AbstractLatePost
  BY CodeMapped
<1>1. /\ pc \in [Client -> {"idle", "loop", "sent", "answered"}]
      /\ DOMAIN AbstractAnswers = Client
  BY DEF JInv, TypeOK, C!TypeOK, AbstractAnswers
<1>2. ASSUME pc[c] = "idle", answer' = answer PROVE AbstractAnswers' = AbstractAnswers
  BY <1>0, <1>1, <1>2 DEF AbstractAnswers
<1>3. \A d \in Client : AbstractPcs[d] = "idle" <=> pc[d] = "idle"
  BY AbstractIdle
<1>4. ASSUME NEW o, NEW j, NEW n, C!Start(c, o, j, n), pc'[c] # "idle"
      PROVE  Abstract!Start(c, o, j, n)
  BY <1>0, <1>4, SameValues DEF C!Start, Abstract!Start
<1>5. ASSUME NEW k, C!Send(c, k) PROVE Abstract!Send(c, k) /\ pc'[c] = "sent"
  <2>1. pc'[c] = "sent"
    BY <1>1, <1>5 DEF C!Send
  <2> QED BY <1>0, <1>5, <2>1 DEF C!Send, Abstract!Send
<1>6. ASSUME NEW j, C!MayRead(c, j) PROVE Abstract!MayRead(c, j)
  BY <1>3, <1>6 DEF C!MayRead, Abstract!MayRead, C!Using, Abstract!Using
<1>7. ASSUME NEW j \in Job, C!SubmitJob(c, j) PROVE Abstract!SubmitJob(c, j)
  <2>1. pc[c] = "idle" /\ answer' = answer /\ C!Start(c, "submit", j, 0) /\ C!Send(c, "POST")
    BY <1>7 DEF C!SubmitJob
  <2>2. Abstract!Start(c, "submit", j, 0) /\ Abstract!Send(c, "POST") /\ AbstractAnswers' = AbstractAnswers
    BY <1>2, <1>4, <1>5, <2>1
  <2>3. AbstractPcs[c] = "idle" /\ \A s \in Client : ~Abstract!Using(s, j)
    BY <1>3, <1>7 DEF C!SubmitJob, C!Using, Abstract!Using
  <2> QED BY <1>0, <1>7, <2>2, <2>3 DEF C!SubmitJob, Abstract!SubmitJob
<1>8. ASSUME NEW j \in Job, C!CancelJob(c, j) PROVE Abstract!CancelJob(c, j)
  <2>1. C!MayRead(c, j) /\ answer' = answer /\ C!Start(c, "cancel", j, 0) /\ C!Send(c, "DELETE")
    BY <1>8 DEF C!CancelJob
  <2>2. pc[c] = "idle"
    BY <2>1 DEF C!MayRead
  <2>3. Abstract!Start(c, "cancel", j, 0) /\ Abstract!Send(c, "DELETE") /\ AbstractAnswers' = AbstractAnswers
    BY <1>2, <1>4, <1>5, <2>1, <2>2
  <2> QED BY <1>0, <1>6, <1>8, <2>1, <2>3 DEF C!CancelJob, Abstract!CancelJob
<1>9. ASSUME NEW j \in Job, C!GetJobStatus(c, j) PROVE Abstract!GetJobStatus(c, j)
  <2>1. C!MayRead(c, j) /\ answer' = answer /\ C!Start(c, "status", j, 0) /\ C!Send(c, "STATUS")
    BY <1>9 DEF C!GetJobStatus
  <2>2. pc[c] = "idle"
    BY <2>1 DEF C!MayRead
  <2>3. Abstract!Start(c, "status", j, 0) /\ Abstract!Send(c, "STATUS") /\ AbstractAnswers' = AbstractAnswers
    BY <1>2, <1>4, <1>5, <2>1, <2>2
  <2> QED BY <1>0, <1>6, <1>9, <2>1, <2>3 DEF C!GetJobStatus, Abstract!GetJobStatus
<1>10. ASSUME NEW j \in Job, C!GetJobResult(c, j) PROVE Abstract!GetJobResult(c, j)
  <2>1. C!MayRead(c, j) /\ answer' = answer /\ C!Start(c, "result", j, 0) /\ C!Send(c, "RESULT")
    BY <1>10 DEF C!GetJobResult
  <2>2. pc[c] = "idle"
    BY <2>1 DEF C!MayRead
  <2>3. Abstract!Start(c, "result", j, 0) /\ Abstract!Send(c, "RESULT") /\ AbstractAnswers' = AbstractAnswers
    BY <1>2, <1>4, <1>5, <2>1, <2>2
  <2> QED BY <1>0, <1>6, <1>10, <2>1, <2>3 DEF C!GetJobResult, Abstract!GetJobResult
<1>11. ASSUME NEW j \in Job, NEW n \in Timeout, C!WaitForJobResult(c, j, n)
       PROVE  Abstract!WaitForJobResult(c, j, n)
  <2>1. /\ C!MayRead(c, j) /\ answer' = answer /\ C!Start(c, "wait", j, n)
        /\ pc' = [pc EXCEPT ![c] = "loop"]
    BY <1>11 DEF C!WaitForJobResult
  <2>2. pc[c] = "idle" /\ pc'[c] = "loop"
    BY <1>1, <2>1 DEF C!MayRead
  <2>3. Abstract!Start(c, "wait", j, n) /\ AbstractAnswers' = AbstractAnswers
    BY <1>2, <1>4, <2>1, <2>2
  <2>4. loop' = [loop EXCEPT ![c] = [left |-> Abstract!ToInt(n), slept |-> 0, polls |-> 0]]
    BY <1>11, SameValues DEF C!WaitForJobResult
  <2> QED BY <1>0, <1>6, <1>11, <2>1, <2>2, <2>3, <2>4 DEF C!WaitForJobResult, Abstract!WaitForJobResult
<1> QED BY <1>7, <1>8, <1>9, <1>10, <1>11 DEF BeginJobCall, C!Begin, Abstract!Begin

\* The client code goes on or returns: JobClient does the same, whatever a
\* missing answer looked like.
LEMMA ComputeMapped ==
  ASSUME JInv, NEW c \in Client, Compute(c)
  PROVE  Abstract!Proceed(c)
<1> USE DEF C!clientVars, C!serviceVars, Abstract!clientVars, Abstract!serviceVars
<1>0. /\ pc[c] # "sent" /\ AbstractPcs[c] = pc[c]
      /\ AbstractPcs' = [AbstractPcs EXCEPT ![c] = pc'[c]]
      /\ AbstractAnswers' = [AbstractAnswers EXCEPT ![c] = answer'[c]]
      /\ AbstractReturns' = [AbstractReturns EXCEPT ![c] = AbstractReturn(c)']
      /\ pc'[c] # "idle" => AbstractReturn(c)' = C!Pending
      /\ pc[c] # "idle" => AbstractReturn(c) = C!Pending
      /\ pc'[c] = "idle" => UNCHANGED <<heard, log, calls>>
      /\ pc[c] # "answered" => AbstractAnswers[c] = answer[c]
      /\ AbstractLatePost' = AbstractLatePost
  BY CodeMapped
<1>1. /\ pc \in [Client -> {"idle", "loop", "sent", "answered"}]
      /\ ret \in [Client -> C!Return] /\ answer \in [Client -> C!Answer]
  BY DEF JInv, TypeOK, C!TypeOK
<1>2. ASSUME answer' = answer, AbstractAnswers[c] = answer[c] PROVE AbstractAnswers' = AbstractAnswers
  BY <1>0, <1>2 DEF AbstractAnswers
<1>3. ASSUME pc[c] # "idle", pc'[c] # "idle" PROVE AbstractReturns' = AbstractReturns
  <2>1. AbstractReturns[c] = C!Pending
    BY <1>0, <1>3 DEF AbstractReturns
  <2> QED BY <1>0, <1>3, <2>1 DEF AbstractReturns
<1>4. ASSUME NEW k, C!Send(c, k) PROVE Abstract!Send(c, k) /\ pc'[c] = "sent"
  <2>1. pc'[c] = "sent"
    BY <1>1, <1>4 DEF C!Send
  <2> QED BY <1>0, <1>4, <2>1 DEF C!Send, Abstract!Send
<1>5. ASSUME NEW v, NEW u, NEW w, C!Finish(c, v, u),
             AbstractReturn(c)' = [val |-> w, got |-> u]
      PROVE  Abstract!Finish(c, w, u)
  <2>1. pc'[c] = "idle" /\ answer'[c] = C!NoAnswer /\ loop' = [loop EXCEPT ![c] = C!NoLoop]
    BY <1>1, <1>5 DEF C!Finish
  <2> QED BY <1>0, <1>5, <2>1, SameValues DEF Abstract!Finish
<1>6. ASSUME NEW v, NEW u, C!Finish(c, v, u)
      PROVE  /\ pc'[c] = "idle" /\ ret'[c] = [val |-> v, got |-> u]
             /\ v # "done" => AbstractReturn(c)' = [val |-> v, got |-> u]
  <2>1. pc'[c] = "idle" /\ ret'[c] = [val |-> v, got |-> u]
    BY <1>1, <1>6 DEF C!Finish
  <2> QED BY <2>1 DEF AbstractReturn
<1>7. CASE C!WaitLoop(c)
  <2>1. pc[c] = "loop" /\ AbstractAnswers[c] = answer[c]
    BY <1>0, <1>7 DEF C!WaitLoop
  <2>2. CASE /\ loop[c].left > 0 /\ loop' = [loop EXCEPT ![c].polls = @ + 1]
             /\ C!Send(c, "STATUS") /\ UNCHANGED <<answer, ret>>
    <3>1. Abstract!Send(c, "STATUS") /\ AbstractAnswers' = AbstractAnswers /\ AbstractReturns' = AbstractReturns
      BY <1>2, <1>3, <1>4, <2>1, <2>2
    <3> QED BY <1>0, <1>7, <2>1, <2>2, <3>1 DEF C!WaitLoop, Abstract!WaitLoop, Abstract!Proceed
  <2>3. CASE loop[c].left <= 0 /\ C!Finish(c, "null", NoUuid) /\ ask' = ask
    <3>1. Abstract!Finish(c, "null", NoUuid)
      <4>1. PICK v : v = "null"
        OBVIOUS
      <4>2. C!Finish(c, v, NoUuid) /\ v # "done"
        BY <2>3, <4>1
      <4>3. Abstract!Finish(c, v, NoUuid)
        BY <1>5, <1>6, <4>2
      <4> QED BY <4>1, <4>3
    <3> QED BY <1>0, <1>7, <2>1, <2>3, <3>1 DEF C!WaitLoop, Abstract!WaitLoop, Abstract!Proceed
  <2> QED BY <1>7, <2>2, <2>3 DEF C!WaitLoop
\* From here on an answer is there.
<1>8. SUFFICES ASSUME pc[c] = "answered",
                      \/ C!SubmitReturns(c) \/ C!CancelReturns(c) \/ C!StatusReturns(c)
                      \/ C!PollReturns(c) \/ C!ResultReturns(c)
               PROVE  Abstract!Proceed(c)
  BY <1>7 DEF Compute, C!SubmitReturns, C!CancelReturns, C!StatusReturns, C!PollReturns, C!ResultReturns
<1> DEFINE a == AbstractAnswers[c]
<1>9. /\ a = IF heard[c].num = 0 THEN C!FailedAnswer ELSE Current(c).reply
      /\ heard[c].num # 0 => answer[c] = IF ask[c] = "DELETE" THEN C!NoAnswer ELSE Current(c).reply
      /\ heard[c].num = 0 => answer[c] \in {C!FailedAnswer, C!NoAnswer}
      /\ (ask[c] = "DELETE" /\ answer[c].body # "fail") => answer[c] = C!NoAnswer
  BY <1>8, SeenAnswer DEF AbstractAnswers
<1>10. /\ C!FailedAnswer.body = "fail" /\ C!NoAnswer.body = "text"
       /\ C!FailedAnswer.uuid = NoUuid /\ C!NoAnswer.uuid = NoUuid
  BY DEF C!FailedAnswer, C!NoAnswer
<1> HIDE DEF a
<1>11. AbstractPcs[c] = "answered"
  BY <1>0, <1>8
<1>12. CASE C!SubmitReturns(c)
  <2> DEFINE v == C!SubmitValue(answer[c].body)
             j == call[c].job
  <2>1. /\ ask[c] = "POST" /\ C!Finish(c, v, answer[c].uuid)
        /\ \/ /\ v = "uuid" /\ mUuid' = C!SetUuid(j, answer[c].uuid)
              /\ acked' = [acked EXCEPT ![j] = subs[j]]
           \/ v # "uuid" /\ UNCHANGED <<mUuid, acked>>
        /\ UNCHANGED <<subs, call, ask, status, ledger>>
    BY <1>12 DEF C!SubmitReturns
  <2>2. Abstract!SubmitValue(a.body) = v /\ a.uuid = answer[c].uuid /\ v # "done"
    BY <1>9, <1>10, <2>1, SameValues DEF C!SubmitValue
  <2> HIDE DEF v
  <2>3. Abstract!Finish(c, v, a.uuid)
    BY <1>5, <1>6, <2>1, <2>2
  <2>4. Abstract!SetUuid(j, a.uuid) = C!SetUuid(j, answer[c].uuid)
    BY <2>2 DEF Abstract!SetUuid, C!SetUuid
  <2> QED BY <1>0, <1>11, <2>1, <2>2, <2>3, <2>4 DEF a, Abstract!SubmitReturns, Abstract!Proceed
<1>13. CASE C!CancelReturns(c)
  <2> DEFINE v == C!DelValue(answer[c].body)
             w == C!DelValue(a.body)
  <2>1. ask[c] = "DELETE" /\ C!Finish(c, v, NoUuid) /\ UNCHANGED <<mUuid, subs, acked, call, ask, status, ledger>>
    BY <1>13 DEF C!CancelReturns
  <2>2. pc'[c] = "idle" /\ ret'[c] = [val |-> v, got |-> NoUuid] /\ UNCHANGED <<heard, log, calls>>
    BY <1>0, <1>6, <2>1
  <2>3. /\ v \in {"done", "throw"}
        /\ v = "done" => (w = "throw" <=> heard[c].num = 0 \/ Current(c).reply.body = "fail")
        /\ v = "throw" => w = "throw"
        /\ w \in {"done", "throw"}
    BY <1>9, <1>10, <2>1 DEF C!DelValue
  <2> HIDE DEF v, w
  <2>4. AbstractReturn(c)' = [val |-> w, got |-> NoUuid]
    BY <2>2, <2>3 DEF AbstractReturn, Current
  <2>5. Abstract!Finish(c, w, NoUuid) /\ w = Abstract!DelValue(a.body)
    BY <1>5, <2>1, <2>4, SameValues DEF w
  <2> QED BY <1>0, <1>11, <2>1, <2>5 DEF a, Abstract!CancelReturns, Abstract!Proceed
<1>14. CASE C!StatusReturns(c)
  <2> DEFINE v == C!StatusValue(answer[c])
  <2>1. /\ ask[c] = "STATUS" /\ call[c].op = "status" /\ C!Finish(c, v, NoUuid)
        /\ UNCHANGED <<mUuid, subs, acked, call, ask, status, ledger>>
    BY <1>14 DEF C!StatusReturns
  <2>2. Abstract!StatusValue(a) = v
    BY <1>9, <1>10, <2>1, SameValues DEF C!StatusValue
  <2>3. v # "done"
    BY <1>1 DEF C!StatusValue, C!Answer, C!Status
  <2> HIDE DEF v
  <2>4. Abstract!Finish(c, v, NoUuid)
    BY <1>5, <1>6, <2>1, <2>3
  <2> QED BY <1>0, <1>11, <2>1, <2>2, <2>4 DEF a, Abstract!StatusReturns, Abstract!Proceed
<1>15. CASE C!ResultReturns(c)
  <2> DEFINE v == C!ResultValue(answer[c].body)
  <2>1. /\ ask[c] = "RESULT" /\ C!Finish(c, v, answer[c].uuid)
        /\ UNCHANGED <<mUuid, subs, acked, call, ask, status, ledger>>
    BY <1>15 DEF C!ResultReturns
  <2>2. Abstract!ResultValue(a.body) = v /\ a.uuid = answer[c].uuid /\ v # "done"
    BY <1>9, <1>10, <2>1, SameValues DEF C!ResultValue
  <2> HIDE DEF v
  <2>3. Abstract!Finish(c, v, a.uuid)
    BY <1>5, <1>6, <2>1, <2>2
  <2> QED BY <1>0, <1>11, <2>1, <2>2, <2>3 DEF a, Abstract!ResultReturns, Abstract!Proceed
<1>16. CASE C!PollReturns(c)
  <2> DEFINE v == C!StatusValue(answer[c])
             nap == C!SleepSeconds(loop[c].left)
  <2>1. /\ ask[c] = "STATUS" /\ call[c].op = "wait"
        /\ UNCHANGED <<mUuid, subs, acked, call, status, ledger>>
    BY <1>16 DEF C!PollReturns
  <2>2. /\ Abstract!StatusValue(a) = v
        /\ Abstract!SleepSeconds(loop[c].left) = nap
        /\ C!StopsWaiting(v) <=> Abstract!StopsWaiting(v)
    BY <1>9, <1>10, <2>1, SameValues DEF C!StatusValue
  <2>3. ~C!StopsWaiting(v) => a = answer[c]
    BY <1>9, <1>10, <2>1 DEF C!StatusValue, C!StopsWaiting
  <2>4. ~C!StopsWaiting("COMPLETED")
    BY DEF C!StopsWaiting
  <2> HIDE DEF v, nap
  <2>5. CASE v = "COMPLETED" /\ C!Send(c, "RESULT") /\ UNCHANGED <<answer, loop, ret>>
    <3>1. Abstract!Send(c, "RESULT") /\ AbstractAnswers' = AbstractAnswers /\ AbstractReturns' = AbstractReturns
      BY <1>2, <1>3, <1>4, <1>8, <2>3, <2>4, <2>5 DEF a
    <3> QED BY <1>0, <1>11, <2>1, <2>2, <2>5, <3>1 DEF a, Abstract!PollReturns, Abstract!Proceed
  <2>6. CASE C!StopsWaiting(v) /\ C!Finish(c, "null", NoUuid) /\ ask' = ask
    <3>1. Abstract!Finish(c, "null", NoUuid)
      <4>1. PICK r : r = "null"
        OBVIOUS
      <4>2. C!Finish(c, r, NoUuid) /\ r # "done"
        BY <2>6, <4>1
      <4>3. Abstract!Finish(c, r, NoUuid)
        BY <1>5, <1>6, <4>2
      <4> QED BY <4>1, <4>3
    <3> QED BY <1>0, <1>11, <2>1, <2>2, <2>6, <3>1 DEF a, Abstract!PollReturns, Abstract!Proceed
  <2>7. CASE /\ v # "COMPLETED" /\ ~C!StopsWaiting(v)
             /\ pc' = [pc EXCEPT ![c] = "loop"]
             /\ loop' = [loop EXCEPT ![c] = [left |-> @.left - nap, slept |-> @.slept + nap,
                                             polls |-> @.polls]]
             /\ UNCHANGED <<answer, ask, ret>>
    <3>1. pc'[c] = "loop"
      BY <1>1, <2>7
    <3>2. AbstractAnswers' = AbstractAnswers /\ AbstractReturns' = AbstractReturns
      BY <1>2, <1>3, <1>8, <2>3, <2>7, <3>1 DEF a
    <3>3. AbstractPcs' = [AbstractPcs EXCEPT ![c] = "loop"]
      BY <1>0, <3>1
    <3> QED BY <1>0, <1>11, <2>1, <2>2, <2>7, <3>2, <3>3 DEF a, Abstract!PollReturns, Abstract!Proceed
  <2> QED BY <1>16, <2>5, <2>6, <2>7 DEF C!PollReturns, v, nap
<1> QED BY <1>8, <1>12, <1>13, <1>14, <1>15, <1>16

\* A step of a call of the transport: JobClient has seen the answer already, or
\* takes the exchange for failed.
LEMMA TransportMapped ==
  ASSUME JInv, JInv', NEW c \in Client, Transport(c)
  PROVE  Abstract!RequestFails(c) \/ UNCHANGED Abstract!vars
<1> USE DEF Abstract!clientVars, Abstract!threadVars, Abstract!serviceVars
<1>0. TypeOK /\ TP!IInv /\ ExchangeInv /\ OutInv /\ ReplyInv /\ SubInv
  BY DEF JInv
<1>1. /\ wire[c] # "idle" /\ pc[c] = "sent" /\ Matches(c)
      /\ UNCHANGED <<mUuid, subs, acked, call, ask, loop, ret, status, ledger, log,
                     conn, calls, method, carried>>
      /\ \A d \in Client \ {c} : wire'[d] = wire[d] /\ out'[d] = out[d] /\ heard'[d] = heard[d]
      /\ \/ /\ wire'[c] # "idle" /\ out'[c] = out[c] /\ heard'[c] = heard[c]
            /\ UNCHANGED <<pc, answer>>
         \/ /\ wire'[c] = "idle"
            /\ pc' = [pc EXCEPT ![c] = "answered"]
            /\ answer' = [answer EXCEPT ![c] = AnswerOf(c)']
            /\ out'[c] # "pending"
            /\ method[c] = "DELETE" => out'[c] \in {"done", "throw"}
            /\ out'[c] = "throw" => heard'[c].num = 0
            /\ (out'[c] = "done" /\ conn[c] = "open") => heard'[c].num # 0
  BY TransportChanges
<1>2. /\ pc \in [Client -> {"idle", "loop", "sent", "answered"}]
      /\ answer \in [Client -> C!Answer]
  BY <1>0 DEF TypeOK, C!TypeOK
<1>3. \A d \in Client \ {c} : heard'[d] = heard[d] /\ pc'[d] = pc[d] /\ answer'[d] = answer[d]
  BY <1>1, <1>2
<1>4. ASSUME NEW d \in Client, d # c
      PROVE  /\ AbstractAnswered(d)' <=> AbstractAnswered(d)
             /\ AbstractAnswer(d)' = AbstractAnswer(d)
             /\ AbstractReturn(d)' = AbstractReturn(d)
  <2>1. AbstractAnswered(d)' <=> AbstractAnswered(d)
    BY <1>1, <1>3, <1>4 DEF AbstractAnswered
  <2>2. AbstractAnswer(d)' = AbstractAnswer(d)
    BY <1>1, <1>3, <1>4, <2>1 DEF AbstractAnswer
  <2>3. AbstractReturn(d)' = AbstractReturn(d)
    BY <1>1, <1>3, <1>4 DEF AbstractReturn
  <2> QED BY <2>1, <2>2, <2>3
<1>5. AbstractReturns' = AbstractReturns
  <2>1. ret[c] = C!Pending /\ ret'[c] = C!Pending /\ C!Pending.val # "done"
    BY <1>0, <1>1 DEF ExchangeInv, C!Pending
  <2>2. AbstractReturn(c)' = AbstractReturn(c)
    BY <2>1 DEF AbstractReturn
  <2> QED BY <1>4, <2>2 DEF AbstractReturns
<1>6. ASSUME NEW r PROVE r \in AbstractLatePost' <=>
            \E d \in Client : \E k \in 1..calls'[d] : Late(d, k)' /\ r = Submission(d, k)'
  BY DEF AbstractLatePost, Late, Posted, Submission
<1>7. ASSUME NEW d \in Client, NEW k \in 1..calls[d], d # c \/ k # calls[c]
      PROVE  Late(d, k)' <=> Late(d, k)
  BY <1>1, <1>3, <1>7 DEF Late, Posted
<1>8. \A d \in Client : \A k \in 1..calls[d] : Submission(d, k)' = Submission(d, k)
  BY <1>1 DEF Submission
<1>9. CASE wire'[c] # "idle"
  <2>1. UNCHANGED <<pc, answer, log, calls, carried>> /\ heard'[c] = heard[c]
    BY <1>1, <1>9
  <2>2. /\ AbstractAnswered(c)' <=> AbstractAnswered(c)
        /\ AbstractAnswer(c)' = AbstractAnswer(c)
    BY <2>1 DEF AbstractAnswered, AbstractAnswer
  <2>3. AbstractPcs' = AbstractPcs /\ AbstractAnswers' = AbstractAnswers
    BY <1>4, <2>1, <2>2 DEF AbstractPcs, AbstractAnswers
  <2>4. AbstractLatePost' = AbstractLatePost
    BY <2>1 DEF AbstractLatePost
  <2> QED BY <1>1, <1>5, <2>3, <2>4 DEF Abstract!vars
<1>10. CASE wire'[c] = "idle"
  <2>0. calls[c] \in Nat /\ calls[c] \in 1..calls[c] /\ calls[c] \in 1..MaxCalls
    <3>1. calls[c] > 0 /\ calls[c] \in 0..MaxCalls
      BY <1>0, <1>1, LogTypes DEF Matches
    <3> QED BY <3>1, HpcJobsAssumption
  <2>1. pc'[c] = "answered"
    BY <1>1, <1>2, <1>10
  <2>2. AbstractAnswered(c)' /\ AbstractPcs' = [AbstractPcs EXCEPT ![c] = "answered"]
    <3>1. AbstractAnswered(c)'
      BY <2>1 DEF AbstractAnswered
    <3> QED BY <1>3, <1>4, <3>1 DEF AbstractPcs
  <2>3. AbstractAnswers' = [AbstractAnswers EXCEPT ![c] = AbstractAnswer(c)']
    BY <1>4 DEF AbstractAnswers
  <2>4. AbstractAnswer(c)' = IF heard'[c].num = 0 THEN C!FailedAnswer ELSE Current(c).reply
    BY <1>1, <2>1, <2>2 DEF AbstractAnswer, Current
  <2>5. heard'[c].num # 0 => carried[c][calls[c]] > 0
    <3>1. heard'[c].num \in {0, calls'[c]}
      BY DEF JInv, OwnAnswer
    <3>2. heard'[c].num # 0 => carried'[c][heard'[c].num] > 0
      BY DEF JInv, TP!IInv, TP!ReplyLag
    <3> QED BY <1>1, <3>1, <3>2
  <2>6. Late(c, calls[c])' <=> (ask[c] = "POST" /\ carried[c][calls[c]] = 0)
    <3>1. PICK n \in 1..MaxCalls : n = calls[c]
      BY <2>0
    <3>2. Late(c, n)' <=> (ask[c] = "POST" /\ carried[c][n] = 0)
      BY <1>1, <2>0, <2>1, <3>1 DEF Late, Posted, Matches, Current
    <3>3. Late(c, calls[c])' <=> Late(c, n)'
      BY <1>1, <3>1 DEF Late, Posted
    <3> QED BY <3>1, <3>2, <3>3
  <2>7. ~Late(c, calls[c])
    BY <1>1 DEF Late
  <2>8. Submission(c, calls[c]) = [job |-> call[c].job, sub |-> subs[call[c].job]]
    BY <1>1 DEF Submission, Matches, Current
  <2>9. CASE carried[c][calls[c]] > 0
    <3>1. AbstractAnswered(c) /\ AbstractPcs[c] = "answered" /\ AbstractAnswers[c] = Current(c).reply
      BY <1>1, <2>9 DEF AbstractAnswered, AbstractAnswer, AbstractAnswers, AbstractPcs, Current
    <3>2. AbstractLatePost' = AbstractLatePost
      <4>1. \A d \in Client : \A k \in 1..calls[d] : Late(d, k)' <=> Late(d, k)
        <5>1. carried[c][calls[c]] # 0
          BY <2>9
        <5>2. ~Late(c, calls[c])'
          BY <2>6, <5>1
        <5> TAKE d \in Client
        <5> TAKE k \in 1..calls[d]
        <5>3. CASE d # c \/ k # calls[c]
          BY <1>7, <5>3
        <5>4. CASE d = c /\ k = calls[c]
          BY <2>0, <2>7, <2>1, <5>1, <5>4, <1>1 DEF Late
        <5> QED BY <5>3, <5>4
      <4>2. \A r : r \in AbstractLatePost' <=> r \in AbstractLatePost
        BY <1>1, <1>6, <1>8, <4>1, LatePosts
      <4> QED BY <4>2
    <3>3. AbstractPcs' = AbstractPcs
      BY <2>2, <3>1 DEF AbstractPcs
    <3>4. CASE heard'[c].num # 0
      <4>1. AbstractAnswers' = AbstractAnswers
        BY <2>3, <2>4, <3>1, <3>4 DEF AbstractAnswers
      <4> QED BY <1>1, <1>5, <3>2, <3>3, <4>1 DEF Abstract!vars
    <3>5. CASE heard'[c].num = 0 /\ Current(c).reply.body = "fail"
      <4>1. Current(c).reply = C!FailedAnswer
        BY <1>0, <2>0, <3>5 DEF ReplyInv, Current
      <4>2. AbstractAnswers' = AbstractAnswers
        BY <2>3, <2>4, <3>1, <3>5, <4>1 DEF AbstractAnswers
      <4> QED BY <1>1, <1>5, <3>2, <3>3, <4>2 DEF Abstract!vars
    <3>6. CASE heard'[c].num = 0 /\ Current(c).reply.body # "fail"
      <4>1. AbstractAnswers' = [AbstractAnswers EXCEPT ![c] = Abstract!FailedAnswer]
        BY <2>3, <2>4, <3>6, SameValues
      <4> QED BY <1>1, <1>5, <2>2, <3>1, <3>2, <3>6, <4>1 DEF Abstract!RequestFails
    <3> QED BY <3>4, <3>5, <3>6
  <2>10. CASE ~(carried[c][calls[c]] > 0)
    <3>1. carried[c][calls[c]] = 0 /\ heard'[c].num = 0
      <4>1. carried[c][calls[c]] \in Nat
        BY <1>0, <2>0 DEF TypeOK, T!TypeOK
      <4> QED BY <2>5, <2>10, <4>1
    <3>2. AbstractPcs[c] = "sent"
      BY <1>1, <2>10 DEF AbstractPcs, AbstractAnswered
    <3>3. AbstractAnswers' = [AbstractAnswers EXCEPT ![c] = Abstract!FailedAnswer]
      BY <2>3, <2>4, <3>1, SameValues
    <3>4. CASE ask[c] # "POST"
      <4>1. \A d \in Client : \A k \in 1..calls[d] : Late(d, k)' <=> Late(d, k)
        <5>1. ~Posted(c, calls[c])
          BY <1>1, <3>4 DEF Posted, Matches, Current
        <5> TAKE d \in Client
        <5> TAKE k \in 1..calls[d]
        <5>3. CASE d # c \/ k # calls[c]
          BY <1>7, <5>3
        <5>4. CASE d = c /\ k = calls[c]
          BY <1>1, <5>1, <5>4 DEF Late, Posted
        <5> QED BY <5>3, <5>4
      <4>2. \A r : r \in AbstractLatePost' <=> r \in AbstractLatePost
        BY <1>1, <1>6, <1>8, <4>1, LatePosts
      <4>3. AbstractLatePost' = AbstractLatePost
        BY <4>2
      <4> QED BY <1>1, <1>5, <2>2, <3>2, <3>3, <4>3 DEF Abstract!RequestFails
    <3>5. CASE ask[c] = "POST"
      <4> DEFINE s == [job |-> call[c].job, sub |-> subs[call[c].job]]
      <4>0. PICK n \in 1..calls[c] : n = calls[c]
        BY <2>0
      <4>1. Late(c, n)' /\ Submission(c, n) = s /\ ~Late(c, n)
        <5>1. Posted(c, n) /\ carried[c][n] = 0
          BY <1>1, <3>1, <3>5, <4>0 DEF Posted, Matches, Current
        <5> QED BY <1>1, <2>1, <2>7, <2>8, <4>0, <5>1 DEF Late, Posted
      <4> HIDE DEF s
      <4>2. ASSUME NEW r PROVE r \in AbstractLatePost' <=> r \in AbstractLatePost \/ r = s
        <5>1. ASSUME r \in AbstractLatePost' PROVE r \in AbstractLatePost \/ r = s
          <6>1. PICK d \in Client : \E k \in 1..calls[d] : Late(d, k)' /\ r = Submission(d, k)
            BY <1>1, <1>6, <1>8, <5>1
          <6>2. PICK k \in 1..calls[d] : Late(d, k)' /\ r = Submission(d, k)
            BY <6>1
          <6>3. CASE d # c \/ k # calls[c]
            BY <1>7, <6>2, <6>3, LatePosts
          <6>4. CASE d = c /\ k = calls[c]
            BY <4>0, <4>1, <6>2, <6>4
          <6> QED BY <6>3, <6>4
        <5>2. ASSUME r \in AbstractLatePost PROVE r \in AbstractLatePost'
          <6>1. PICK d \in Client : \E k \in 1..calls[d] : Late(d, k) /\ r = Submission(d, k)
            BY <5>2, LatePosts
          <6>2. PICK k \in 1..calls[d] : Late(d, k) /\ r = Submission(d, k)
            BY <6>1
          <6>3. d # c \/ k # calls[c]
            BY <2>7, <6>2
          <6> QED BY <1>1, <1>6, <1>7, <1>8, <6>2, <6>3
        <5>3. s \in AbstractLatePost'
          BY <1>1, <1>6, <1>8, <4>1
        <5> QED BY <5>1, <5>2, <5>3
      <4>3. AbstractLatePost' = AbstractLatePost \cup {s}
        BY <4>2
      <4> QED BY <1>1, <1>5, <2>2, <3>2, <3>3, <3>5, <4>3 DEF s, Abstract!RequestFails
    <3> QED BY <3>4, <3>5
  <2> QED BY <2>9, <2>10
<1> QED BY <1>9, <1>10

\* The listener serves a request: the one of the exchange in progress, or one
\* whose caller has given up.
LEMMA ServeMapped ==
  ASSUME JInv, Serve
  PROVE  Abstract!Next \/ UNCHANGED Abstract!vars
<1> USE DEF Abstract!clientVars, Abstract!threadVars, Abstract!serviceVars
<1>0. TypeOK /\ TP!IInv /\ OwnAnswer /\ ExchangeInv /\ OutInv /\ ReplyInv /\ SubInv
  BY DEF JInv
<1>1. PICK c \in Client, k \in 1..MaxCalls :
           /\ k \in 1..calls[c]
           /\ carried[c][k] = 0
           /\ carried' = [carried EXCEPT ![c][k] = 1]
           /\ \/ CarryOut([from |-> c, num |-> k], log[c][k])
              \/ Refuse([from |-> c, num |-> k], log[c][k])
  BY <1>0, ServedRequest
<1> DEFINE r == [from |-> c, num |-> k]
           q == log[c][k]
<1>2. PICK b \in C!Body, u \in Uuid \cup {NoUuid}, s \in C!Status : Reply(r, b, u, s)
  BY <1>0, <1>1, ServeChanges DEF Served
<1>3. \A d \in Client : \A l \in 1..calls[d] : (d # c \/ l # k) => log'[d][l] = log[d][l]
  BY <1>0, <1>1, <1>2, ReplyChanges
<1>4. \A d \in Client : \A l \in 1..calls[d] :
           /\ log'[d][l].ask = log[d][l].ask /\ log'[d][l].job = log[d][l].job
           /\ log'[d][l].uuid = log[d][l].uuid /\ log'[d][l].sub = log[d][l].sub
  BY <1>0, <1>1, <1>2, ReplyChanges
<1>5. ASSUME NEW e, NEW v, NEW t, Reply(r, e, v, t)
      PROVE  log'[c][k].reply = [body |-> e, uuid |-> v, status |-> t]
  BY <1>0, <1>1, <1>5, ReplyChanges
<1>6. /\ UNCHANGED <<conn, wire, method, calls, out, heard>>
      /\ UNCHANGED <<mUuid, subs, acked, pc, call, ask, answer, loop, ret>>
  BY DEF Serve, T!Serve, T!clientVars
<1>7. /\ carried'[c][k] = 1
      /\ \A d \in Client : \A l \in 1..MaxCalls : (d # c \/ l # k) => carried'[d][l] = carried[d][l]
  <2>1. carried \in [Client -> [1..MaxCalls -> Nat]]
    BY <1>0 DEF TypeOK, T!TypeOK
  <2> QED BY <1>1, <2>1
<1>8. \A d \in Client : /\ calls[d] \in Nat /\ (calls[d] > 0 => calls[d] \in 1..calls[d])
                        /\ \A l \in 1..calls[d] : l \in 1..MaxCalls
  <2> TAKE d \in Client
  <2>1. calls[d] \in 0..MaxCalls /\ calls[d] \in Nat
    BY <1>0, LogTypes
  <2> QED BY <2>1, HpcJobsAssumption
<1> DEFINE Cur(d) == d = c /\ calls[d] = k /\ pc[d] = "sent"
\* Only the exchange in progress sees its answer.
<1>9. ASSUME NEW d \in Client, ~Cur(d)
      PROVE  /\ AbstractAnswered(d)' <=> AbstractAnswered(d)
             /\ AbstractAnswer(d)' = AbstractAnswer(d)
  <2>1. pc[d] \in {"sent", "answered"} => calls[d] \in 1..calls[d]
    BY <1>0, <1>8 DEF ExchangeInv, Matches
  <2>2. pc[d] = "sent" => carried'[d][calls[d]] = carried[d][calls[d]] /\ log'[d][calls[d]] = log[d][calls[d]]
    BY <1>3, <1>7, <1>8, <1>9, <2>1
  <2>3. (pc[d] = "answered" /\ heard[d].num # 0) => log'[d][calls[d]] = log[d][calls[d]]
    <3> SUFFICES ASSUME pc[d] = "answered", heard[d].num # 0 PROVE log'[d][calls[d]] = log[d][calls[d]]
      OBVIOUS
    <3>1. heard[d].num = calls[d] /\ carried[d][calls[d]] > 0
      BY <1>0 DEF OwnAnswer, TP!IInv, TP!ReplyLag
    <3>2. d # c \/ calls[d] # k
      BY <1>1, <3>1
    <3> QED BY <1>3, <2>1, <3>2
  <2>4. AbstractAnswered(d)' <=> AbstractAnswered(d)
    BY <1>6, <2>2 DEF AbstractAnswered
  <2>5. AbstractAnswer(d)' = AbstractAnswer(d)
    <3>1. CASE ~AbstractAnswered(d)
      BY <1>6, <2>4, <3>1 DEF AbstractAnswer
    <3>2. CASE AbstractAnswered(d) /\ pc[d] = "sent"
      BY <1>6, <2>2, <2>4, <3>2 DEF AbstractAnswer
    <3>3. CASE AbstractAnswered(d) /\ pc[d] = "answered"
      BY <1>6, <2>3, <2>4, <3>3 DEF AbstractAnswer
    <3> QED BY <3>1, <3>2, <3>3 DEF AbstractAnswered
  <2> QED BY <2>4, <2>5
<1>10. AbstractReturns' = AbstractReturns
  <2>1. ASSUME NEW d \in Client PROVE AbstractReturn(d)' = AbstractReturn(d)
    <3>1. CASE ret[d].val = "done" /\ heard[d].num # 0
      <4>1. heard[d].num = calls[d] /\ carried[d][calls[d]] > 0 /\ calls[d] > 0
        BY <1>0, <3>1 DEF OwnAnswer, TP!IInv, TP!ReplyLag, ExchangeInv
      <4>2. d # c \/ calls[d] # k
        BY <1>1, <4>1
      <4>3. log'[d][calls[d]] = log[d][calls[d]]
        BY <1>3, <1>8, <4>1, <4>2
      <4> QED BY <1>6, <4>3 DEF AbstractReturn
    <3>2. CASE ret[d].val # "done" \/ heard[d].num = 0
      BY <1>6, <3>2 DEF AbstractReturn
    <3> QED BY <3>1, <3>2
  <2> QED BY <2>1 DEF AbstractReturns
<1>11. \A d \in Client : \A l \in 1..calls[d] :
          /\ Submission(d, l)' = Submission(d, l)
          /\ (d # c \/ l # k) => (Late(d, l)' <=> Late(d, l))
  BY <1>4, <1>6, <1>7, <1>8 DEF Submission, Late, Posted
<1>12. ~Late(c, k)'
  BY <1>7 DEF Late
<1>13. ASSUME NEW x PROVE x \in AbstractLatePost' <=>
            \E d \in Client : \E l \in 1..calls'[d] : Late(d, l)' /\ x = Submission(d, l)'
  BY DEF AbstractLatePost, Late, Posted, Submission
\* The listener takes a submission away from the late ones only.
<1>14. ASSUME ~Late(c, k) PROVE AbstractLatePost' = AbstractLatePost
  <2>1. \A d \in Client : \A l \in 1..calls[d] : Late(d, l)' <=> Late(d, l)
    <3> TAKE d \in Client
    <3> TAKE l \in 1..calls[d]
    <3>1. CASE d # c \/ l # k
      BY <1>11, <3>1
    <3>2. CASE d = c /\ l = k
      <4>1. ~Late(d, l)
        BY <1>14, <3>2
      <4>2. ~Late(d, l)'
        BY <1>7, <3>2 DEF Late
      <4> QED BY <4>1, <4>2
    <3> QED BY <3>1, <3>2
  <2>2. \A x : x \in AbstractLatePost' <=> x \in AbstractLatePost
    BY <1>6, <1>11, <1>13, <2>1, LatePosts
  <2> QED BY <2>2
<1>15. ASSUME Late(c, k)
       PROVE  /\ Submission(c, k) \in AbstractLatePost
              /\ AbstractLatePost' = AbstractLatePost \ {Submission(c, k)}
  <2>1. Submission(c, k) \in AbstractLatePost
    BY <1>1, <1>15, LatePosts
  <2>2. ASSUME NEW d \in Client, NEW l \in 1..calls[d], Late(d, l), d # c \/ l # k
        PROVE  Submission(d, l) # Submission(c, k)
    <3>1. Posted(d, l) /\ Posted(c, k) /\ l \in 1..MaxCalls
      BY <1>8, <1>15, <2>2 DEF Late
    <3>2. ~SameSubmission(d, l, c, k)
      BY <1>0, <2>2, <3>1 DEF SubInv
    <3> QED BY <3>2 DEF SameSubmission, Submission
  <2>3. ASSUME NEW x, x \in AbstractLatePost' PROVE x \in AbstractLatePost /\ x # Submission(c, k)
    <3>1. PICK d \in Client : \E l \in 1..calls[d] : Late(d, l)' /\ x = Submission(d, l)
      BY <1>6, <1>11, <1>13, <2>3
    <3>2. PICK l \in 1..calls[d] : Late(d, l)' /\ x = Submission(d, l)
      BY <3>1
    <3>3. d # c \/ l # k
      <4>1. CASE d = c /\ l = k
        BY <1>7, <3>2, <4>1 DEF Late
      <4> QED BY <4>1
    <3>4. Late(d, l)
      BY <1>11, <3>2, <3>3
    <3> QED BY <2>2, <3>2, <3>3, <3>4, LatePosts
  <2>4. ASSUME NEW x, x \in AbstractLatePost, x # Submission(c, k) PROVE x \in AbstractLatePost'
    <3>1. PICK d \in Client : \E l \in 1..calls[d] : Late(d, l) /\ x = Submission(d, l)
      BY <2>4, LatePosts
    <3>2. PICK l \in 1..calls[d] : Late(d, l) /\ x = Submission(d, l)
      BY <3>1
    <3>3. d # c \/ l # k
      BY <2>4, <3>2
    <3> QED BY <1>6, <1>11, <1>13, <3>2, <3>3
  <2> QED BY <2>1, <2>3, <2>4
<1>16. q.ask \in C!Ask /\ q.job \in Job /\ q.uuid \in Uuid \cup {NoUuid} /\ q.sub \in Nat
  BY <1>0, <1>1, LogTypes
<1>17. status \in [Uuid -> C!Status]
  BY <1>0 DEF TypeOK, C!TypeOK
\* The exchange in progress gets its answer.
<1>18. CASE Cur(c)
  <2>1. /\ ask[c] = q.ask /\ call[c].job = q.job /\ call[c].uuid = q.uuid
        /\ subs[call[c].job] = q.sub
    BY <1>0, <1>18 DEF ExchangeInv, Matches, Current
  <2>2. ~AbstractAnswered(c) /\ AbstractPcs[c] = "sent"
    BY <1>1, <1>18 DEF AbstractAnswered, AbstractPcs
  <2>3. AbstractAnswered(c)' /\ AbstractAnswer(c)' = log'[c][k].reply
    BY <1>6, <1>7, <1>18 DEF AbstractAnswered, AbstractAnswer
  <2>4. AbstractPcs' = [AbstractPcs EXCEPT ![c] = "answered"]
    BY <1>6, <1>9, <2>3 DEF AbstractPcs
  <2>5. AbstractAnswers' = [AbstractAnswers EXCEPT ![c] = log'[c][k].reply]
    BY <1>9, <2>3 DEF AbstractAnswers
  <2>6. ASSUME NEW e, NEW v, NEW t, Reply(r, e, v, t) PROVE Abstract!Answered(c, e, v, t)
    BY <1>5, <2>4, <2>5, <2>6 DEF Abstract!Answered
  <2>7. AbstractLatePost' = AbstractLatePost
    BY <1>14, <1>18 DEF Late
  <2>8. /\ UNCHANGED <<mUuid, subs, acked, call, ask, loop>> /\ AbstractReturns' = AbstractReturns
        /\ AbstractLatePost' = AbstractLatePost
    BY <1>6, <1>10, <2>7
  <2>9. CASE Refuse(r, q)
    <3>1. PICK e \in IF q.ask = "DELETE" THEN {"fail"} ELSE C!Refusal \ {"fail"} :
             Reply(r, e, NoUuid, "NONE")
      BY <2>9 DEF Refuse
    <3>2. UNCHANGED <<status, ledger>> /\ Abstract!Answered(c, e, NoUuid, "NONE")
      <4>1. PICK t : t = "NONE"
        OBVIOUS
      <4>2. Reply(r, e, NoUuid, t)
        BY <3>1, <4>1
      <4>3. Abstract!Answered(c, e, NoUuid, t)
        BY <2>6, <4>2
      <4> QED BY <2>9, <4>1, <4>3 DEF Refuse
    <3>3. e \in Abstract!Refusal /\ (q.ask = "DELETE" => e = "fail")
      BY <3>1, SameValues DEF C!Refusal
    <3>4. CASE q.ask = "POST"
      <4>1. Abstract!ServicePost(c)
        BY <2>1, <2>2, <2>8, <3>2, <3>3, <3>4 DEF Abstract!ServicePost
      <4> QED BY <4>1 DEF Abstract!Next, Abstract!Service
    <3>5. CASE q.ask = "DELETE"
      <4>1. Abstract!ServiceDelete(c)
        BY <2>1, <2>2, <2>8, <3>2, <3>3, <3>5 DEF Abstract!ServiceDelete
      <4> QED BY <4>1 DEF Abstract!Next, Abstract!Service
    <3>6. CASE q.ask = "STATUS"
      <4>1. Abstract!ServiceStatus(c)
        BY <2>1, <2>2, <2>8, <3>2, <3>3, <3>6 DEF Abstract!ServiceStatus
      <4> QED BY <4>1 DEF Abstract!Next, Abstract!Service
    <3>7. CASE q.ask = "RESULT"
      <4>1. Abstract!ServiceResult(c)
        BY <2>1, <2>2, <2>8, <3>2, <3>3, <3>7 DEF Abstract!ServiceResult
      <4> QED BY <4>1 DEF Abstract!Next, Abstract!Service
    <3> QED BY <1>16, <3>4, <3>5, <3>6, <3>7 DEF C!Ask
  <2>10. CASE CarryOut(r, q)
    <3>0. PICK e, t : e = "field" /\ t = "RUNNING"
      OBVIOUS
    <3>1. CASE q.ask = "POST"
      <4>1. PICK v \in Uuid : C!Create(v, q.job, q.sub) /\ Reply(r, "field", v, "RUNNING")
        BY <2>10, <3>1 DEF CarryOut
      <4>2. Abstract!Create(v, call[c].job, subs[call[c].job])
        BY <2>1, <4>1 DEF C!Create, Abstract!Create
      <4>3. Reply(r, e, v, t)
        BY <3>0, <4>1
      <4>4. Abstract!Answered(c, e, v, t)
        BY <2>6, <4>3
      <4>5. Abstract!ServicePost(c)
        BY <2>1, <2>2, <2>8, <3>0, <3>1, <4>2, <4>4 DEF Abstract!ServicePost
      <4> QED BY <4>5 DEF Abstract!Next, Abstract!Service
    <3>2. CASE q.ask = "DELETE"
      <4>1. /\ Known(q.uuid) /\ status' = C!Cancelled(q.uuid) /\ Reply(r, "text", NoUuid, "NONE")
            /\ ledger' = ledger
        BY <2>10, <3>2 DEF CarryOut
      <4>2. PICK f, g : f = "text" /\ g = "NONE"
        OBVIOUS
      <4>3. Reply(r, f, NoUuid, g)
        BY <4>1, <4>2
      <4>4. Abstract!Answered(c, f, NoUuid, g)
        BY <2>6, <4>3
      <4>5. call[c].uuid \in Uuid /\ status[call[c].uuid] # "NONE" /\ status' = Abstract!Cancelled(call[c].uuid)
        BY <2>1, <4>1 DEF Known, C!Cancelled, Abstract!Cancelled
      <4>6. Abstract!ServiceDelete(c)
        BY <2>1, <2>2, <2>8, <3>2, <4>1, <4>2, <4>4, <4>5 DEF Abstract!ServiceDelete
      <4> QED BY <4>6 DEF Abstract!Next, Abstract!Service
    <3>3. CASE q.ask = "STATUS"
      <4>1. /\ Known(q.uuid) /\ Reply(r, "field", q.uuid, status[q.uuid]) /\ UNCHANGED <<status, ledger>>
        BY <2>10, <3>3 DEF CarryOut
      <4>2. PICK v, g : v = q.uuid /\ g = status[q.uuid]
        OBVIOUS
      <4>3. Reply(r, e, v, g)
        BY <3>0, <4>1, <4>2
      <4>4. Abstract!Answered(c, e, v, g)
        BY <2>6, <4>3
      <4>5. call[c].uuid = v /\ v \in Uuid /\ status[v] # "NONE" /\ status[v] = g
        BY <2>1, <4>1, <4>2 DEF Known
      <4>6. Abstract!ServiceStatus(c)
        BY <2>1, <2>2, <2>8, <3>0, <3>3, <4>1, <4>4, <4>5 DEF Abstract!ServiceStatus
      <4> QED BY <4>6 DEF Abstract!Next, Abstract!Service
    <3>4. CASE q.ask = "RESULT"
      <4>1. /\ q.uuid \in Uuid /\ status[q.uuid] = "COMPLETED" /\ UNCHANGED <<status, ledger>>
            /\ \E f \in {"field", "badresult"} : Reply(r, f, q.uuid, "COMPLETED")
        BY <2>10, <3>4 DEF CarryOut
      <4>2. PICK f \in {"field", "badresult"} : Reply(r, f, q.uuid, "COMPLETED")
        BY <4>1
      <4>3. PICK v, g : v = q.uuid /\ g = "COMPLETED"
        OBVIOUS
      <4>4. Reply(r, f, v, g)
        BY <4>2, <4>3
      <4>5. Abstract!Answered(c, f, v, g)
        BY <2>6, <4>4
      <4>6. Abstract!ServiceResult(c)
        BY <2>1, <2>2, <2>8, <3>4, <4>1, <4>2, <4>3, <4>5 DEF Abstract!ServiceResult
      <4> QED BY <4>6 DEF Abstract!Next, Abstract!Service
    <3> QED BY <1>16, <3>1, <3>2, <3>3, <3>4 DEF C!Ask
  <2> QED BY <1>1, <2>9, <2>10
\* A request whose caller has given up arrives.
<1>19. CASE ~Cur(c)
  <2>1. AbstractPcs' = AbstractPcs /\ AbstractAnswers' = AbstractAnswers
    <3>1. \A d \in Client : ~Cur(d)
      BY <1>19
    <3> QED BY <1>6, <1>9, <3>1 DEF AbstractPcs, AbstractAnswers
  <2>2. /\ UNCHANGED <<mUuid, subs, acked, call, ask, loop>> /\ AbstractReturns' = AbstractReturns
        /\ AbstractPcs' = AbstractPcs /\ AbstractAnswers' = AbstractAnswers
    BY <1>6, <1>10, <2>1
  <2>3. CASE q.ask = "POST"
    <3>1. Late(c, k)
      BY <1>1, <1>19, <2>3 DEF Late, Posted
    <3>2. PICK x : x = Submission(c, k)
      OBVIOUS
    <3>3. x \in AbstractLatePost /\ AbstractLatePost' = AbstractLatePost \ {x} /\ x.job = q.job /\ x.sub = q.sub
      BY <1>15, <3>1, <3>2 DEF Submission
    <3>4. (\E v \in Uuid : Abstract!Create(v, x.job, x.sub)) \/ UNCHANGED <<status, ledger>>
      BY <1>1, <2>3, <3>3 DEF CarryOut, Refuse, C!Create, Abstract!Create
    <3>5. Abstract!LatePost(x)
      BY <2>2, <3>3, <3>4 DEF Abstract!LatePost
    <3> QED BY <3>3, <3>5 DEF Abstract!Next, Abstract!Service
  <2>4. CASE q.ask # "POST"
    <3>1. AbstractLatePost' = AbstractLatePost /\ ledger' = ledger
      BY <1>1, <1>14, <2>4 DEF Late, Posted, CarryOut, Refuse
    <3>2. CASE UNCHANGED status
      BY <2>2, <3>1, <3>2 DEF Abstract!vars
    <3>3. CASE Known(q.uuid) /\ status' = C!Cancelled(q.uuid)
      <4>0. q.uuid \in Uuid
        BY <3>3 DEF Known
      <4>1. CASE status[q.uuid] = "RUNNING"
        <5>1. status' = [status EXCEPT ![q.uuid] = "CANCELLED"] /\ "CANCELLED" \in Abstract!Terminal
          BY <1>17, <3>3, <4>0, <4>1 DEF C!Cancelled, Abstract!Terminal
        <5>2. Abstract!JobEnds(q.uuid)
          BY <2>2, <3>1, <4>1, <5>1 DEF Abstract!JobEnds
        <5> QED BY <4>0, <5>2 DEF Abstract!Next, Abstract!Service
      <4>2. CASE status[q.uuid] # "RUNNING"
        <5>1. status' = status
          BY <1>17, <3>3, <4>0, <4>2 DEF C!Cancelled
        <5> QED BY <2>2, <3>1, <5>1 DEF Abstract!vars
      <4> QED BY <4>1, <4>2
    <3> QED BY <1>1, <2>4, <3>2, <3>3 DEF CarryOut, Refuse
  <2> QED BY <2>3, <2>4
<1> QED BY <1>18, <1>19

\* The initial states are initial states of JobClient.
LEMMA InitMapped == Init => Abstract!Init
<1> SUFFICES ASSUME Init PROVE Abstract!Init
  OBVIOUS
<1>1. /\ C!Init /\ \A c \in Client : /\ pc[c] = "idle" /\ calls[c] = 0 /\ answer[c] = C!NoAnswer
                                     /\ ret[c] = C!Pending /\ C!Pending.val # "done"
  BY DEF Init, C!Init, T!Init, C!Pending
<1>2. AbstractPcs = [c \in Client |-> "idle"]
  BY <1>1 DEF AbstractPcs, AbstractAnswered
<1>3. AbstractAnswers = [c \in Client |-> Abstract!NoAnswer]
  BY <1>1, SameValues DEF AbstractAnswers, AbstractAnswer, AbstractAnswered
<1>4. AbstractReturns = [c \in Client |-> Abstract!Pending]
  BY <1>1, SameValues DEF AbstractReturns, AbstractReturn
<1>5. AbstractLatePost = {}
  BY <1>1 DEF AbstractLatePost
<1> QED BY <1>1, <1>2, <1>3, <1>4, <1>5, SameValues DEF C!Init, Abstract!Init

\* A job ends by itself, or a connection comes or goes.
LEMMA QuietMapped ==
  ASSUME JInv, (\E u \in Uuid : JobEnds(u)) \/ Connection \/ UNCHANGED vars
  PROVE  Abstract!Next \/ UNCHANGED Abstract!vars
<1> USE DEF Abstract!clientVars, Abstract!threadVars, Abstract!serviceVars
<1>1. UNCHANGED <<mUuid, subs, acked, pc, call, ask, answer, loop, ret, ledger,
                  calls, heard, carried, log>>
  BY DEF JobEnds, C!JobEnds, C!clientVars, C!threadVars, wireVars, vars, jobVars, Connection,
         T!Construct, T!Destroy, T!Disconnect, T!BrokerRestart
<1>2. UNCHANGED <<AbstractPcs, AbstractAnswers, AbstractReturns, AbstractLatePost>>
  BY <1>1 DEF AbstractPcs, AbstractAnswers, AbstractReturns, AbstractLatePost,
              AbstractAnswered, AbstractAnswer, AbstractReturn
<1>3. ASSUME NEW u \in Uuid, JobEnds(u) PROVE Abstract!Next
  <2>1. Abstract!JobEnds(u)
    BY <1>1, <1>2, <1>3, SameValues DEF JobEnds, C!JobEnds, Abstract!JobEnds
  <2> QED BY <2>1 DEF Abstract!Next, Abstract!Service
<1>4. CASE Connection \/ UNCHANGED vars
  BY <1>1, <1>2, <1>4 DEF Connection, vars, jobVars, Abstract!vars
<1> QED BY <1>3, <1>4

\* Every step of the client over AMQP is a step of JobClient or none.
LEMMA StepMapped == JInv /\ JInv' /\ [Next]_vars => [Abstract!Next]_(Abstract!vars)
<1> SUFFICES ASSUME JInv, JInv', [Next]_vars PROVE Abstract!Next \/ UNCHANGED Abstract!vars
  OBVIOUS
<1>1. ASSUME NEW c \in Client, BeginJobCall(c) PROVE Abstract!Next
  BY <1>1, BeginMapped DEF Abstract!Next
<1>2. ASSUME NEW c \in Client, Compute(c) PROVE Abstract!Next
  BY <1>2, ComputeMapped DEF Abstract!Next
<1>3. ASSUME NEW c \in Client, Transport(c) PROVE Abstract!Next \/ UNCHANGED Abstract!vars
  BY <1>3, TransportMapped DEF Abstract!Next, Abstract!Proceed
<1> QED BY <1>1, <1>2, <1>3, ServeMapped, QuietMapped DEF Next, Proceed

\* MQSSClient over MQSSHPCClient implements JobClient: the job interface promises the
\* same over AMQP as over HTTP, save that a cancellation may be dropped silently.
THEOREM JobsImplemented == Spec => ImplementsJobClient
  BY InitMapped, StepMapped, JobsInvariant, PTL DEF Spec, ImplementsJobClient, Abstract!Spec

----------------------------------------------------------------------------
(* What is proved of JobClient holds over AMQP *)

AP == INSTANCE JobClientProofs WITH
  Thread     <- Client,
  pc         <- AbstractPcs,
  answer     <- AbstractAnswers,
  ret        <- AbstractReturns,
  latePost   <- AbstractLatePost,
  lateDelete <- {}

\* The instance of JobClient and that of its proofs describe the same steps.
LEMMA SameNext == Abstract!Next => AP!Next
<1> USE DEF Abstract!clientVars, AP!clientVars, Abstract!threadVars, AP!threadVars,
            Abstract!serviceVars, AP!serviceVars
<1>1. ASSUME NEW t \in Client, Abstract!Begin(t) PROVE AP!Begin(t)
  BY <1>1 DEF Abstract!Begin, AP!Begin, Abstract!SubmitJob, AP!SubmitJob,
         Abstract!CancelJob, AP!CancelJob, Abstract!GetJobStatus, AP!GetJobStatus,
         Abstract!GetJobResult, AP!GetJobResult, Abstract!WaitForJobResult,
         AP!WaitForJobResult, Abstract!MayRead, AP!MayRead, Abstract!Using,
         AP!Using, Abstract!Start, AP!Start, Abstract!Send, AP!Send,
         Abstract!Pending, AP!Pending, Abstract!ToInt, AP!ToInt
<1>2. ASSUME NEW t \in Client, Abstract!WaitLoop(t) PROVE AP!WaitLoop(t)
  BY <1>2 DEF Abstract!WaitLoop, AP!WaitLoop, Abstract!Send, AP!Send,
         Abstract!Finish, AP!Finish, Abstract!NoAnswer, AP!NoAnswer,
         Abstract!NoLoop, AP!NoLoop
<1>3. ASSUME NEW t \in Client, Abstract!RequestFails(t) PROVE AP!RequestFails(t)
  BY <1>3 DEF Abstract!RequestFails, AP!RequestFails, Abstract!FailedAnswer,
         AP!FailedAnswer, Abstract!NoAnswer, AP!NoAnswer
<1>4. ASSUME NEW t \in Client, Abstract!SubmitReturns(t) PROVE AP!SubmitReturns(t)
  BY <1>4 DEF Abstract!SubmitReturns, AP!SubmitReturns, Abstract!SubmitValue,
         AP!SubmitValue, Abstract!SetUuid, AP!SetUuid, Abstract!Finish, AP!Finish,
         Abstract!NoAnswer, AP!NoAnswer, Abstract!NoLoop, AP!NoLoop
<1>5. ASSUME NEW t \in Client, Abstract!CancelReturns(t) PROVE AP!CancelReturns(t)
  BY <1>5 DEF Abstract!CancelReturns, AP!CancelReturns, Abstract!DelValue,
         AP!DelValue, Abstract!Finish, AP!Finish, Abstract!NoAnswer, AP!NoAnswer,
         Abstract!NoLoop, AP!NoLoop
<1>6. ASSUME NEW t \in Client, Abstract!StatusReturns(t) PROVE AP!StatusReturns(t)
  BY <1>6 DEF Abstract!StatusReturns, AP!StatusReturns, Abstract!StatusValue,
         AP!StatusValue, Abstract!Finish, AP!Finish, Abstract!NoAnswer, AP!NoAnswer,
         Abstract!NoLoop, AP!NoLoop
<1>7. ASSUME NEW t \in Client, Abstract!PollReturns(t) PROVE AP!PollReturns(t)
  BY <1>7 DEF Abstract!PollReturns, AP!PollReturns, Abstract!StatusValue,
         AP!StatusValue, Abstract!StopsWaiting, AP!StopsWaiting,
         Abstract!SleepSeconds, AP!SleepSeconds, Abstract!PollSeconds,
         AP!PollSeconds, Abstract!Send, AP!Send, Abstract!Finish, AP!Finish,
         Abstract!NoAnswer, AP!NoAnswer, Abstract!NoLoop, AP!NoLoop
<1>8. ASSUME NEW t \in Client, Abstract!ResultReturns(t) PROVE AP!ResultReturns(t)
  BY <1>8 DEF Abstract!ResultReturns, AP!ResultReturns, Abstract!ResultValue,
         AP!ResultValue, Abstract!Finish, AP!Finish, Abstract!NoAnswer, AP!NoAnswer,
         Abstract!NoLoop, AP!NoLoop
<1>9. ASSUME NEW t \in Client, Abstract!ServicePost(t) PROVE AP!ServicePost(t)
  BY <1>9 DEF Abstract!ServicePost, AP!ServicePost, Abstract!Create, AP!Create,
         Abstract!Answered, AP!Answered, Abstract!Refusal, AP!Refusal
<1>10. ASSUME NEW t \in Client, Abstract!ServiceDelete(t) PROVE AP!ServiceDelete(t)
  BY <1>10 DEF Abstract!ServiceDelete, AP!ServiceDelete, Abstract!Cancelled,
         AP!Cancelled, Abstract!Answered, AP!Answered
<1>11. ASSUME NEW t \in Client, Abstract!ServiceStatus(t) PROVE AP!ServiceStatus(t)
  BY <1>11 DEF Abstract!ServiceStatus, AP!ServiceStatus, Abstract!Answered,
         AP!Answered, Abstract!Refusal, AP!Refusal
<1>12. ASSUME NEW t \in Client, Abstract!ServiceResult(t) PROVE AP!ServiceResult(t)
  BY <1>12 DEF Abstract!ServiceResult, AP!ServiceResult, Abstract!Answered,
         AP!Answered, Abstract!Refusal, AP!Refusal
<1>13. ASSUME NEW t, Abstract!LatePost(t) PROVE AP!LatePost(t)
  BY <1>13 DEF Abstract!LatePost, AP!LatePost, Abstract!Create, AP!Create
<1>14. ASSUME NEW t \in Uuid, Abstract!LateDelete(t) PROVE AP!LateDelete(t)
  BY <1>14 DEF Abstract!LateDelete, AP!LateDelete, Abstract!Cancelled, AP!Cancelled
<1>15. ASSUME NEW t \in Uuid, Abstract!JobEnds(t) PROVE AP!JobEnds(t)
  BY <1>15 DEF Abstract!JobEnds, AP!JobEnds, Abstract!Terminal, AP!Terminal
<1> QED
  BY <1>1, <1>2, <1>3, <1>4, <1>5, <1>6, <1>7, <1>8, <1>9, <1>10, <1>11, <1>12, <1>13, <1>14, <1>15
     DEF Abstract!Next, AP!Next, Abstract!Proceed, AP!Proceed, Abstract!Service, AP!Service

\* What is proved of JobClient is proved of the client over AMQP, as JobClient sees it.
LEMMA ProofsApply == Spec => AP!Spec
<1>1. Abstract!Init => AP!Init
  BY DEF Abstract!Init, AP!Init, Abstract!NoAnswer, AP!NoAnswer, Abstract!NoLoop, AP!NoLoop,
         Abstract!Pending, AP!Pending
<1>2. [Abstract!Next]_(Abstract!vars) => [AP!Next]_(AP!vars)
  BY SameNext DEF Abstract!vars, AP!vars, Abstract!clientVars, AP!clientVars,
       Abstract!threadVars, AP!threadVars, Abstract!serviceVars, AP!serviceVars
<1> QED
  BY <1>1, <1>2, JobsImplemented, PTL DEF ImplementsJobClient, Abstract!Spec, AP!Spec

\* submitJob, getJobResult and waitForJobResult with is_hpc set: the uuid of the last
\* submission acknowledged, one job per submission, results of the caller's own jobs,
\* and a wait that keeps its budget.
THEOREM PromisesOverAmqp ==
  Spec => [](C!UuidOfLastAcknowledged /\ C!OneJobPerSubmit /\ C!ResultIsOwn /\ C!WaitBudget)
<1>4. AP!Spec => [](AP!UuidOfLastAcknowledged /\ AP!OneJobPerSubmit /\ AP!ResultIsOwn /\ AP!WaitBudget)
  BY HpcJobsAssumption, AP!UuidSafe, AP!SubmitSafe, AP!ResultSafe, AP!WaitSafe, PTL
<1>5. /\ AP!UuidOfLastAcknowledged => C!UuidOfLastAcknowledged
      /\ AP!OneJobPerSubmit => C!OneJobPerSubmit
  BY DEF AP!UuidOfLastAcknowledged, C!UuidOfLastAcknowledged, AP!OneJobPerSubmit, C!OneJobPerSubmit
<1>6. AP!ResultIsOwn => C!ResultIsOwn
  <2> SUFFICES ASSUME AP!ResultIsOwn, NEW c \in Client, ret[c].val = "result"
               PROVE  /\ ret[c].got = call[c].uuid /\ ret[c].got \in Uuid
                      /\ status[ret[c].got] = "COMPLETED"
                      /\ \E a \in ledger : a.uuid = ret[c].got /\ a.job = call[c].job
    BY DEF C!ResultIsOwn
  <2>1. AbstractReturns[c] = ret[c]
    BY DEF AbstractReturns, AbstractReturn
  <2> QED BY <2>1 DEF AP!ResultIsOwn
<1>7. AP!WaitBudget => C!WaitBudget
  <2>1. \A c \in Client : AbstractPcs[c] = "idle" <=> pc[c] = "idle"
    BY AbstractIdle
  <2>2. \A c \in Client : AbstractPcs[c] = "loop" <=> pc[c] = "loop"
    BY DEF AbstractPcs, AbstractAnswered
  <2>3. \A n : AP!ToInt(n) = C!ToInt(n)
    BY DEF AP!ToInt, C!ToInt
  <2> QED BY <2>1, <2>2, <2>3 DEF AP!WaitBudget, C!WaitBudget
<1> QED BY <1>4, <1>5, <1>6, <1>7, ProofsApply, PTL

\* The step with which a job call returns is one of the client code's own.
LEMMA ReturnsFromCode ==
  ASSUME JInv, [Next]_vars, NEW c \in Client, C!Returns(c)
  PROVE  pc[c] # "sent"
<1>1. pc[c] # "idle" /\ pc'[c] = "idle"
  BY DEF C!Returns
<1>2. ASSUME NEW d \in Client, BeginJobCall(d) \/ Compute(d) PROVE pc[c] # "sent"
  <2>1. /\ pc[d] # "sent"
        /\ AbstractPcs' = [AbstractPcs EXCEPT ![d] = pc'[d]]
    BY <1>2, CodeMapped
  <2>2. AbstractPcs[c] # "idle" /\ AbstractPcs'[c] = "idle"
    <3>1. AbstractPcs'[c] = "idle" <=> pc'[c] = "idle"
      BY DEF AbstractPcs, AbstractAnswered
    <3> QED BY <1>1, <3>1, AbstractIdle
  <2>3. c # d => AbstractPcs'[c] = AbstractPcs[c]
    BY <2>1 DEF AbstractPcs
  <2> QED BY <2>1, <2>2, <2>3
<1>3. ASSUME NEW d \in Client, Transport(d) PROVE FALSE
  <2>1. DOMAIN pc = Client
    BY DEF JInv, TypeOK, C!TypeOK
  <2> QED BY <1>1, <1>3, <2>1 DEF Transport
<1>4. CASE pc' = pc
  BY <1>1, <1>4
<1>5. Serve \/ (\E u \in Uuid : JobEnds(u)) \/ Connection \/ UNCHANGED vars => pc' = pc
  BY DEF Serve, JobEnds, C!JobEnds, C!threadVars, Connection, vars, jobVars
<1> QED BY <1>2, <1>3, <1>4, <1>5 DEF Next, Proceed

\* waitForJobResult's early return with is_hpc set: a wait that gives up before its
\* time on a status it understood has a job that has failed or was cancelled.
THEOREM EarlyNullOverAmqp == Spec => C!EarlyNullIsTrue
<1>1. ASSUME JInv, [Next]_vars, NEW c \in Client,
             C!Returns(c), ret'[c].val = "null", ask[c] = "STATUS", answer[c].body = "field"
      PROVE  /\ AP!Returns(c) /\ AbstractReturns'[c].val = "null"
             /\ AbstractAnswers[c].body = "field"
  <2>1. pc[c] # "idle" /\ pc'[c] = "idle"
    BY <1>1 DEF C!Returns
  <2>2. AP!Returns(c)
    <3>1. AbstractPcs'[c] = "idle" <=> pc'[c] = "idle"
      BY DEF AbstractPcs, AbstractAnswered
    <3> QED BY <2>1, <3>1, AbstractIdle DEF AP!Returns
  <2>3. AbstractReturns'[c].val = "null"
    BY <1>1 DEF AbstractReturns, AbstractReturn
  <2>4. AbstractAnswers[c].body = "field"
    <3>1. CASE pc[c] = "answered"
      <4>1. C!FailedAnswer.body # "field" /\ C!NoAnswer.body # "field"
        BY DEF C!FailedAnswer, C!NoAnswer
      <4>2. AbstractAnswer(c) = answer[c]
        BY <1>1, <3>1, <4>1, SeenAnswer
      <4> QED BY <1>1, <4>2 DEF AbstractAnswers
    <3>2. CASE pc[c] # "answered"
      <4>1. ~AbstractAnswered(c)
        BY <1>1, <3>2, ReturnsFromCode DEF AbstractAnswered
      <4> QED BY <1>1, <4>1 DEF AbstractAnswers, AbstractAnswer
    <3> QED BY <3>1, <3>2
  <2> QED BY <2>2, <2>3, <2>4
<1>2. /\ JInv /\ [Next]_vars
      /\ [\A t \in Client :
            (AP!Returns(t) /\ call[t].op = "wait" /\ AbstractReturns'[t].val = "null"
               /\ ask[t] = "STATUS" /\ AbstractAnswers[t].body = "field" /\ loop[t].left > 0)
              => status[call[t].uuid] \in {"FAILED", "CANCELLED"}]_(AP!vars)
      => [\A t \in Client :
            (C!Returns(t) /\ call[t].op = "wait" /\ ret'[t].val = "null"
               /\ ask[t] = "STATUS" /\ answer[t].body = "field" /\ loop[t].left > 0)
              => status[call[t].uuid] \in {"FAILED", "CANCELLED"}]_(C!vars)
  <2> SUFFICES
        ASSUME JInv, [Next]_vars,
               [\A t \in Client :
                  (AP!Returns(t) /\ call[t].op = "wait" /\ AbstractReturns'[t].val = "null"
                     /\ ask[t] = "STATUS" /\ AbstractAnswers[t].body = "field"
                     /\ loop[t].left > 0)
                    => status[call[t].uuid] \in {"FAILED", "CANCELLED"}]_(AP!vars),
               NEW c \in Client, C!Returns(c), call[c].op = "wait", ret'[c].val = "null",
               ask[c] = "STATUS", answer[c].body = "field", loop[c].left > 0
        PROVE  status[call[c].uuid] \in {"FAILED", "CANCELLED"}
    OBVIOUS
  <2>1. /\ AP!Returns(c) /\ AbstractReturns'[c].val = "null"
        /\ AbstractAnswers[c].body = "field"
    BY <1>1
  <2>2. AP!vars' # AP!vars
    BY <2>1 DEF AP!Returns, AP!vars, AP!threadVars
  <2> QED BY <2>1, <2>2
<1>3. AP!Spec => AP!EarlyNullIsTrue
  BY HpcJobsAssumption, AP!EarlyNullTrue
<1> QED
  BY <1>2, <1>3, JobsInvariant, ProofsApply, PTL
     DEF Spec, AP!EarlyNullIsTrue, C!EarlyNullIsTrue

\* As JobClient sees it, a job call over AMQP comes to an end as well: the transport
\* may wait for ever in one exchange, but no call makes more than a bounded number.
THEOREM CallsEndOverAmqp == Spec => AP!CallComesToEnd
  BY HpcJobsAssumption, AP!CallsEnd, ProofsApply, PTL
=============================================================================

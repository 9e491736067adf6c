------------------------------ MODULE HpcJobs ------------------------------
(***************************************************************************)
(* MQSSClient with is_hpc set: the job interface of JobClient over the     *)
(* AMQP transport of HpcTransport.  The client code is that of JobClient,  *)
(* action for action; where JobClient has an HTTP exchange, the thread is  *)
(* inside get, post or del of its MQSSHPCClient, and the offload listener  *)
(* stands before the job service.  Every client object is used by one      *)
(* thread; JobRequests may be used with several objects.                   *)
(*                                                                         *)
(* The listener acknowledges a request only after it has answered it, and  *)
(* does not fail in between (HpcTransport covers redelivery).              *)
(***************************************************************************)
EXTENDS Integers, Sequences, SequencesExt

CONSTANTS
  Client,        \* MQSSClient objects, each with its MQSSHPCClient
  MaxCalls,      \* bound: calls of one transport object
  MaxRestarts,   \* bound: restarts of the broker
  Job, Uuid, NoUuid, Timeout, IntHalf, MaxSubmits   \* as in JobClient

\* Those of JobClient and of HpcTransport.
ASSUME HpcJobsAssumption ==
  /\ MaxCalls \in Nat
  /\ MaxRestarts \in Nat
  /\ NoUuid \notin Uuid
  /\ Timeout \subseteq Nat
  /\ IntHalf \in Nat \ {0}
  /\ MaxSubmits \in Nat

VARIABLES
  mUuid, subs, acked, pc, call, ask, answer, loop, ret, status, ledger,
                 \* as in JobClient
  conn, wire, method, calls, out, heard, turn, offload, response, carried, restarts,
                 \* as in HpcTransport, whose pc is called wire here
  log            \* what the k-th call of each object asked, and its answer

C == INSTANCE JobClient WITH
       Thread <- Client, latePost <- {}, lateDelete <- {}
T == INSTANCE HpcTransport WITH
       pc <- wire, MaxRedeliver <- 0, redelivered <- 0

jobVars  == <<mUuid, subs, acked, pc, call, ask, answer, loop, ret, status, ledger>>
wireVars == <<conn, wire, method, calls, out, heard, turn,
              offload, response, carried, restarts>>
vars     == <<jobVars, wireVars, log>>

Request == [ask : C!Ask, job : Job, uuid : Uuid \cup {NoUuid}, sub : Nat,
            reply : C!Answer]

TypeOK ==
  /\ C!TypeOK
  /\ T!TypeOK
  /\ log \in [Client -> Seq(Request)]
  /\ \A c \in Client : Len(log[c]) = calls[c]

Init ==
  /\ C!Init
  /\ T!Init
  /\ log = [c \in Client |-> <<>>]

----------------------------------------------------------------------------
(* The client *)

VerbAsAsked(a) == a
Verb(a) == IF a \in {"POST", "DELETE"} THEN a ELSE "GET"

\* If the step ends in front of an exchange, it enters get, post or del.
Enter(c) ==
  \/ /\ pc'[c] = "sent"
     /\ T!Call(c, Verb(ask'[c]))
     /\ log' = [log EXCEPT ![c] = Append(@,
                  [ask |-> ask'[c], job |-> call'[c].job, uuid |-> call'[c].uuid,
                   sub |-> subs'[call'[c].job], reply |-> C!NoAnswer])]
  \/ /\ pc'[c] # "sent"
     /\ UNCHANGED <<wireVars, log>>

\* Exchanges a call can need; it is begun only if the bound leaves room.
Exchanges(k) ==
  IF k.op = "wait" THEN 1 + (C!ToInt(k.timeout) + 1) \div 2 ELSE 1

BeginJobCall(c) ==
  /\ conn[c] \in T!Usable
  /\ C!Begin(c)
  /\ calls[c] + Exchanges(call'[c]) <= MaxCalls
  /\ Enter(c)

\* The client code between two exchanges, or after the last one.
Compute(c) ==
  /\ \/ C!WaitLoop(c)
     \/ C!SubmitReturns(c)
     \/ C!CancelReturns(c)
     \/ C!StatusReturns(c)
     \/ C!PollReturns(c)
     \/ C!ResultReturns(c)
  /\ Enter(c)

\* What get and post return: the message received, or the text of an AMQP
\* error, which is not JSON.  del returns nothing: whatever it received, only
\* a failed send makes it throw.
ReturnedPrevious(c) ==
  IF heard'[c].num = 0 THEN log[c][1].reply ELSE log[c][heard'[c].num].reply
Returned(c) ==
  IF out'[c] = "throw" THEN C!FailedAnswer
  ELSE IF method[c] = "DELETE" \/ heard'[c].num = 0 THEN C!NoAnswer
  ELSE log[c][heard'[c].num].reply

Transport(c) ==
  /\ T!Proceed(c)
  /\ \/ /\ wire'[c] = "idle"
        /\ pc' = [pc EXCEPT ![c] = "answered"]
        /\ answer' = [answer EXCEPT ![c] = Returned(c)]
     \/ /\ wire'[c] # "idle"
        /\ UNCHANGED <<pc, answer>>
  /\ UNCHANGED <<mUuid, subs, acked, call, ask, loop, ret, status, ledger, log>>

----------------------------------------------------------------------------
(* Listener and job service (external) *)

Reply(r, b, u, s) ==
  log' = [log EXCEPT ![r.from][r.num].reply = [body |-> b, uuid |-> u, status |-> s]]

Known(u) == u \in Uuid /\ status[u] # "NONE"

\* The service turns a request down; a DELETE with an error message.
Refuse(r, q) ==
  /\ \E b \in IF q.ask = "DELETE" THEN {"fail"} ELSE C!Refusal \ {"fail"} :
       Reply(r, b, NoUuid, "NONE")
  /\ UNCHANGED <<status, ledger>>

CarryOut(r, q) ==
  \/ /\ q.ask = "POST"
     /\ \E u \in Uuid : C!Create(u, q.job, q.sub) /\ Reply(r, "field", u, "RUNNING")
  \/ /\ q.ask = "DELETE"
     /\ Known(q.uuid)
     /\ status' = C!Cancelled(q.uuid)
     /\ Reply(r, "text", NoUuid, "NONE")
     /\ UNCHANGED ledger
  \/ /\ q.ask = "STATUS"
     /\ Known(q.uuid)
     /\ Reply(r, "field", q.uuid, status[q.uuid])
     /\ UNCHANGED <<status, ledger>>
  \/ /\ q.ask = "RESULT"
     /\ q.uuid \in Uuid
     /\ status[q.uuid] = "COMPLETED"
     /\ \E b \in {"field", "badresult"} : Reply(r, b, q.uuid, "COMPLETED")
     /\ UNCHANGED <<status, ledger>>

Serve ==
  /\ T!Serve
  /\ LET r == Head(offload)
         q == log[r.from][r.num]
     IN CarryOut(r, q) \/ Refuse(r, q)
  /\ UNCHANGED <<mUuid, subs, acked, pc, call, ask, answer, loop, ret>>

JobEnds(u) ==
  /\ C!JobEnds(u)
  /\ UNCHANGED <<wireVars, log>>

\* Objects come and go; a connection is lost, or all of them with the broker.
Connection ==
  /\ \/ \E c \in Client :
          \/ T!Construct(c)
          \/ pc[c] = "idle" /\ T!Destroy(c)
          \/ T!Disconnect(c)
     \/ T!BrokerRestart
  /\ UNCHANGED <<jobVars, log>>

----------------------------------------------------------------------------
(* The specification *)

Proceed(c) == Compute(c) \/ Transport(c)

Next ==
  \/ \E c \in Client : BeginJobCall(c) \/ Proceed(c)
  \/ Serve
  \/ \E u \in Uuid : JobEnds(u)
  \/ Connection

Spec == Init /\ [][Next]_vars

\* As in HpcTransport: the library returns from every call but the waits on a
\* connection that is up, and the listener serves its queue.
FairSpec ==
  /\ Spec
  /\ \A c \in Client : WF_vars(Proceed(c))
  /\ WF_vars(Serve)

----------------------------------------------------------------------------
(* Properties *)

\* A cancellation that returned normally, on a connection that is still up, got
\* the answer to its very request; unless that was an error message, the job has
\* ended.  (del drops the answer: lost connections and refusals look the same.)
CancelWasAnswered ==
  \A c \in Client :
    (ret[c].val = "done" /\ conn[c] = "open") =>
      /\ heard[c] = [from |-> c, num |-> calls[c]]
      /\ \/ log[c][calls[c]].reply.body = "fail"
         \/ call[c].uuid \in Uuid /\ status[call[c].uuid] \in C!Terminal

\* The object waits on a live connection for what nobody will send: the send of a
\* get or post failed, and its result was not looked at; or the broker refused
\* the response queue, which nobody looked at either, and closed the channel.
Stranded(c) ==
  /\ wire[c] = "receive"
  /\ \/ conn[c] = "refused"
     \/ /\ conn[c] = "open"
        /\ method[c] # "DELETE"
        /\ response[c] = <<>>
        /\ ~Contains(offload, [from |-> c, num |-> calls[c]])

\* Every job call returns, a wait with all its polls included, unless it gets
\* stranded in one of these two ways; a cancellation only in the second.
JobCallReturns ==
  \A c \in Client : pc[c] # "idle" ~> pc[c] = "idle" \/ Stranded(c)

----------------------------------------------------------------------------
(* Over AMQP the job interface does what it does over HTTP *)

\* The answer to the exchange in progress is known once the listener has
\* carried the request out, though the client may never receive it.
AbstractAnswered(c) ==
  pc[c] = "answered" \/ (pc[c] = "sent" /\ carried[c][calls[c]] > 0)

AbstractAnswer(c) ==
  IF ~AbstractAnswered(c) THEN answer[c]
  ELSE IF pc[c] = "answered" /\ heard[c].num = 0 THEN C!FailedAnswer
  ELSE log[c][calls[c]].reply

\* A cancellation that came back without the service's consent stands for one
\* that threw.
AbstractReturn(c) ==
  IF /\ ret[c].val = "done"
     /\ heard[c].num = 0 \/ log[c][calls[c]].reply.body = "fail"
  THEN [ret[c] EXCEPT !.val = "throw"]
  ELSE ret[c]

\* Submissions whose caller came back without an answer; one that got lost is
\* late for ever.
AbstractLatePost ==
  UNION {{[job |-> log[c][k].job, sub |-> log[c][k].sub] :
            k \in {i \in 1..calls[c] :
                     /\ log[c][i].ask = "POST"
                     /\ carried[c][i] = 0
                     /\ pc[c] # "sent" \/ calls[c] # i}} : c \in Client}

AbstractPcs     == [c \in Client |-> IF AbstractAnswered(c) THEN "answered" ELSE pc[c]]
AbstractAnswers == [c \in Client |-> AbstractAnswer(c)]
AbstractReturns == [c \in Client |-> AbstractReturn(c)]

\* A cancellation carried out late is, to JobClient, a job that ends.
Abstract == INSTANCE JobClient WITH
  Thread     <- Client,
  pc         <- AbstractPcs,
  answer     <- AbstractAnswers,
  ret        <- AbstractReturns,
  latePost   <- AbstractLatePost,
  lateDelete <- {}

\* MQSSClient over AMQP implements JobClient, cancellations that came back
\* without consent read as ones that threw: what is proved of JobClient (one
\* job per submission, the uuid of the last one acknowledged, results of the
\* caller's own jobs) holds over AMQP too.
ImplementsJobClient == Abstract!Spec

\* The transport under the client still answers every call with its own answer.
ImplementsTransport == T!ImplementsTransport
=============================================================================

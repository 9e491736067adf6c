----------------------------- MODULE JobClient -----------------------------
(***************************************************************************)
(* The job interface of MQSSClient (src/client.cpp) over the REST          *)
(* transport (src/clients/rest_client.cpp): submitJob, cancelJob,          *)
(* getJobStatus, getJobResult and its blocking form waitForJobResult.      *)
(*                                                                         *)
(* Application threads call the client on JobRequest objects.  Every call  *)
(* is one or more HTTP exchanges with the job service, which is external.  *)
(* An exchange can fail before the service sees the request, or after: a   *)
(* POST or DELETE whose caller gave up may still be carried out later.     *)
(***************************************************************************)
EXTENDS Integers

CONSTANTS
  Thread,      \* threads of the application
  Job,         \* JobRequest objects of the application
  Uuid,        \* identifiers the job service can issue
  NoUuid,      \* the empty mUuid of a JobRequest never submitted
  Timeout,     \* values passed as getJobResult's size_t timeout
  IntHalf,     \* 2^31 for the code's int: int is -IntHalf .. IntHalf - 1
  MaxSubmits   \* bound: calls of submitJob on one JobRequest

ASSUME ConstantsAssumption ==
  /\ NoUuid \notin Uuid
  /\ Timeout \subseteq Nat
  /\ IntHalf \in Nat \ {0}
  /\ MaxSubmits \in Nat

VARIABLES
  mUuid,       \* JobRequest::mUuid
  pc,          \* where each thread is in its call
  call,        \* the call each thread makes, or made last
  ask,         \* the request of the exchange in progress, or of the last one
  answer,      \* what the last exchange brought back
  loop,        \* waitForJobResult: time left, time slept, status checks made
  ret,         \* what the last call returned
  status,      \* job service: state of each job
  ledger,      \* job service: which submission created which job
  latePost,    \* POSTs given up by their caller, still on the way
  lateDelete,  \* DELETEs given up by their caller, still on the way
  subs,        \* history: calls of submitJob on each JobRequest
  acked        \* history: the last of them that returned a uuid

clientVars  == <<mUuid, subs, acked>>
threadVars  == <<pc, call, ask, answer, loop, ret>>
serviceVars == <<status, ledger, latePost, lateDelete>>
vars == <<clientVars, threadVars, serviceVars>>

----------------------------------------------------------------------------
(* Values *)

Status   == {"NONE", "RUNNING", "COMPLETED", "FAILED", "CANCELLED"}
Terminal == {"COMPLETED", "FAILED", "CANCELLED"}

\* What an exchange brings back, as far as the code tells answers apart:
\*   fail       curl error or a status outside 2xx: request() throws
\*   text       2xx, body empty or not JSON: json::accept is false
\*   nofield    JSON without the member the caller looks for
\*   badfield   the member has another JSON type than the caller expects
\*   badresult  the result member is a string that is not itself JSON
\*   field      the member, as expected
Body   == {"fail", "text", "nofield", "badfield", "badresult", "field"}
Answer == [body : Body, uuid : Uuid \cup {NoUuid}, status : Status]

\* The answers with which the service turns any request down.
Refusal == {"fail", "text", "nofield", "badfield"}

Op       == {"none", "submit", "cancel", "status", "result", "wait"}
Ask      == {"POST", "DELETE", "STATUS", "RESULT"}
Call     == [op : Op, job : Job, uuid : Uuid \cup {NoUuid}, timeout : Nat]
Loop     == [left : Int, slept : Int, polls : Nat]
Return   == [val : {"pending", "uuid", "nullopt", "throw", "done", "result",
                    "hollow", "null", ""} \cup Status,
             got : Uuid \cup {NoUuid}]

TypeOK ==
  /\ mUuid \in [Job -> Uuid \cup {NoUuid}]
  /\ pc \in [Thread -> {"idle", "loop", "sent", "answered"}]
  /\ call \in [Thread -> Call]
  /\ ask \in [Thread -> Ask]
  /\ answer \in [Thread -> Answer]
  /\ loop \in [Thread -> Loop]
  /\ ret \in [Thread -> Return]
  /\ status \in [Uuid -> Status]
  /\ ledger \subseteq [uuid : Uuid, job : Job, sub : Nat]
  /\ latePost \subseteq [job : Job, sub : Nat]
  /\ lateDelete \subseteq Uuid
  /\ subs \in [Job -> Nat]
  /\ acked \in [Job -> Nat]

----------------------------------------------------------------------------
(* What the code computes from its arguments and from an answer *)

\* getJobResult hands its size_t timeout to waitForJobResult's int parameter.
ToInt(n) ==
  LET m == n % (2 * IntHalf) IN IF m < IntHalf THEN m ELSE m - 2 * IntHalf

PollSeconds == 2

SleepSecondsWholePoll(left) == PollSeconds
SleepSecondsRoundedDown(left) == IF left < PollSeconds THEN 0 ELSE PollSeconds
SleepSeconds(left) == IF left < PollSeconds THEN left ELSE PollSeconds

\* submitJob on what post returned; a failed exchange is the empty string.
SubmitValue(b) ==
  IF b = "field" THEN "uuid" ELSE IF b = "badfield" THEN "throw" ELSE "nullopt"

\* cancelJob: del lets the exception of request() through.
DelValueSwallowed(b) == "done"
DelValue(b) == IF b = "fail" THEN "throw" ELSE "done"

StatusValueRaw(a) == IF a.body = "field" THEN a.status ELSE a.body
StatusValue(a) == IF a.body = "field" THEN a.status ELSE ""

\* getJobResult without wait, and the JobResult constructor: .at throws on a
\* missing member, and a result that is not JSON leaves an empty JobResult.
ResultValue(b) ==
  IF b = "field" THEN "result"
  ELSE IF b = "badresult" THEN "hollow"
  ELSE IF b \in {"nofield", "badfield"} THEN "throw"
  ELSE "null"

StopsWaitingUnlessDone(s) == s # "COMPLETED"
StopsWaiting(s) == s \in {"FAILED", "CANCELLED", ""}

SetUuidOfAll(j, u) == [k \in Job |-> u]
SetUuidOnce(j, u) == [mUuid EXCEPT ![j] = IF @ = NoUuid THEN u ELSE @]
SetUuid(j, u) == [mUuid EXCEPT ![j] = u]

----------------------------------------------------------------------------
(* Init *)

NoAnswer == [body |-> "text", uuid |-> NoUuid, status |-> "NONE"]
NoLoop   == [left |-> 0, slept |-> 0, polls |-> 0]
Pending  == [val |-> "pending", got |-> NoUuid]

Init ==
  /\ mUuid = [j \in Job |-> NoUuid]
  /\ pc = [t \in Thread |-> "idle"]
  /\ call \in [Thread -> [op : {"none"}, job : Job, uuid : {NoUuid}, timeout : {0}]]
  /\ ask = [t \in Thread |-> "STATUS"]
  /\ answer = [t \in Thread |-> NoAnswer]
  /\ loop = [t \in Thread |-> NoLoop]
  /\ ret = [t \in Thread |-> Pending]
  /\ status = [u \in Uuid |-> "NONE"]
  /\ ledger = {}
  /\ latePost = {}
  /\ lateDelete = {}
  /\ subs = [j \in Job |-> 0]
  /\ acked = [j \in Job |-> 0]

----------------------------------------------------------------------------
(* The calls *)

Using(s, j) == pc[s] # "idle" /\ call[s].job = j

\* A JobRequest is not synchronised: submitJob writes mUuid, so no other call
\* on the same object may overlap it; calls that only read may overlap.
MayRead(t, j) ==
  /\ pc[t] = "idle"
  /\ \A s \in Thread : Using(s, j) => call[s].op # "submit"

Start(t, o, j, n) ==
  /\ call' = [call EXCEPT ![t] = [op |-> o, job |-> j, uuid |-> mUuid[j],
                                  timeout |-> n]]
  /\ ret' = [ret EXCEPT ![t] = Pending]

Send(t, k) ==
  /\ pc' = [pc EXCEPT ![t] = "sent"]
  /\ ask' = [ask EXCEPT ![t] = k]

\* The call returns and its locals are gone.
Finish(t, v, u) ==
  /\ pc' = [pc EXCEPT ![t] = "idle"]
  /\ ret' = [ret EXCEPT ![t] = [val |-> v, got |-> u]]
  /\ answer' = [answer EXCEPT ![t] = NoAnswer]
  /\ loop' = [loop EXCEPT ![t] = NoLoop]

SubmitJob(t, j) ==
  /\ pc[t] = "idle"
  /\ \A s \in Thread : ~Using(s, j)
  /\ subs[j] < MaxSubmits
  /\ subs' = [subs EXCEPT ![j] = @ + 1]
  /\ Start(t, "submit", j, 0)
  /\ Send(t, "POST")
  /\ UNCHANGED <<mUuid, acked, answer, loop, serviceVars>>

CancelJob(t, j) ==
  /\ MayRead(t, j)
  /\ Start(t, "cancel", j, 0)
  /\ Send(t, "DELETE")
  /\ UNCHANGED <<clientVars, answer, loop, serviceVars>>

GetJobStatus(t, j) ==
  /\ MayRead(t, j)
  /\ Start(t, "status", j, 0)
  /\ Send(t, "STATUS")
  /\ UNCHANGED <<clientVars, answer, loop, serviceVars>>

\* getJobResult(job, false)
GetJobResult(t, j) ==
  /\ MayRead(t, j)
  /\ Start(t, "result", j, 0)
  /\ Send(t, "RESULT")
  /\ UNCHANGED <<clientVars, answer, loop, serviceVars>>

\* getJobResult(job, true, n)
WaitForJobResult(t, j, n) ==
  /\ MayRead(t, j)
  /\ Start(t, "wait", j, n)
  /\ pc' = [pc EXCEPT ![t] = "loop"]
  /\ loop' = [loop EXCEPT ![t] = [left |-> ToInt(n), slept |-> 0, polls |-> 0]]
  /\ UNCHANGED <<clientVars, ask, answer, serviceVars>>

\* The head of waitForJobResult's while loop.
WaitLoop(t) ==
  /\ pc[t] = "loop"
  /\ \/ /\ loop[t].left > 0
        /\ loop' = [loop EXCEPT ![t].polls = @ + 1]
        /\ Send(t, "STATUS")
        /\ UNCHANGED <<answer, ret>>
     \/ /\ loop[t].left <= 0
        /\ Finish(t, "null", NoUuid)
        /\ UNCHANGED ask
  /\ UNCHANGED <<clientVars, call, serviceVars>>

----------------------------------------------------------------------------
(* The exchange: MQSSRestClient::request *)

Answered(t, b, u, s) ==
  /\ pc' = [pc EXCEPT ![t] = "answered"]
  /\ answer' = [answer EXCEPT ![t] = [body |-> b, uuid |-> u, status |-> s]]

\* What get and post see of a failed exchange: no part of a body.
FailedAnswer == [NoAnswer EXCEPT !.body = "fail"]

\* curl_easy_perform fails: no connection within 3s, no complete answer within
\* 5s, or the answer is lost on the way back.  A request the service has not
\* seen yet is either lost or still on its way.
RequestResent(t) ==
  /\ pc[t] = "sent" /\ ask[t] = "POST"
  /\ latePost' = latePost \cup
                   {[job |-> call[t].job, sub |-> subs[call[t].job]]}
  /\ UNCHANGED <<clientVars, threadVars, status, ledger, lateDelete>>

RequestNeverFails(t) == FALSE

RequestFails(t) ==
  /\ \/ /\ pc[t] = "answered"
        /\ answer[t].body # "fail"
        /\ UNCHANGED <<latePost, lateDelete>>
     \/ /\ pc[t] = "sent"
        /\ \/ UNCHANGED <<latePost, lateDelete>>
           \/ /\ ask[t] = "POST"
              /\ latePost' = latePost \cup
                               {[job |-> call[t].job, sub |-> subs[call[t].job]]}
              /\ UNCHANGED lateDelete
           \/ /\ ask[t] = "DELETE"
              /\ call[t].uuid \in Uuid
              /\ lateDelete' = lateDelete \cup {call[t].uuid}
              /\ UNCHANGED latePost
  /\ pc' = [pc EXCEPT ![t] = "answered"]
  /\ answer' = [answer EXCEPT ![t] = FailedAnswer]
  /\ UNCHANGED <<clientVars, call, ask, loop, ret, status, ledger>>

----------------------------------------------------------------------------
(* The job service (external) *)

Create(u, j, n) ==
  /\ status[u] = "NONE"
  /\ status' = [status EXCEPT ![u] = "RUNNING"]
  /\ ledger' = ledger \cup {[uuid |-> u, job |-> j, sub |-> n]}

Cancelled(u) ==
  [status EXCEPT ![u] = IF @ = "RUNNING" THEN "CANCELLED" ELSE @]

ServicePost(t) ==
  /\ pc[t] = "sent"
  /\ ask[t] = "POST"
  /\ \/ \E u \in Uuid :
          /\ Create(u, call[t].job, subs[call[t].job])
          /\ Answered(t, "field", u, "RUNNING")
     \/ \E b \in Refusal :
          /\ Answered(t, b, NoUuid, "NONE")
          /\ UNCHANGED <<status, ledger>>
  /\ UNCHANGED <<clientVars, call, ask, loop, ret, latePost, lateDelete>>

ServiceDelete(t) ==
  /\ pc[t] = "sent"
  /\ ask[t] = "DELETE"
  /\ \/ /\ call[t].uuid \in Uuid
        /\ status[call[t].uuid] # "NONE"
        /\ status' = Cancelled(call[t].uuid)
        /\ Answered(t, "text", NoUuid, "NONE")
     \/ /\ Answered(t, "fail", NoUuid, "NONE")
        /\ UNCHANGED status
  /\ UNCHANGED <<clientVars, call, ask, loop, ret, ledger, latePost, lateDelete>>

ServiceStatus(t) ==
  /\ pc[t] = "sent"
  /\ ask[t] = "STATUS"
  /\ \/ /\ call[t].uuid \in Uuid
        /\ status[call[t].uuid] # "NONE"
        /\ Answered(t, "field", call[t].uuid, status[call[t].uuid])
     \/ \E b \in Refusal : Answered(t, b, NoUuid, "NONE")
  /\ UNCHANGED <<clientVars, call, ask, loop, ret, serviceVars>>

ServiceResult(t) ==
  /\ pc[t] = "sent"
  /\ ask[t] = "RESULT"
  /\ \/ /\ call[t].uuid \in Uuid
        /\ status[call[t].uuid] = "COMPLETED"
        /\ \E b \in {"field", "badresult"} :
             Answered(t, b, call[t].uuid, "COMPLETED")
     \/ \E b \in Refusal : Answered(t, b, NoUuid, "NONE")
  /\ UNCHANGED <<clientVars, call, ask, loop, ret, serviceVars>>

\* A request whose caller has given up arrives, or is lost for good.
LatePost(r) ==
  /\ r \in latePost
  /\ latePost' = latePost \ {r}
  /\ \/ \E u \in Uuid : Create(u, r.job, r.sub)
     \/ UNCHANGED <<status, ledger>>
  /\ UNCHANGED <<clientVars, threadVars, lateDelete>>

LateDelete(u) ==
  /\ u \in lateDelete
  /\ lateDelete' = lateDelete \ {u}
  /\ \/ status' = Cancelled(u)
     \/ UNCHANGED status
  /\ UNCHANGED <<clientVars, threadVars, ledger, latePost>>

JobEnds(u) ==
  /\ status[u] = "RUNNING"
  /\ \E s \in Terminal : status' = [status EXCEPT ![u] = s]
  /\ UNCHANGED <<clientVars, threadVars, ledger, latePost, lateDelete>>

----------------------------------------------------------------------------
(* The returns *)

SubmitReturns(t) ==
  LET v == SubmitValue(answer[t].body)
      j == call[t].job
  IN /\ pc[t] = "answered"
     /\ ask[t] = "POST"
     /\ Finish(t, v, answer[t].uuid)
     /\ \/ /\ v = "uuid"
           /\ mUuid' = SetUuid(j, answer[t].uuid)
           /\ acked' = [acked EXCEPT ![j] = subs[j]]
        \/ /\ v # "uuid"
           /\ UNCHANGED <<mUuid, acked>>
     /\ UNCHANGED <<subs, call, ask, serviceVars>>

CancelReturns(t) ==
  /\ pc[t] = "answered"
  /\ ask[t] = "DELETE"
  /\ Finish(t, DelValue(answer[t].body), NoUuid)
  /\ UNCHANGED <<clientVars, call, ask, serviceVars>>

StatusReturns(t) ==
  /\ pc[t] = "answered"
  /\ ask[t] = "STATUS"
  /\ call[t].op = "status"
  /\ Finish(t, StatusValue(answer[t]), NoUuid)
  /\ UNCHANGED <<clientVars, call, ask, serviceVars>>

\* The body of the while loop once getJobStatus is back; the sleep is part of
\* the step, and any number of steps of others fit before the next check.
PollReturns(t) ==
  LET s   == StatusValue(answer[t])
      nap == SleepSeconds(loop[t].left)
  IN /\ pc[t] = "answered"
     /\ ask[t] = "STATUS"
     /\ call[t].op = "wait"
     /\ \/ /\ s = "COMPLETED"
           /\ Send(t, "RESULT")
           /\ UNCHANGED <<answer, loop, ret>>
        \/ /\ StopsWaiting(s)
           /\ Finish(t, "null", NoUuid)
           /\ UNCHANGED ask
        \/ /\ s # "COMPLETED"
           /\ ~StopsWaiting(s)
           /\ pc' = [pc EXCEPT ![t] = "loop"]
           /\ loop' = [loop EXCEPT ![t] = [left |-> @.left - nap,
                                           slept |-> @.slept + nap,
                                           polls |-> @.polls]]
           /\ UNCHANGED <<answer, ask, ret>>
     /\ UNCHANGED <<clientVars, call, serviceVars>>

ResultReturns(t) ==
  /\ pc[t] = "answered"
  /\ ask[t] = "RESULT"
  /\ Finish(t, ResultValue(answer[t].body), answer[t].uuid)
  /\ UNCHANGED <<clientVars, call, ask, serviceVars>>

----------------------------------------------------------------------------
(* The specification *)

Begin(t) ==
  \E j \in Job :
    \/ SubmitJob(t, j)
    \/ CancelJob(t, j)
    \/ GetJobStatus(t, j)
    \/ GetJobResult(t, j)
    \/ \E n \in Timeout : WaitForJobResult(t, j, n)

\* What a thread does inside a call, whatever the service does.
Proceed(t) ==
  \/ WaitLoop(t)
  \/ RequestFails(t)
  \/ SubmitReturns(t)
  \/ CancelReturns(t)
  \/ StatusReturns(t)
  \/ PollReturns(t)
  \/ ResultReturns(t)

Service ==
  \/ \E t \in Thread :
       ServicePost(t) \/ ServiceDelete(t) \/ ServiceStatus(t) \/ ServiceResult(t)
  \/ \E r \in latePost : LatePost(r)
  \/ \E u \in Uuid : LateDelete(u) \/ JobEnds(u)

Next == (\E t \in Thread : Begin(t) \/ Proceed(t)) \/ Service

Spec == Init /\ [][Next]_vars

\* Every exchange ends because of CURLOPT_TIMEOUT_MS, and a thread inside a
\* call runs on.  Nothing is assumed of the job service.
FairSpec == Spec /\ \A t \in Thread : WF_vars(Proceed(t))

----------------------------------------------------------------------------
(* Properties *)

Returns(t) == pc[t] # "idle" /\ pc'[t] = "idle"

\* A JobRequest carries the uuid of the last submission that was acknowledged
\* to it, never that of an earlier one or of one that timed out and was
\* carried out late (submitJob, setUuid).
UuidOfLastAcknowledged ==
  \A j \in Job :
    /\ mUuid[j] = NoUuid <=> acked[j] = 0
    /\ mUuid[j] # NoUuid =>
         [uuid |-> mUuid[j], job |-> j, sub |-> acked[j]] \in ledger

\* One call of submitJob creates at most one job, even if its POST timed out
\* and is carried out later: neither post nor request() ever repeats it.
OneJobPerSubmit ==
  \A a, b \in ledger :
    (a.job = b.job /\ a.sub = b.sub) \/ a.uuid = b.uuid => a = b

\* A result handed to a caller, by getJobResult or at the end of a wait, is the
\* result of a completed job that was submitted through the JobRequest asked
\* about, under the uuid it had when the call was made.
ResultIsOwn ==
  \A t \in Thread :
    ret[t].val = "result" =>
      /\ ret[t].got = call[t].uuid
      /\ ret[t].got \in Uuid
      /\ status[ret[t].got] = "COMPLETED"
      /\ \E a \in ledger : a.uuid = ret[t].got /\ a.job = call[t].job

\* cancelJob returns normally only if the job no longer runs (del throws on
\* every failure of the exchange).
CancelOkMeansTerminal ==
  \A t \in Thread :
    ret[t].val = "done" =>
      call[t].uuid \in Uuid /\ status[call[t].uuid] \in Terminal

\* A wait never sleeps longer than its timeout, as the int it became; time left
\* and time slept always add up to it, and the service has been asked once
\* for every PollSeconds begun (waitForJobResult's sleepSeconds and timeout).
WaitBudget ==
  \A t \in Thread :
    (pc[t] # "idle" /\ call[t].op = "wait") =>
      /\ loop[t].left + loop[t].slept = ToInt(call[t].timeout)
      /\ loop[t].slept >= 0
      /\ loop[t].slept = 0 \/ loop[t].left >= 0
      /\ loop[t].left <= 0 => pc[t] = "loop"
      /\ loop[t].polls = (loop[t].slept + 1) \div 2 + (IF pc[t] = "loop" THEN 0 ELSE 1)

\* A wait that gives up before its time on an answer it understood has a job
\* that has failed or was cancelled, or a result it could not read; it never
\* gives up on a job seen running (waitForJobResult's early return).
EarlyNullIsTrue ==
  [][\A t \in Thread :
       (Returns(t) /\ call[t].op = "wait" /\ ret'[t].val = "null"
          /\ ask[t] = "STATUS" /\ answer[t].body = "field" /\ loop[t].left > 0)
         => status[call[t].uuid] \in {"FAILED", "CANCELLED"}]_vars

\* Every call returns, however slow or silent the service is: each exchange
\* has its own timeout and the polling loop consumes its budget.
CallReturns == \A t \in Thread : pc[t] # "idle" ~> pc[t] = "idle"

\* Steps to the end of a call, at most: the three of an exchange (the answer, its
\* loss, the return), and five for each second a wait has left.
ExchangeSteps(t) ==
  IF pc[t] = "sent" THEN 3 ELSE IF answer[t].body # "fail" THEN 2 ELSE 1
StepsLeft(t) ==
  IF pc[t] = "idle" THEN 0
  ELSE IF pc[t] = "loop" THEN 1 + IF loop[t].left > 0 THEN 5 * loop[t].left ELSE 0
  ELSE IF call[t].op = "wait" /\ ask[t] = "STATUS"
  THEN 5 * loop[t].left - 3 + ExchangeSteps(t)
  ELSE ExchangeSteps(t)

\* Whatever happens to a call brings its end nearer, and each step of its own
\* thread does: no answer, and no order of answers, makes a wait poll for longer
\* than its timeout or any call repeat a request.
CallComesToEnd ==
  [][\A t \in Thread :
       pc[t] # "idle" =>
         \/ StepsLeft(t)' < StepsLeft(t)
         \/ ~Proceed(t) /\ UNCHANGED <<pc[t], call[t], ask[t], answer[t], loop[t]>>]_vars

----------------------------------------------------------------------------
(* What documentation and tests say of the code *)

\* docs/examples.md:225: a null from the non-blocking getJobResult means
\* "Job still running, check again later".
NullMeansStillRunning ==
  [][\A t \in Thread :
       (Returns(t) /\ call[t].op = "result" /\ ret'[t].val = "null"
          /\ call[t].uuid \in Uuid)
         => status[call[t].uuid] = "RUNNING"]_vars

\* docs/examples.md:291: a null from the blocking getJobResult means
\* "Job failed or timed out".
NullMeansFailedOrTimedOut ==
  [][\A t \in Thread :
       (Returns(t) /\ call[t].op = "wait" /\ ret'[t].val = "null"
          /\ call[t].uuid \in Uuid)
         => \/ status[call[t].uuid] \in {"FAILED", "CANCELLED"}
            \/ loop[t].slept >= call[t].timeout]_vars

\* docs/examples.md:48: "The timeout counts time spent sleeping".  A wait that
\* comes to the end of its loop has slept the timeout it was given.
TimeoutIsSlept ==
  [][\A t \in Thread :
       (Returns(t) /\ call[t].op = "wait" /\ pc[t] = "loop")
         => loop[t].slept = call[t].timeout]_vars
=============================================================================

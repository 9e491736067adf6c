-------------------------- MODULE JobClientProofs --------------------------
(***************************************************************************)
(* What JobClient guarantees for any number of threads, JobRequests, uuids *)
(* and submissions, any timeouts and any width of int.                     *)
(***************************************************************************)
EXTENDS JobClient, TLAPS

----------------------------------------------------------------------------
(* Types of the values the actions build *)

\* The narrowing of a timeout yields an integer.
LEMMA ToIntType == ASSUME NEW n \in Nat PROVE ToInt(n) \in Int
BY ConstantsAssumption DEF ToInt

\* The fields of a thread's records have their types.
LEMMA FieldTypes ==
  ASSUME TypeOK, NEW t \in Thread
  PROVE  /\ call[t].op \in Op
         /\ call[t].job \in Job
         /\ call[t].uuid \in Uuid \cup {NoUuid}
         /\ call[t].timeout \in Nat
         /\ answer[t].body \in Body
         /\ answer[t].uuid \in Uuid \cup {NoUuid}
         /\ answer[t].status \in Status
         /\ loop[t].left \in Int
         /\ loop[t].slept \in Int
         /\ loop[t].polls \in Nat
<1>1. call[t] \in Call /\ answer[t] \in Answer /\ loop[t] \in Loop
  BY DEF TypeOK
<1> QED
  BY <1>1 DEF Call, Answer, Loop

\* The empty records are well typed.
LEMMA EmptyTypes ==
  /\ NoAnswer \in Answer
  /\ FailedAnswer \in Answer
  /\ NoLoop \in Loop
  /\ Pending \in Return
BY DEF NoAnswer, FailedAnswer, Answer, Body, Status, NoLoop, Loop, Pending, Return

\* Beginning a call keeps call and ret well typed.
LEMMA StartTypes ==
  ASSUME TypeOK, NEW t \in Thread, NEW o \in Op, NEW j \in Job, NEW n \in Nat,
         Start(t, o, j, n)
  PROVE  call' \in [Thread -> Call] /\ ret' \in [Thread -> Return]
<1>1. [op |-> o, job |-> j, uuid |-> mUuid[j], timeout |-> n] \in Call
  BY DEF TypeOK, Call
<1> QED
  BY <1>1, EmptyTypes DEF TypeOK, Start

\* Returning from a call keeps the thread's state well typed.
LEMMA FinishTypes ==
  ASSUME TypeOK, NEW t \in Thread, NEW v, NEW u \in Uuid \cup {NoUuid},
         v \in {"uuid", "nullopt", "throw", "done", "result", "hollow", "null", ""}
                 \cup Status,
         Finish(t, v, u)
  PROVE  /\ pc' \in [Thread -> {"idle", "loop", "sent", "answered"}]
         /\ ret' \in [Thread -> Return]
         /\ answer' \in [Thread -> Answer]
         /\ loop' \in [Thread -> Loop]
<1>1. [val |-> v, got |-> u] \in Return
  BY DEF Return
<1> QED
  BY <1>1, EmptyTypes DEF TypeOK, Finish

\* An answer of the service keeps the thread's state well typed.
LEMMA AnsweredTypes ==
  ASSUME TypeOK, NEW t \in Thread, NEW b \in Body,
         NEW u \in Uuid \cup {NoUuid}, NEW s \in Status,
         Answered(t, b, u, s)
  PROVE  /\ pc' \in [Thread -> {"idle", "loop", "sent", "answered"}]
         /\ answer' \in [Thread -> Answer]
<1>1. [body |-> b, uuid |-> u, status |-> s] \in Answer
  BY DEF Answer
<1> QED
  BY <1>1 DEF TypeOK, Answered

\* A new job keeps the service's state well typed.
LEMMA CreateTypes ==
  ASSUME TypeOK, NEW u \in Uuid, NEW j \in Job, NEW n \in Nat, Create(u, j, n)
  PROVE  /\ status' \in [Uuid -> Status]
         /\ ledger' \subseteq [uuid : Uuid, job : Job, sub : Nat]
BY DEF TypeOK, Create, Status

----------------------------------------------------------------------------
(* Type correctness *)

\* The initial state is well typed.
LEMMA InitTypes == Init => TypeOK
<1> SUFFICES ASSUME Init PROVE TypeOK
  OBVIOUS
<1>1. call \in [Thread -> Call]
  BY DEF Init, Call, Op
<1> QED
  BY <1>1, EmptyTypes DEF Init, TypeOK, Ask, Status

\* Every step keeps the state well typed.
LEMMA TypeStep == TypeOK /\ [Next]_vars => TypeOK'
<1> USE ConstantsAssumption
<1> SUFFICES ASSUME TypeOK, [Next]_vars PROVE TypeOK'
  OBVIOUS
<1> USE FieldTypes, EmptyTypes DEF vars, clientVars, threadVars, serviceVars
<1>1. ASSUME NEW t \in Thread, NEW j \in Job, SubmitJob(t, j) PROVE TypeOK'
  <2>1. Start(t, "submit", j, 0) /\ "submit" \in Op
    BY <1>1 DEF SubmitJob, Op
  <2> QED
    BY <1>1, <2>1, StartTypes DEF TypeOK, SubmitJob, Send, Ask
<1>2. ASSUME NEW t \in Thread, NEW j \in Job, CancelJob(t, j) PROVE TypeOK'
  <2>1. Start(t, "cancel", j, 0) /\ "cancel" \in Op
    BY <1>2 DEF CancelJob, Op
  <2> QED
    BY <1>2, <2>1, StartTypes DEF TypeOK, CancelJob, Send, Ask
<1>3. ASSUME NEW t \in Thread, NEW j \in Job, GetJobStatus(t, j) PROVE TypeOK'
  <2>1. Start(t, "status", j, 0) /\ "status" \in Op
    BY <1>3 DEF GetJobStatus, Op
  <2> QED
    BY <1>3, <2>1, StartTypes DEF TypeOK, GetJobStatus, Send, Ask
<1>4. ASSUME NEW t \in Thread, NEW j \in Job, GetJobResult(t, j) PROVE TypeOK'
  <2>1. Start(t, "result", j, 0) /\ "result" \in Op
    BY <1>4 DEF GetJobResult, Op
  <2> QED
    BY <1>4, <2>1, StartTypes DEF TypeOK, GetJobResult, Send, Ask
<1>5. ASSUME NEW t \in Thread, NEW j \in Job, NEW k \in Timeout,
             WaitForJobResult(t, j, k)
      PROVE TypeOK'
  <2>1. k \in Nat /\ Start(t, "wait", j, k) /\ "wait" \in Op
    BY <1>5 DEF WaitForJobResult, Op
  <2>2. [left |-> ToInt(k), slept |-> 0, polls |-> 0] \in Loop
    BY <2>1, ToIntType DEF Loop
  <2> QED
    BY <1>5, <2>1, <2>2, StartTypes DEF TypeOK, WaitForJobResult
<1>6. ASSUME NEW t \in Thread, WaitLoop(t) PROVE TypeOK'
  <2>1. CASE loop[t].left > 0
    <3>0. loop[t] \in Loop
      BY DEF TypeOK
    <3>1. [loop[t] EXCEPT !.polls = loop[t].polls + 1] \in Loop
      BY <3>0 DEF Loop
    <3>2. [loop EXCEPT ![t].polls = @ + 1] \in [Thread -> Loop]
      BY <3>1 DEF TypeOK
    <3>3. ~(loop[t].left <= 0)
      BY <2>1
    <3> QED
      BY <1>6, <3>2, <3>3 DEF TypeOK, WaitLoop, Send, Ask
  <2>2. CASE ~(loop[t].left > 0)
    <3>1. Finish(t, "null", NoUuid)
      BY <1>6, <2>2 DEF WaitLoop
    <3> QED
      BY <1>6, <2>2, <3>1, FinishTypes DEF TypeOK, WaitLoop
  <2> QED
    BY <2>1, <2>2
<1>7. ASSUME NEW t \in Thread, RequestFails(t) PROVE TypeOK'
  BY <1>7 DEF TypeOK, RequestFails
<1>8. ASSUME NEW t \in Thread, SubmitReturns(t) PROVE TypeOK'
  <2>1. /\ Finish(t, SubmitValue(answer[t].body), answer[t].uuid)
        /\ SubmitValue(answer[t].body) \in {"uuid", "nullopt", "throw", "done", "result",
                          "hollow", "null", ""} \cup Status
    BY <1>8 DEF SubmitReturns, SubmitValue
  <2> QED
    BY <1>8, <2>1, FinishTypes DEF TypeOK, SubmitReturns, SetUuid
<1>9. ASSUME NEW t \in Thread, CancelReturns(t) PROVE TypeOK'
  <2>1. /\ Finish(t, DelValue(answer[t].body), NoUuid)
        /\ DelValue(answer[t].body) \in {"uuid", "nullopt", "throw", "done", "result",
                          "hollow", "null", ""} \cup Status
    BY <1>9 DEF CancelReturns, DelValue
  <2> QED
    BY <1>9, <2>1, FinishTypes DEF TypeOK, CancelReturns
<1>10. ASSUME NEW t \in Thread, StatusReturns(t) PROVE TypeOK'
  <2>1. /\ Finish(t, StatusValue(answer[t]), NoUuid)
        /\ StatusValue(answer[t]) \in {"uuid", "nullopt", "throw", "done", "result",
                          "hollow", "null", ""} \cup Status
    BY <1>10 DEF StatusReturns, StatusValue
  <2> QED
    BY <1>10, <2>1, FinishTypes DEF TypeOK, StatusReturns
<1>11. ASSUME NEW t \in Thread, PollReturns(t) PROVE TypeOK'
  <2> DEFINE st == StatusValue(answer[t])
             nap == SleepSeconds(loop[t].left)
  <2>1. CASE st = "COMPLETED" /\ Send(t, "RESULT") /\ UNCHANGED <<answer, loop, ret>>
    BY <1>11, <2>1 DEF TypeOK, PollReturns, Send, Ask
  <2>2. CASE Finish(t, "null", NoUuid) /\ UNCHANGED ask
    BY <1>11, <2>2, FinishTypes DEF TypeOK, PollReturns
  <2>3. CASE /\ pc' = [pc EXCEPT ![t] = "loop"]
             /\ loop' = [loop EXCEPT ![t] = [left |-> @.left - nap,
                                             slept |-> @.slept + nap,
                                             polls |-> @.polls]]
             /\ UNCHANGED <<answer, ask, ret>>
    <3>1. nap \in Int
      BY DEF SleepSeconds, PollSeconds
    <3>2. [left |-> loop[t].left - nap, slept |-> loop[t].slept + nap,
           polls |-> loop[t].polls] \in Loop
      BY <3>1 DEF Loop
    <3>3. loop' \in [Thread -> Loop]
      BY <2>3, <3>2 DEF TypeOK
    <3> QED
      BY <1>11, <2>3, <3>3 DEF TypeOK, PollReturns
  <2> QED
    BY <1>11, <2>1, <2>2, <2>3 DEF PollReturns
<1>12. ASSUME NEW t \in Thread, ResultReturns(t) PROVE TypeOK'
  <2>1. /\ Finish(t, ResultValue(answer[t].body), answer[t].uuid)
        /\ ResultValue(answer[t].body) \in {"uuid", "nullopt", "throw", "done", "result",
                          "hollow", "null", ""} \cup Status
    BY <1>12 DEF ResultReturns, ResultValue
  <2> QED
    BY <1>12, <2>1, FinishTypes DEF TypeOK, ResultReturns
<1>13. ASSUME NEW t \in Thread, ServicePost(t) PROVE TypeOK'
  <2>1. ASSUME NEW u \in Uuid, Create(u, call[t].job, subs[call[t].job]),
               Answered(t, "field", u, "RUNNING")
        PROVE TypeOK'
    <3>1. "field" \in Body /\ "RUNNING" \in Status /\ subs[call[t].job] \in Nat
      BY DEF Body, Status, TypeOK
    <3> QED
      BY <1>13, <2>1, <3>1, CreateTypes, AnsweredTypes DEF TypeOK, ServicePost
  <2>2. ASSUME NEW b \in Refusal, Answered(t, b, NoUuid, "NONE"),
               UNCHANGED <<status, ledger>>
        PROVE TypeOK'
    <3>1. b \in Body /\ "NONE" \in Status
      BY DEF Refusal, Body, Status
    <3> QED
      BY <1>13, <2>2, <3>1, AnsweredTypes DEF TypeOK, ServicePost
  <2> QED
    BY <1>13, <2>1, <2>2 DEF ServicePost
<1>14. ASSUME NEW t \in Thread, ServiceDelete(t) PROVE TypeOK'
  <2>1. "NONE" \in Status /\ "text" \in Body /\ "fail" \in Body
    BY DEF Body, Status
  <2>2. Cancelled(call[t].uuid) \in [Uuid -> Status]
    BY DEF TypeOK, Cancelled, Status
  <2> QED
    BY <1>14, <2>1, <2>2, AnsweredTypes DEF TypeOK, ServiceDelete
<1>15. ASSUME NEW t \in Thread, ServiceStatus(t) PROVE TypeOK'
  <2>1. "NONE" \in Status /\ "field" \in Body /\ Refusal \subseteq Body
    BY DEF Body, Status, Refusal
  <2>2. call[t].uuid \in Uuid => status[call[t].uuid] \in Status
    BY DEF TypeOK
  <2> QED
    BY <1>15, <2>1, <2>2, AnsweredTypes DEF TypeOK, ServiceStatus
<1>16. ASSUME NEW t \in Thread, ServiceResult(t) PROVE TypeOK'
  <2>1. /\ "NONE" \in Status /\ "COMPLETED" \in Status
        /\ {"field", "badresult"} \subseteq Body /\ Refusal \subseteq Body
    BY DEF Body, Status, Refusal
  <2> QED
    BY <1>16, <2>1, AnsweredTypes DEF TypeOK, ServiceResult
<1>17. ASSUME NEW r \in latePost, LatePost(r) PROVE TypeOK'
  <2>1. r.job \in Job /\ r.sub \in Nat
    BY DEF TypeOK
  <2> QED
    BY <1>17, <2>1, CreateTypes DEF TypeOK, LatePost
<1>18. ASSUME NEW u \in Uuid, LateDelete(u) PROVE TypeOK'
  <2>1. Cancelled(u) \in [Uuid -> Status]
    BY DEF TypeOK, Cancelled, Status
  <2> QED
    BY <1>18, <2>1 DEF TypeOK, LateDelete
<1>19. ASSUME NEW u \in Uuid, JobEnds(u) PROVE TypeOK'
  <2>1. Terminal \subseteq Status
    BY DEF Terminal, Status
  <2> QED
    BY <1>19, <2>1 DEF TypeOK, JobEnds
<1>20. CASE UNCHANGED vars
  BY <1>20 DEF TypeOK
<1> QED
  BY <1>1, <1>2, <1>3, <1>4, <1>5, <1>6, <1>7, <1>8, <1>9, <1>10, <1>11,
     <1>12, <1>13, <1>14, <1>15, <1>16, <1>17, <1>18, <1>19, <1>20
  DEF Next, Begin, Proceed, Service

\* Every state of the client, its threads and the service is well typed.
THEOREM TypeCorrect == Spec => []TypeOK
  BY InitTypes, TypeStep, PTL DEF Spec

----------------------------------------------------------------------------
(* The inductive invariant *)

Submitting(t) == pc[t] # "idle" /\ call[t].op = "submit"

Posting(t) == pc[t] \in {"sent", "answered"} /\ ask[t] = "POST"

\* A POST is in progress exactly inside a submitJob, and a submitJob is alone
\* on its JobRequest.
CallShape ==
  \A t \in Thread :
    /\ Submitting(t) <=> Posting(t)
    /\ Submitting(t) => \A s \in Thread : Using(s, call[t].job) => s = t

Created(j, n) == \E a \in ledger : a.job = j /\ a.sub = n

\* What ties the uuid of a JobRequest to its submissions: a POST that is under
\* way, or was given up and is still on its way, has created no job yet, and no
\* two of them belong to the same submission.
SubmitInv ==
  /\ \A a \in ledger : a.sub \in 1..subs[a.job] /\ status[a.uuid] # "NONE"
  /\ \A r \in latePost : r.sub \in 1..subs[r.job] /\ ~Created(r.job, r.sub)
  /\ \A t \in Thread :
       (Posting(t) /\ pc[t] = "sent") =>
         /\ subs[call[t].job] \in Nat \ {0}
         /\ ~Created(call[t].job, subs[call[t].job])
         /\ [job |-> call[t].job, sub |-> subs[call[t].job]] \notin latePost
  /\ \A t \in Thread :
       (Posting(t) /\ pc[t] = "answered" /\ answer[t].body = "field") =>
         [uuid |-> answer[t].uuid, job |-> call[t].job,
          sub |-> subs[call[t].job]] \in ledger
  /\ OneJobPerSubmit
  /\ UuidOfLastAcknowledged

\* What ties the outcome of a call to the job it asked about: the uuid it asked
\* under is one of the JobRequest's, an answer that carries a result or accepts
\* a cancellation is about a job that has ended, and so is what was returned.
Outcome(t) ==
  LET u == call[t].uuid
  IN /\ u \in Uuid => \E a \in ledger : a.uuid = u /\ a.job = call[t].job
     /\ (pc[t] = "answered" /\ ask[t] = "RESULT" /\ answer[t].body = "field") =>
          u \in Uuid /\ answer[t].uuid = u /\ status[u] = "COMPLETED"
     /\ (pc[t] = "answered" /\ ask[t] = "DELETE" /\ answer[t].body # "fail") =>
          u \in Uuid /\ status[u] \in Terminal
     /\ ret[t].val = "result" =>
          u \in Uuid /\ ret[t].got = u /\ status[u] = "COMPLETED"
     /\ ret[t].val = "done" => u \in Uuid /\ status[u] \in Terminal

OutcomeInv == \A t \in Thread : Outcome(t)

\* The account of a wait: time left and slept add up, and as long as time is
\* left every status check so far was followed by a full nap.
Account(t) ==
  LET l == loop[t]
      open == IF pc[t] = "loop" THEN 0 ELSE 1
  IN /\ l.left + l.slept = ToInt(call[t].timeout)
     /\ l.slept >= 0
     /\ l.slept = 0 \/ l.left >= 0
     /\ l.left <= 0 => pc[t] = "loop"
     /\ l.left > 0 => l.slept = 2 * (l.polls - open)
     /\ l.polls = (l.slept + 1) \div 2 + open

Waiting(t) == pc[t] # "idle" /\ call[t].op = "wait"

WaitInv == \A t \in Thread : Waiting(t) => Account(t)

\* No step lets a second call onto a JobRequest that is being submitted.
LEMMA CallShapeStep ==
  ASSUME TypeOK, CallShape, [Next]_vars
  PROVE  CallShape'
<1> USE FieldTypes DEF TypeOK, CallShape, Submitting, Posting, Using,
                        vars, clientVars, threadVars, serviceVars
<1>1. ASSUME NEW t \in Thread, NEW j \in Job, SubmitJob(t, j) PROVE CallShape'
  BY <1>1 DEF SubmitJob, Start, Send
<1>2. ASSUME NEW t \in Thread, NEW j \in Job, CancelJob(t, j) PROVE CallShape'
  BY <1>2 DEF CancelJob, MayRead, Start, Send
<1>3. ASSUME NEW t \in Thread, NEW j \in Job, GetJobStatus(t, j) PROVE CallShape'
  BY <1>3 DEF GetJobStatus, MayRead, Start, Send
<1>4. ASSUME NEW t \in Thread, NEW j \in Job, GetJobResult(t, j) PROVE CallShape'
  BY <1>4 DEF GetJobResult, MayRead, Start, Send
<1>5. ASSUME NEW t \in Thread, NEW j \in Job, NEW k \in Timeout,
             WaitForJobResult(t, j, k)
      PROVE CallShape'
  BY <1>5 DEF WaitForJobResult, MayRead, Start
<1>6. ASSUME NEW t \in Thread, WaitLoop(t) PROVE CallShape'
  BY <1>6 DEF WaitLoop, Send, Finish
<1>7. ASSUME NEW t \in Thread, RequestFails(t) PROVE CallShape'
  BY <1>7 DEF RequestFails
<1>8. ASSUME NEW t \in Thread, SubmitReturns(t) PROVE CallShape'
  BY <1>8 DEF SubmitReturns, Finish
<1>9. ASSUME NEW t \in Thread, CancelReturns(t) PROVE CallShape'
  BY <1>9 DEF CancelReturns, Finish
<1>10. ASSUME NEW t \in Thread, StatusReturns(t) PROVE CallShape'
  BY <1>10 DEF StatusReturns, Finish
<1>11. ASSUME NEW t \in Thread, PollReturns(t) PROVE CallShape'
  BY <1>11 DEF PollReturns, Send, Finish
<1>12. ASSUME NEW t \in Thread, ResultReturns(t) PROVE CallShape'
  BY <1>12 DEF ResultReturns, Finish
<1>13. ASSUME NEW t \in Thread, ServicePost(t) PROVE CallShape'
  BY <1>13 DEF ServicePost, Answered
<1>14. ASSUME NEW t \in Thread, ServiceDelete(t) PROVE CallShape'
  BY <1>14 DEF ServiceDelete, Answered
<1>15. ASSUME NEW t \in Thread, ServiceStatus(t) PROVE CallShape'
  BY <1>15 DEF ServiceStatus, Answered
<1>16. ASSUME NEW t \in Thread, ServiceResult(t) PROVE CallShape'
  BY <1>16 DEF ServiceResult, Answered
<1>17. ASSUME NEW r \in latePost, LatePost(r) PROVE CallShape'
  BY <1>17 DEF LatePost
<1>18. ASSUME NEW u \in Uuid, LateDelete(u) PROVE CallShape'
  BY <1>18 DEF LateDelete
<1>19. ASSUME NEW u \in Uuid, JobEnds(u) PROVE CallShape'
  BY <1>19 DEF JobEnds
<1>20. CASE UNCHANGED vars
  BY <1>20
<1> QED
  BY <1>1, <1>2, <1>3, <1>4, <1>5, <1>6, <1>7, <1>8, <1>9, <1>10,
     <1>11, <1>12, <1>13, <1>14, <1>15, <1>16, <1>17, <1>18, <1>19, <1>20
  DEF Next, Begin, Proceed, Service

\* What other calls see of a step that moves no POST and creates no job.
NoPostStep ==
  /\ UNCHANGED <<clientVars, ledger, latePost>>
  /\ \A u \in Uuid : status[u] # "NONE" => status'[u] # "NONE"
  /\ \A s \in Thread :
       Posting(s)' => /\ Posting(s)
                      /\ pc'[s] = pc[s]
                      /\ call'[s] = call[s]
                      /\ answer'[s] = answer[s]

\* Steps that move no POST and create no job keep submissions and jobs tied.
LEMMA SubmitFrame ==
  ASSUME TypeOK, SubmitInv, NoPostStep
  PROVE  SubmitInv'
<1>1. /\ \A a \in ledger' : a.sub \in 1..subs'[a.job] /\ status'[a.uuid] # "NONE"
      /\ \A r \in latePost' : r.sub \in 1..subs'[r.job] /\ ~Created(r.job, r.sub)'
  BY DEF TypeOK, SubmitInv, Created, NoPostStep, clientVars
<1>2. (OneJobPerSubmit /\ UuidOfLastAcknowledged)'
  BY DEF SubmitInv, OneJobPerSubmit, UuidOfLastAcknowledged, NoPostStep, clientVars
<1> QED
  BY <1>1, <1>2 DEF SubmitInv, Created, NoPostStep, clientVars

\* Every step keeps submissions, jobs and uuids tied together.
LEMMA SubmitInvStep ==
  ASSUME TypeOK, CallShape, SubmitInv, [Next]_vars
  PROVE  SubmitInv'
<1> USE FieldTypes, ConstantsAssumption
    DEF TypeOK, CallShape, Submitting, Posting, Using, Created, SubmitInv,
        OneJobPerSubmit, UuidOfLastAcknowledged,
        vars, clientVars, threadVars, serviceVars
<1>1. ASSUME NEW t \in Thread, NEW j \in Job, SubmitJob(t, j) PROVE SubmitInv'
  BY <1>1 DEF SubmitJob, Start, Send
<1>2. ASSUME NEW t \in Thread, NEW j \in Job, CancelJob(t, j) PROVE SubmitInv'
  <2>1. NoPostStep
    BY <1>2 DEF NoPostStep, CancelJob, MayRead, Start, Send
  <2> QED
    BY <2>1, SubmitFrame
<1>3. ASSUME NEW t \in Thread, NEW j \in Job, GetJobStatus(t, j) PROVE SubmitInv'
  <2>1. NoPostStep
    BY <1>3 DEF NoPostStep, GetJobStatus, MayRead, Start, Send
  <2> QED
    BY <2>1, SubmitFrame
<1>4. ASSUME NEW t \in Thread, NEW j \in Job, GetJobResult(t, j) PROVE SubmitInv'
  <2>1. NoPostStep
    BY <1>4 DEF NoPostStep, GetJobResult, MayRead, Start, Send
  <2> QED
    BY <2>1, SubmitFrame
<1>5. ASSUME NEW t \in Thread, NEW j \in Job, NEW k \in Timeout,
             WaitForJobResult(t, j, k)
      PROVE SubmitInv'
  <2>1. NoPostStep
    BY <1>5 DEF NoPostStep, WaitForJobResult, MayRead, Start
  <2> QED
    BY <2>1, SubmitFrame
<1>6. ASSUME NEW t \in Thread, WaitLoop(t) PROVE SubmitInv'
  <2>1. NoPostStep
    BY <1>6 DEF NoPostStep, WaitLoop, Send, Finish
  <2> QED
    BY <2>1, SubmitFrame
<1>7. ASSUME NEW t \in Thread, RequestFails(t) PROVE SubmitInv'
  BY <1>7 DEF RequestFails, FailedAnswer, NoAnswer
<1>8. ASSUME NEW t \in Thread, SubmitReturns(t) PROVE SubmitInv'
  <2>1. CASE SubmitValue(answer[t].body) = "uuid"
    <3> DEFINE jb == call[t].job
    <3>1. /\ Posting(t) /\ pc[t] = "answered" /\ answer[t].body = "field"
          /\ mUuid' = [mUuid EXCEPT ![jb] = answer[t].uuid]
          /\ acked' = [acked EXCEPT ![jb] = subs[jb]]
          /\ pc' = [pc EXCEPT ![t] = "idle"]
          /\ answer' = [answer EXCEPT ![t] = NoAnswer]
          /\ UNCHANGED <<subs, call, ask, serviceVars>>
      BY <1>8, <2>1 DEF SubmitReturns, SubmitValue, SetUuid, Finish
    <3>2. [uuid |-> answer[t].uuid, job |-> jb, sub |-> subs[jb]] \in ledger
      BY <3>1
    <3>3. answer[t].uuid # NoUuid /\ subs[jb] # 0
      BY <3>2
    <3>4. UuidOfLastAcknowledged'
      BY <3>1, <3>2, <3>3
    <3>5. \A s \in Thread :
            Posting(s)' => /\ s # t /\ Posting(s) /\ pc'[s] = pc[s]
                           /\ answer'[s] = answer[s]
      BY <3>1
    <3> QED
      BY <3>1, <3>4, <3>5
  <2>2. CASE SubmitValue(answer[t].body) # "uuid"
    <3>1. NoPostStep
      BY <1>8, <2>2 DEF NoPostStep, SubmitReturns, Finish
    <3> QED
      BY <3>1, SubmitFrame
  <2> QED
    BY <2>1, <2>2
<1>9. ASSUME NEW t \in Thread, CancelReturns(t) PROVE SubmitInv'
  <2>1. NoPostStep
    BY <1>9 DEF NoPostStep, CancelReturns, Finish
  <2> QED
    BY <2>1, SubmitFrame
<1>10. ASSUME NEW t \in Thread, StatusReturns(t) PROVE SubmitInv'
  <2>1. NoPostStep
    BY <1>10 DEF NoPostStep, StatusReturns, Finish
  <2> QED
    BY <2>1, SubmitFrame
<1>11. ASSUME NEW t \in Thread, PollReturns(t) PROVE SubmitInv'
  <2>1. NoPostStep
    BY <1>11 DEF NoPostStep, PollReturns, Send, Finish
  <2> QED
    BY <2>1, SubmitFrame
<1>12. ASSUME NEW t \in Thread, ResultReturns(t) PROVE SubmitInv'
  <2>1. NoPostStep
    BY <1>12 DEF NoPostStep, ResultReturns, Finish
  <2> QED
    BY <2>1, SubmitFrame
<1>13. ASSUME NEW t \in Thread, ServicePost(t) PROVE SubmitInv'
  <2> DEFINE jb == call[t].job
  <2>1. ASSUME NEW u \in Uuid, Create(u, jb, subs[jb]),
               Answered(t, "field", u, "RUNNING")
        PROVE SubmitInv'
    <3> DEFINE new == [uuid |-> u, job |-> jb, sub |-> subs[jb]]
    <3>1. /\ ledger' = ledger \cup {new}
          /\ status' = [status EXCEPT ![u] = "RUNNING"]
          /\ pc' = [pc EXCEPT ![t] = "answered"]
          /\ answer' = [answer EXCEPT ![t] =
                          [body |-> "field", uuid |-> u, status |-> "RUNNING"]]
          /\ UNCHANGED <<clientVars, call, ask, latePost>>
      BY <1>13, <2>1 DEF ServicePost, Create, Answered
    <3>2. /\ Posting(t) /\ pc[t] = "sent"
          /\ \A a \in ledger : a.uuid # u /\ (a.job # jb \/ a.sub # subs[jb])
          /\ \A r \in latePost : r.job # jb \/ r.sub # subs[jb]
      <4>1. Posting(t) /\ pc[t] = "sent" /\ status[u] = "NONE"
        BY <1>13, <2>1 DEF ServicePost, Create
      <4>2. ~Created(jb, subs[jb]) /\ [job |-> jb, sub |-> subs[jb]] \notin latePost
        BY <4>1
      <4>3. \A r \in latePost : r = [job |-> r.job, sub |-> r.sub]
        OBVIOUS
      <4> QED
        BY <4>1, <4>2, <4>3
    <3>3. \A s \in Thread : s # t /\ Posting(s) => call[s].job # jb
      BY <3>2
    <3>4. \A a \in ledger' : a.sub \in 1..subs'[a.job] /\ status'[a.uuid] # "NONE"
      <4>1. new.sub \in 1..subs[new.job] /\ status'[new.uuid] = "RUNNING"
        <5>1. subs[jb] \in Nat \ {0}
          BY <3>2
        <5>2. status'[u] = "RUNNING"
          BY <3>1
        <5>3. subs[jb] \in 1..subs[jb]
          BY <5>1
        <5> QED
          BY <5>2, <5>3
      <4>2. \A a \in ledger : status'[a.uuid] = status[a.uuid]
        BY <3>1, <3>2
      <4>3. ASSUME NEW a \in ledger'
            PROVE  a.sub \in 1..subs'[a.job] /\ status'[a.uuid] # "NONE"
        <5>1. CASE a \in ledger
          BY <3>1, <4>2, <5>1
        <5>2. CASE a = new
          BY <3>1, <4>1, <5>2
        <5> QED
          BY <3>1, <5>1, <5>2
      <4> QED
        BY <4>3
    <3>5. \A r \in latePost' : r.sub \in 1..subs'[r.job] /\ ~Created(r.job, r.sub)'
      BY <3>1, <3>2
    <3>6. \A s \in Thread :
            (Posting(s)' /\ pc'[s] = "sent") =>
              /\ subs'[call'[s].job] \in Nat \ {0}
              /\ ~Created(call[s].job, subs[call[s].job])'
              /\ [job |-> call'[s].job, sub |-> subs'[call'[s].job]] \notin latePost'
      BY <3>1, <3>2, <3>3
    <3>7. \A s \in Thread :
            (Posting(s)' /\ pc'[s] = "answered" /\ answer'[s].body = "field") =>
              [uuid |-> answer'[s].uuid, job |-> call'[s].job,
               sub |-> subs'[call'[s].job]] \in ledger'
      BY <3>1, <3>2
    <3>8. OneJobPerSubmit'
      BY <3>1, <3>2
    <3>9. UuidOfLastAcknowledged'
      BY <3>1
    <3> QED
      BY <3>4, <3>5, <3>6, <3>7, <3>8, <3>9
  <2>2. ASSUME NEW b \in Refusal, Answered(t, b, NoUuid, "NONE"),
               UNCHANGED <<status, ledger>>
        PROVE SubmitInv'
    BY <1>13, <2>2 DEF ServicePost, Answered, Refusal
  <2> QED
    BY <1>13, <2>1, <2>2 DEF ServicePost
<1>14. ASSUME NEW t \in Thread, ServiceDelete(t) PROVE SubmitInv'
  <2>1. NoPostStep
    BY <1>14 DEF NoPostStep, ServiceDelete, Answered, Cancelled
  <2> QED
    BY <2>1, SubmitFrame
<1>15. ASSUME NEW t \in Thread, ServiceStatus(t) PROVE SubmitInv'
  <2>1. NoPostStep
    BY <1>15 DEF NoPostStep, ServiceStatus, Answered
  <2> QED
    BY <2>1, SubmitFrame
<1>16. ASSUME NEW t \in Thread, ServiceResult(t) PROVE SubmitInv'
  <2>1. NoPostStep
    BY <1>16 DEF NoPostStep, ServiceResult, Answered
  <2> QED
    BY <2>1, SubmitFrame
<1>17. ASSUME NEW r \in latePost, LatePost(r) PROVE SubmitInv'
  BY <1>17 DEF LatePost, Create
<1>18. ASSUME NEW u \in Uuid, LateDelete(u) PROVE SubmitInv'
  <2>1. NoPostStep
    BY <1>18 DEF NoPostStep, LateDelete, Cancelled
  <2> QED
    BY <2>1, SubmitFrame
<1>19. ASSUME NEW u \in Uuid, JobEnds(u) PROVE SubmitInv'
  <2>1. NoPostStep
    BY <1>19 DEF NoPostStep, JobEnds, Terminal
  <2> QED
    BY <2>1, SubmitFrame
<1>20. CASE UNCHANGED vars
  BY <1>20
<1> QED
  BY <1>1, <1>2, <1>3, <1>4, <1>5, <1>6, <1>7, <1>8, <1>9, <1>10,
     <1>11, <1>12, <1>13, <1>14, <1>15, <1>16, <1>17, <1>18, <1>19, <1>20
  DEF Next, Begin, Proceed, Service

\* The service forgets no job, and a job that has ended stays as it ended.
EndsAreFinal ==
  /\ ledger \subseteq ledger'
  /\ \A u \in Uuid : status[u] \in Terminal => status'[u] = status[u]

\* No step of the client or of the service revives an ended job.
LEMMA EndsAreFinalStep == ASSUME TypeOK, [Next]_vars PROVE EndsAreFinal
<1> USE DEF EndsAreFinal, Terminal, vars, clientVars, threadVars, serviceVars
<1>1. ASSUME NEW t \in Thread, Begin(t) PROVE EndsAreFinal
  BY <1>1 DEF Begin, SubmitJob, CancelJob, GetJobStatus, GetJobResult,
              WaitForJobResult
<1>2. ASSUME NEW t \in Thread, Proceed(t) PROVE EndsAreFinal
  BY <1>2 DEF Proceed, WaitLoop, RequestFails, SubmitReturns, CancelReturns,
              StatusReturns, PollReturns, ResultReturns
<1>3. CASE Service
  <2>1. ASSUME NEW u \in Uuid, NEW j, NEW n, Create(u, j, n) PROVE EndsAreFinal
    BY <2>1 DEF TypeOK, Create
  <2>2. ASSUME NEW t \in Thread, ServicePost(t) PROVE EndsAreFinal
    BY <2>1, <2>2 DEF ServicePost
  <2>3. ASSUME NEW t \in Thread, ServiceDelete(t) PROVE EndsAreFinal
    BY <2>3 DEF TypeOK, ServiceDelete, Cancelled
  <2>4. ASSUME NEW t \in Thread, ServiceStatus(t) \/ ServiceResult(t)
        PROVE EndsAreFinal
    BY <2>4 DEF ServiceStatus, ServiceResult
  <2>5. ASSUME NEW r \in latePost, LatePost(r) PROVE EndsAreFinal
    BY <2>1, <2>5 DEF LatePost
  <2>6. ASSUME NEW u \in Uuid, LateDelete(u) PROVE EndsAreFinal
    BY <2>6 DEF TypeOK, LateDelete, Cancelled
  <2>7. ASSUME NEW u \in Uuid, JobEnds(u) PROVE EndsAreFinal
    BY <2>7 DEF TypeOK, JobEnds
  <2> QED
    BY <1>3, <2>2, <2>3, <2>4, <2>5, <2>6, <2>7 DEF Service
<1>4. CASE UNCHANGED vars
  BY <1>4
<1> QED
  BY <1>1, <1>2, <1>3, <1>4 DEF Next

\* A step that is not about thread s keeps its outcome true.
Bystander(s) ==
  /\ call'[s] = call[s]
  /\ ret'[s] = ret[s]
  /\ pc'[s] = "answered" =>
       pc[s] = "answered" /\ ask'[s] = ask[s] /\ answer'[s] = answer[s]

\* What a thread was told stays true while others move.
LEMMA OutcomeFrame ==
  ASSUME TypeOK, EndsAreFinal, NEW s \in Thread, Outcome(s), Bystander(s)
  PROVE  Outcome(s)'
BY FieldTypes DEF Outcome, EndsAreFinal, Bystander, Terminal

\* A call asks under the uuid of its JobRequest.
LEMMA OutcomeStart ==
  ASSUME TypeOK, SubmitInv, EndsAreFinal, NEW t \in Thread, NEW o, NEW j \in Job,
         NEW n, Start(t, o, j, n), pc'[t] # "answered"
  PROVE  Outcome(t)'
<1>1. call'[t].uuid = mUuid[j] /\ call'[t].job = j /\ ret'[t].val = "pending"
  BY DEF TypeOK, Start, Pending
<1>2. mUuid[j] \in Uuid => \E a \in ledger : a.uuid = mUuid[j] /\ a.job = j
  BY ConstantsAssumption DEF SubmitInv, UuidOfLastAcknowledged
<1> QED
  BY <1>1, <1>2 DEF Outcome, EndsAreFinal

\* A return that tells neither of a result nor of a cancellation says nothing.
LEMMA OutcomeOther ==
  ASSUME TypeOK, EndsAreFinal, NEW t \in Thread, Outcome(t), NEW v, NEW u,
         Finish(t, v, u), v \notin {"result", "done"}, call'[t] = call[t]
  PROVE  Outcome(t)'
<1>1. pc'[t] = "idle" /\ ret'[t].val = v
  BY DEF TypeOK, Finish
<1> QED
  BY <1>1 DEF Outcome, EndsAreFinal

\* Every step keeps what callers were told true of the jobs they asked about.
LEMMA OutcomeInvStep ==
  ASSUME TypeOK, SubmitInv, OutcomeInv, [Next]_vars
  PROVE  OutcomeInv'
<1> USE DEF vars, clientVars, threadVars, serviceVars
<1>1. ASSUME NEW t \in Thread, NEW j \in Job, SubmitJob(t, j) PROVE OutcomeInv'
  <2>1. Outcome(t)'
    BY <1>1, EndsAreFinalStep, OutcomeStart DEF TypeOK, SubmitJob, Send
  <2>2. \A s \in Thread \ {t} : Bystander(s)
    BY <1>1 DEF TypeOK, Bystander, SubmitJob, Start, Send
  <2> QED
    BY <2>1, <2>2, EndsAreFinalStep, OutcomeFrame DEF OutcomeInv
<1>2. ASSUME NEW t \in Thread, NEW j \in Job, CancelJob(t, j) PROVE OutcomeInv'
  <2>1. Outcome(t)'
    BY <1>2, EndsAreFinalStep, OutcomeStart DEF TypeOK, CancelJob, Send
  <2>2. \A s \in Thread \ {t} : Bystander(s)
    BY <1>2 DEF TypeOK, Bystander, CancelJob, Start, Send
  <2> QED
    BY <2>1, <2>2, EndsAreFinalStep, OutcomeFrame DEF OutcomeInv
<1>3. ASSUME NEW t \in Thread, NEW j \in Job, GetJobStatus(t, j) PROVE OutcomeInv'
  <2>1. Outcome(t)'
    BY <1>3, EndsAreFinalStep, OutcomeStart DEF TypeOK, GetJobStatus, Send
  <2>2. \A s \in Thread \ {t} : Bystander(s)
    BY <1>3 DEF TypeOK, Bystander, GetJobStatus, Start, Send
  <2> QED
    BY <2>1, <2>2, EndsAreFinalStep, OutcomeFrame DEF OutcomeInv
<1>4. ASSUME NEW t \in Thread, NEW j \in Job, GetJobResult(t, j) PROVE OutcomeInv'
  <2>1. Outcome(t)'
    BY <1>4, EndsAreFinalStep, OutcomeStart DEF TypeOK, GetJobResult, Send
  <2>2. \A s \in Thread \ {t} : Bystander(s)
    BY <1>4 DEF TypeOK, Bystander, GetJobResult, Start, Send
  <2> QED
    BY <2>1, <2>2, EndsAreFinalStep, OutcomeFrame DEF OutcomeInv
<1>5. ASSUME NEW t \in Thread, NEW j \in Job, NEW k \in Timeout,
             WaitForJobResult(t, j, k)
      PROVE OutcomeInv'
  <2>1. Outcome(t)'
    BY <1>5, EndsAreFinalStep, OutcomeStart DEF TypeOK, WaitForJobResult, Send
  <2>2. \A s \in Thread \ {t} : Bystander(s)
    BY <1>5 DEF TypeOK, Bystander, WaitForJobResult, Start, Send
  <2> QED
    BY <2>1, <2>2, EndsAreFinalStep, OutcomeFrame DEF OutcomeInv
<1>6. ASSUME NEW t \in Thread, WaitLoop(t) PROVE OutcomeInv'
  <2>1. CASE Finish(t, "null", NoUuid)
    <3>1. Outcome(t)'
      BY <1>6, <2>1, EndsAreFinalStep, OutcomeOther DEF OutcomeInv, WaitLoop
    <3>2. \A s \in Thread \ {t} : Bystander(s)
      BY <1>6, <2>1 DEF TypeOK, Bystander, WaitLoop, Send, Finish
    <3> QED
      BY <3>1, <3>2, EndsAreFinalStep, OutcomeFrame DEF OutcomeInv
  <2>2. CASE ~Finish(t, "null", NoUuid)
    <3>1. \A s \in Thread : Bystander(s)
      BY <1>6, <2>2 DEF TypeOK, Bystander, WaitLoop, Send
    <3> QED
      BY <3>1, EndsAreFinalStep, OutcomeFrame DEF OutcomeInv
  <2> QED
    BY <2>1, <2>2
<1>7. ASSUME NEW t \in Thread, RequestFails(t) PROVE OutcomeInv'
  <2>1. Outcome(t)'
    <3>1. /\ pc'[t] = "answered" /\ UNCHANGED <<call, ret, ask>>
      BY <1>7 DEF TypeOK, RequestFails
    <3> QED
      BY <1>7, <3>1, EndsAreFinalStep, FieldTypes
      DEF TypeOK, OutcomeInv, Outcome, EndsAreFinal, Terminal, RequestFails, FailedAnswer, NoAnswer
  <2>2. \A s \in Thread \ {t} : Bystander(s)
    BY <1>7 DEF TypeOK, Bystander, RequestFails, FailedAnswer
  <2> QED
    BY <2>1, <2>2, EndsAreFinalStep, OutcomeFrame DEF OutcomeInv
<1>8. ASSUME NEW t \in Thread, SubmitReturns(t) PROVE OutcomeInv'
  <2>1. Outcome(t)'
    <3>1. SubmitValue(answer[t].body) \notin {"result", "done"}
      BY FieldTypes DEF SubmitValue
    <3> QED
      BY <1>8, <3>1, EndsAreFinalStep, OutcomeOther DEF OutcomeInv, SubmitReturns
  <2>2. \A s \in Thread \ {t} : Bystander(s)
    BY <1>8 DEF TypeOK, Bystander, SubmitReturns, Finish
  <2> QED
    BY <2>1, <2>2, EndsAreFinalStep, OutcomeFrame DEF OutcomeInv
<1>9. ASSUME NEW t \in Thread, CancelReturns(t) PROVE OutcomeInv'
  <2>1. Outcome(t)'
    <3>1. /\ pc'[t] = "idle" /\ call'[t] = call[t]
          /\ ret'[t] = [val |-> DelValue(answer[t].body), got |-> NoUuid]
      BY <1>9 DEF TypeOK, CancelReturns, Finish
    <3> QED
      BY <1>9, <3>1, EndsAreFinalStep DEF OutcomeInv, Outcome, EndsAreFinal, Terminal, CancelReturns, DelValue
  <2>2. \A s \in Thread \ {t} : Bystander(s)
    BY <1>9 DEF TypeOK, Bystander, CancelReturns, Finish
  <2> QED
    BY <2>1, <2>2, EndsAreFinalStep, OutcomeFrame DEF OutcomeInv
<1>10. ASSUME NEW t \in Thread, StatusReturns(t) PROVE OutcomeInv'
  <2>1. Outcome(t)'
    <3>1. StatusValue(answer[t]) \notin {"result", "done"}
      BY FieldTypes DEF StatusValue, Status
    <3> QED
      BY <1>10, <3>1, EndsAreFinalStep, OutcomeOther DEF OutcomeInv, StatusReturns
  <2>2. \A s \in Thread \ {t} : Bystander(s)
    BY <1>10 DEF TypeOK, Bystander, StatusReturns, Finish
  <2> QED
    BY <2>1, <2>2, EndsAreFinalStep, OutcomeFrame DEF OutcomeInv
<1>11. ASSUME NEW t \in Thread, PollReturns(t) PROVE OutcomeInv'
  <2>1. CASE Finish(t, "null", NoUuid)
    <3>1. Outcome(t)'
      BY <1>11, <2>1, EndsAreFinalStep, OutcomeOther DEF OutcomeInv, PollReturns
    <3>2. \A s \in Thread \ {t} : Bystander(s)
      BY <1>11, <2>1 DEF TypeOK, Bystander, PollReturns, Send, Finish
    <3> QED
      BY <3>1, <3>2, EndsAreFinalStep, OutcomeFrame DEF OutcomeInv
  <2>2. CASE ~Finish(t, "null", NoUuid)
    <3>1. \A s \in Thread : Bystander(s)
      BY <1>11, <2>2 DEF TypeOK, Bystander, PollReturns, Send
    <3> QED
      BY <3>1, EndsAreFinalStep, OutcomeFrame DEF OutcomeInv
  <2> QED
    BY <2>1, <2>2
<1>12. ASSUME NEW t \in Thread, ResultReturns(t) PROVE OutcomeInv'
  <2>1. Outcome(t)'
    <3>1. /\ pc'[t] = "idle" /\ call'[t] = call[t]
          /\ ret'[t] = [val |-> ResultValue(answer[t].body), got |-> answer[t].uuid]
      BY <1>12 DEF TypeOK, ResultReturns, Finish
    <3> QED
      BY <1>12, <3>1, EndsAreFinalStep DEF OutcomeInv, Outcome, EndsAreFinal, Terminal, ResultReturns, ResultValue
  <2>2. \A s \in Thread \ {t} : Bystander(s)
    BY <1>12 DEF TypeOK, Bystander, ResultReturns, Finish
  <2> QED
    BY <2>1, <2>2, EndsAreFinalStep, OutcomeFrame DEF OutcomeInv
<1>13. ASSUME NEW t \in Thread, ServicePost(t) PROVE OutcomeInv'
  <2>1. Outcome(t)'
    <3>1. /\ pc'[t] = "answered" /\ UNCHANGED <<call, ret, ask>>
      BY <1>13 DEF TypeOK, ServicePost, Answered
    <3> QED
      BY <1>13, <3>1, EndsAreFinalStep, FieldTypes
      DEF TypeOK, OutcomeInv, Outcome, EndsAreFinal, Terminal, ServicePost, Answered
  <2>2. \A s \in Thread \ {t} : Bystander(s)
    BY <1>13 DEF TypeOK, Bystander, ServicePost, Answered
  <2> QED
    BY <2>1, <2>2, EndsAreFinalStep, OutcomeFrame DEF OutcomeInv
<1>14. ASSUME NEW t \in Thread, ServiceDelete(t) PROVE OutcomeInv'
  <2>1. Outcome(t)'
    <3>1. /\ pc'[t] = "answered" /\ UNCHANGED <<call, ret, ask>>
      BY <1>14 DEF TypeOK, ServiceDelete, Answered
    <3> QED
      BY <1>14, <3>1, EndsAreFinalStep, FieldTypes
      DEF TypeOK, OutcomeInv, Outcome, EndsAreFinal, Terminal, ServiceDelete, Answered, Cancelled, Status
  <2>2. \A s \in Thread \ {t} : Bystander(s)
    BY <1>14 DEF TypeOK, Bystander, ServiceDelete, Answered
  <2> QED
    BY <2>1, <2>2, EndsAreFinalStep, OutcomeFrame DEF OutcomeInv
<1>15. ASSUME NEW t \in Thread, ServiceStatus(t) PROVE OutcomeInv'
  <2>1. Outcome(t)'
    <3>1. /\ pc'[t] = "answered" /\ UNCHANGED <<call, ret, ask>>
      BY <1>15 DEF TypeOK, ServiceStatus, Answered
    <3> QED
      BY <1>15, <3>1, EndsAreFinalStep, FieldTypes
      DEF TypeOK, OutcomeInv, Outcome, EndsAreFinal, Terminal, ServiceStatus, Answered
  <2>2. \A s \in Thread \ {t} : Bystander(s)
    BY <1>15 DEF TypeOK, Bystander, ServiceStatus, Answered
  <2> QED
    BY <2>1, <2>2, EndsAreFinalStep, OutcomeFrame DEF OutcomeInv
<1>16. ASSUME NEW t \in Thread, ServiceResult(t) PROVE OutcomeInv'
  <2>1. Outcome(t)'
    <3>1. /\ pc'[t] = "answered" /\ UNCHANGED <<call, ret, ask>>
      BY <1>16 DEF TypeOK, ServiceResult, Answered
    <3> QED
      BY <1>16, <3>1, EndsAreFinalStep, FieldTypes
      DEF TypeOK, OutcomeInv, Outcome, EndsAreFinal, Terminal, ServiceResult, Answered, Refusal
  <2>2. \A s \in Thread \ {t} : Bystander(s)
    BY <1>16 DEF TypeOK, Bystander, ServiceResult, Answered
  <2> QED
    BY <2>1, <2>2, EndsAreFinalStep, OutcomeFrame DEF OutcomeInv
<1>17. ASSUME NEW r \in latePost, LatePost(r) PROVE OutcomeInv'
  <2>1. \A s \in Thread : Bystander(s)
    BY <1>17 DEF TypeOK, Bystander, LatePost
  <2> QED
    BY <2>1, EndsAreFinalStep, OutcomeFrame DEF OutcomeInv
<1>18. ASSUME NEW u \in Uuid, LateDelete(u) PROVE OutcomeInv'
  <2>1. \A s \in Thread : Bystander(s)
    BY <1>18 DEF TypeOK, Bystander, LateDelete
  <2> QED
    BY <2>1, EndsAreFinalStep, OutcomeFrame DEF OutcomeInv
<1>19. ASSUME NEW u \in Uuid, JobEnds(u) PROVE OutcomeInv'
  <2>1. \A s \in Thread : Bystander(s)
    BY <1>19 DEF TypeOK, Bystander, JobEnds
  <2> QED
    BY <2>1, EndsAreFinalStep, OutcomeFrame DEF OutcomeInv
<1>20. CASE UNCHANGED vars
  <2>1. \A s \in Thread : Bystander(s)
    BY <1>20 DEF Bystander
  <2> QED
    BY <2>1, EndsAreFinalStep, OutcomeFrame DEF OutcomeInv
<1> QED
  BY <1>1, <1>2, <1>3, <1>4, <1>5, <1>6, <1>7, <1>8, <1>9, <1>10,
     <1>11, <1>12, <1>13, <1>14, <1>15, <1>16, <1>17, <1>18, <1>19, <1>20
  DEF Next, Begin, Proceed, Service

\* A thread whose wait stands still, or that does not wait, keeps its account.
NoWaitStep(s) ==
  Waiting(s)' => /\ Waiting(s)
                 /\ call'[s] = call[s]
                 /\ loop'[s] = loop[s]
                 /\ \/ pc'[s] = pc[s]
                    \/ {pc[s], pc'[s]} \subseteq {"sent", "answered"}

\* A thread's account of its wait is not disturbed by steps outside its loop.
LEMMA WaitFrame ==
  ASSUME NEW s \in Thread, Waiting(s) => Account(s), NoWaitStep(s)
  PROVE  (Waiting(s) => Account(s))'
BY DEF NoWaitStep, Account, ToInt

\* Every step of a wait keeps its account of time and of status checks.
LEMMA WaitInvStep ==
  ASSUME TypeOK, WaitInv, [Next]_vars
  PROVE  WaitInv'
<1> USE DEF vars, clientVars, threadVars, serviceVars
<1>1. ASSUME NEW t \in Thread, NEW j \in Job, SubmitJob(t, j) PROVE WaitInv'
  <2>1. \A s \in Thread : NoWaitStep(s)
    BY <1>1 DEF TypeOK, NoWaitStep, Waiting, SubmitJob, Start, Send
  <2> QED
    BY <2>1, WaitFrame DEF WaitInv
<1>2. ASSUME NEW t \in Thread, NEW j \in Job, CancelJob(t, j) PROVE WaitInv'
  <2>1. \A s \in Thread : NoWaitStep(s)
    BY <1>2 DEF TypeOK, NoWaitStep, Waiting, CancelJob, MayRead, Start, Send
  <2> QED
    BY <2>1, WaitFrame DEF WaitInv
<1>3. ASSUME NEW t \in Thread, NEW j \in Job, GetJobStatus(t, j) PROVE WaitInv'
  <2>1. \A s \in Thread : NoWaitStep(s)
    BY <1>3 DEF TypeOK, NoWaitStep, Waiting, GetJobStatus, MayRead, Start, Send
  <2> QED
    BY <2>1, WaitFrame DEF WaitInv
<1>4. ASSUME NEW t \in Thread, NEW j \in Job, GetJobResult(t, j) PROVE WaitInv'
  <2>1. \A s \in Thread : NoWaitStep(s)
    BY <1>4 DEF TypeOK, NoWaitStep, Waiting, GetJobResult, MayRead, Start, Send
  <2> QED
    BY <2>1, WaitFrame DEF WaitInv
<1>5. ASSUME NEW t \in Thread, NEW j \in Job, NEW k \in Timeout,
             WaitForJobResult(t, j, k)
      PROVE WaitInv'
  <2>1. \A s \in Thread \ {t} : NoWaitStep(s)
    BY <1>5 DEF TypeOK, NoWaitStep, Waiting, WaitForJobResult, Start
  <2>2. Account(t)'
    <3>1. /\ loop'[t] = [left |-> ToInt(k), slept |-> 0, polls |-> 0]
          /\ pc'[t] = "loop" /\ call'[t].timeout = k
      BY <1>5 DEF TypeOK, WaitForJobResult, Start
    <3>2. ToInt(k) \in Int /\ ToInt(k)' = ToInt(k)
      BY ConstantsAssumption, ToIntType DEF ToInt
    <3> QED
      BY <3>1, <3>2 DEF Account
  <2> QED
    BY <2>1, <2>2, WaitFrame DEF WaitInv
<1>6. ASSUME NEW t \in Thread, WaitLoop(t) PROVE WaitInv'
  <2>1. \A s \in Thread \ {t} : NoWaitStep(s)
    BY <1>6 DEF TypeOK, NoWaitStep, Waiting, WaitLoop, Send, Finish
  <2>2. (Waiting(t) => Account(t))'
    <3>1. SUFFICES ASSUME Waiting(t)' PROVE Account(t)'
      OBVIOUS
    <3>2. /\ pc[t] = "loop" /\ pc'[t] = "sent" /\ call' = call
          /\ loop[t].left > 0
          /\ loop' = [loop EXCEPT ![t].polls = @ + 1]
      BY <1>6, <3>1 DEF TypeOK, Waiting, WaitLoop, Send, Finish
    <3>3. /\ loop'[t].left = loop[t].left
          /\ loop'[t].slept = loop[t].slept
          /\ loop'[t].polls = loop[t].polls + 1
      BY <3>2 DEF TypeOK, Loop
    <3>4. Account(t)
      BY <3>1, <3>2 DEF WaitInv, Waiting
    <3>5. ToInt(call[t].timeout) \in Int
      BY FieldTypes, ToIntType
    <3> QED
      BY <3>2, <3>3, <3>4, <3>5, FieldTypes DEF Account, ToInt
  <2> QED
    BY <2>1, <2>2, WaitFrame DEF WaitInv
<1>7. ASSUME NEW t \in Thread, RequestFails(t) PROVE WaitInv'
  <2>1. \A s \in Thread : NoWaitStep(s)
    BY <1>7 DEF TypeOK, NoWaitStep, Waiting, RequestFails
  <2> QED
    BY <2>1, WaitFrame DEF WaitInv
<1>8. ASSUME NEW t \in Thread, SubmitReturns(t) PROVE WaitInv'
  <2>1. \A s \in Thread : NoWaitStep(s)
    BY <1>8 DEF TypeOK, NoWaitStep, Waiting, SubmitReturns, Finish
  <2> QED
    BY <2>1, WaitFrame DEF WaitInv
<1>9. ASSUME NEW t \in Thread, CancelReturns(t) PROVE WaitInv'
  <2>1. \A s \in Thread : NoWaitStep(s)
    BY <1>9 DEF TypeOK, NoWaitStep, Waiting, CancelReturns, Finish
  <2> QED
    BY <2>1, WaitFrame DEF WaitInv
<1>10. ASSUME NEW t \in Thread, StatusReturns(t) PROVE WaitInv'
  <2>1. \A s \in Thread : NoWaitStep(s)
    BY <1>10 DEF TypeOK, NoWaitStep, Waiting, StatusReturns, Finish
  <2> QED
    BY <2>1, WaitFrame DEF WaitInv
<1>11. ASSUME NEW t \in Thread, PollReturns(t) PROVE WaitInv'
  <2>1. \A s \in Thread \ {t} : NoWaitStep(s)
    BY <1>11 DEF TypeOK, NoWaitStep, Waiting, PollReturns, Send, Finish
  <2>2. CASE pc'[t] \in {"idle", "sent"}
    <3>1. NoWaitStep(t)
      BY <1>11, <2>2 DEF TypeOK, NoWaitStep, Waiting, PollReturns, Send, Finish
    <3> QED
      BY <2>1, <3>1, WaitFrame DEF WaitInv
  <2>3. CASE pc'[t] \notin {"idle", "sent"}
    <3> DEFINE nap == SleepSeconds(loop[t].left)
    <3>1. /\ pc[t] = "answered" /\ pc'[t] = "loop" /\ call' = call
          /\ loop'[t] = [left |-> loop[t].left - nap, slept |-> loop[t].slept + nap,
                         polls |-> loop[t].polls]
      BY <1>11, <2>3 DEF TypeOK, PollReturns, Send, Finish
    <3>2. Account(t)
      BY <1>11, <3>1 DEF WaitInv, Waiting, PollReturns
    <3>3. loop[t].left > 0 /\ nap = IF loop[t].left = 1 THEN 1 ELSE 2
      BY <3>1, <3>2, FieldTypes DEF Account, SleepSeconds, PollSeconds
    <3>4. /\ ToInt(call[t].timeout) \in Int
          /\ ToInt(call[t].timeout)' = ToInt(call[t].timeout)
      BY <3>1, FieldTypes, ToIntType DEF ToInt
    <3>5. Account(t)'
      <4> HIDE DEF nap
      <4>1. nap \in {1, 2} /\ nap <= loop[t].left /\ (nap = 1 => loop[t].left = 1)
        BY <3>3, FieldTypes
      <4>2. /\ loop[t].slept = 2 * (loop[t].polls - 1)
            /\ loop[t].left + loop[t].slept = ToInt(call[t].timeout)
            /\ loop[t].slept >= 0
        BY <3>1, <3>2, <3>3 DEF Account
      <4>3. loop[t].polls = (loop[t].slept + nap + 1) \div 2
        BY <4>1, <4>2, FieldTypes
      <4>4. /\ loop'[t].left = loop[t].left - nap
            /\ loop'[t].slept = loop[t].slept + nap
            /\ loop'[t].polls = loop[t].polls
        BY <3>1
      <4>5. loop'[t].left > 0 => loop'[t].slept = 2 * (loop'[t].polls - 0)
        BY <4>1, <4>2, <4>4, FieldTypes
      <4>6. loop'[t].left >= 0 /\ loop'[t].slept >= 0
        BY <4>1, <4>2, <4>4, FieldTypes
      <4>7. loop'[t].left + loop'[t].slept = ToInt(call[t].timeout)'
        BY <3>4, <4>1, <4>2, <4>4, FieldTypes
      <4>8. loop'[t].polls = (loop'[t].slept + 1) \div 2
        BY <4>3, <4>4
      <4>9. loop'[t].polls = loop'[t].polls + 0
        BY <4>4, FieldTypes
      <4> QED
        BY <3>1, <4>5, <4>6, <4>7, <4>8, <4>9 DEF Account
    <3> QED
      BY <2>1, <3>5, WaitFrame DEF WaitInv
  <2> QED
    BY <2>2, <2>3
<1>12. ASSUME NEW t \in Thread, ResultReturns(t) PROVE WaitInv'
  <2>1. \A s \in Thread : NoWaitStep(s)
    BY <1>12 DEF TypeOK, NoWaitStep, Waiting, ResultReturns, Finish
  <2> QED
    BY <2>1, WaitFrame DEF WaitInv
<1>13. ASSUME NEW t \in Thread, ServicePost(t) PROVE WaitInv'
  <2>1. \A s \in Thread : NoWaitStep(s)
    BY <1>13 DEF TypeOK, NoWaitStep, Waiting, ServicePost, Answered
  <2> QED
    BY <2>1, WaitFrame DEF WaitInv
<1>14. ASSUME NEW t \in Thread, ServiceDelete(t) PROVE WaitInv'
  <2>1. \A s \in Thread : NoWaitStep(s)
    BY <1>14 DEF TypeOK, NoWaitStep, Waiting, ServiceDelete, Answered
  <2> QED
    BY <2>1, WaitFrame DEF WaitInv
<1>15. ASSUME NEW t \in Thread, ServiceStatus(t) PROVE WaitInv'
  <2>1. \A s \in Thread : NoWaitStep(s)
    BY <1>15 DEF TypeOK, NoWaitStep, Waiting, ServiceStatus, Answered
  <2> QED
    BY <2>1, WaitFrame DEF WaitInv
<1>16. ASSUME NEW t \in Thread, ServiceResult(t) PROVE WaitInv'
  <2>1. \A s \in Thread : NoWaitStep(s)
    BY <1>16 DEF TypeOK, NoWaitStep, Waiting, ServiceResult, Answered
  <2> QED
    BY <2>1, WaitFrame DEF WaitInv
<1>17. ASSUME NEW r \in latePost, LatePost(r) PROVE WaitInv'
  <2>1. \A s \in Thread : NoWaitStep(s)
    BY <1>17 DEF TypeOK, NoWaitStep, Waiting, LatePost
  <2> QED
    BY <2>1, WaitFrame DEF WaitInv
<1>18. ASSUME NEW u \in Uuid, LateDelete(u) PROVE WaitInv'
  <2>1. \A s \in Thread : NoWaitStep(s)
    BY <1>18 DEF TypeOK, NoWaitStep, Waiting, LateDelete
  <2> QED
    BY <2>1, WaitFrame DEF WaitInv
<1>19. ASSUME NEW u \in Uuid, JobEnds(u) PROVE WaitInv'
  <2>1. \A s \in Thread : NoWaitStep(s)
    BY <1>19 DEF TypeOK, NoWaitStep, Waiting, JobEnds
  <2> QED
    BY <2>1, WaitFrame DEF WaitInv
<1>20. CASE UNCHANGED vars
  <2>1. \A s \in Thread : NoWaitStep(s)
    BY <1>20 DEF NoWaitStep, Waiting
  <2> QED
    BY <2>1, WaitFrame DEF WaitInv
<1> QED
  BY <1>1, <1>2, <1>3, <1>4, <1>5, <1>6, <1>7, <1>8, <1>9, <1>10,
     <1>11, <1>12, <1>13, <1>14, <1>15, <1>16, <1>17, <1>18, <1>19, <1>20
  DEF Next, Begin, Proceed, Service

----------------------------------------------------------------------------
(* The theorems *)

\* The inductive invariant.
IInv == TypeOK /\ CallShape /\ SubmitInv /\ OutcomeInv /\ WaitInv

\* The inductive invariant holds in every reachable state.
THEOREM InductiveInvariant == Spec => []IInv
<1>1. Init => CallShape /\ SubmitInv /\ OutcomeInv /\ WaitInv
  <2> SUFFICES ASSUME Init PROVE CallShape /\ SubmitInv /\ OutcomeInv /\ WaitInv
    OBVIOUS
  <2> USE ConstantsAssumption DEF Init
  <2>1. CallShape /\ WaitInv
    BY DEF CallShape, Submitting, Posting, WaitInv, Waiting
  <2>2. SubmitInv
    BY DEF SubmitInv, Posting, OneJobPerSubmit, UuidOfLastAcknowledged
  <2>3. OutcomeInv
    BY DEF OutcomeInv, Outcome, Pending
  <2> QED
    BY <2>1, <2>2, <2>3
<1>2. /\ TypeOK /\ CallShape /\ SubmitInv /\ OutcomeInv /\ WaitInv
      /\ [Next]_vars
      => (CallShape /\ SubmitInv /\ OutcomeInv /\ WaitInv)'
  BY CallShapeStep, SubmitInvStep, OutcomeInvStep, WaitInvStep
<1> QED
  BY <1>1, <1>2, TypeCorrect, PTL DEF Spec, IInv

\* submitJob and setUuid: a JobRequest always carries the uuid of the last of
\* its submissions that was acknowledged, whatever timed out in between.
THEOREM UuidSafe == Spec => []UuidOfLastAcknowledged
<1>1. IInv => UuidOfLastAcknowledged
  BY DEF IInv, SubmitInv
<1> QED
  BY <1>1, InductiveInvariant, PTL

\* request() sends a POST once: a call of submitJob creates at most one job.
THEOREM SubmitSafe == Spec => []OneJobPerSubmit
<1>1. IInv => OneJobPerSubmit
  BY DEF IInv, SubmitInv
<1> QED
  BY <1>1, InductiveInvariant, PTL

\* getJobResult and waitForJobResult: a result handed out is that of a
\* completed job submitted through the JobRequest asked about.
THEOREM ResultSafe == Spec => []ResultIsOwn
<1>1. IInv => ResultIsOwn
  BY DEF IInv, OutcomeInv, Outcome, ResultIsOwn
<1> QED
  BY <1>1, InductiveInvariant, PTL

\* cancelJob returns normally only if the job has ended.
THEOREM CancelSafe == Spec => []CancelOkMeansTerminal
<1>1. IInv => CancelOkMeansTerminal
  BY DEF IInv, OutcomeInv, Outcome, CancelOkMeansTerminal
<1> QED
  BY <1>1, InductiveInvariant, PTL

\* waitForJobResult sleeps exactly the time it has consumed of its timeout,
\* whatever the width of int and whatever the timeout.
THEOREM WaitSafe == Spec => []WaitBudget
<1>1. IInv => WaitBudget
  <2> SUFFICES ASSUME IInv, NEW t \in Thread, Waiting(t), Account(t)
               PROVE  /\ loop[t].left + loop[t].slept = ToInt(call[t].timeout)
                      /\ loop[t].slept >= 0
                      /\ loop[t].slept = 0 \/ loop[t].left >= 0
                      /\ loop[t].left <= 0 => pc[t] = "loop"
                      /\ loop[t].polls =
                           (loop[t].slept + 1) \div 2
                             + (IF pc[t] = "loop" THEN 0 ELSE 1)
    BY DEF IInv, WaitInv, Waiting, WaitBudget
  <2> QED
    BY DEF Account
<1> QED
  BY <1>1, InductiveInvariant, PTL

----------------------------------------------------------------------------
(* What a call knows when it returns *)

\* A DELETE is that of a cancelJob; until submitJob is back its submission is not
\* acknowledged and the JobRequest keeps its uuid; a status read stays true once
\* it says that the job has ended.
InCall(t) ==
  LET j == call[t].job
      u == call[t].uuid
  IN /\ (pc[t] \in {"sent", "answered"} /\ ask[t] = "DELETE") => call[t].op = "cancel"
     /\ Posting(t) => acked[j] # subs[j] /\ mUuid[j] = u
     /\ (pc[t] = "answered" /\ ask[t] = "STATUS" /\ answer[t].body = "field") =>
          /\ u \in Uuid
          /\ answer[t].status \in Terminal => status[u] = answer[t].status

InCallInv == \A t \in Thread : InCall(t)

\* A step of another thread, on another JobRequest if a submission is under way,
\* changes nothing of what a call knows.
LEMMA InCallFrame ==
  ASSUME TypeOK, EndsAreFinal, NEW s \in Thread, InCall(s),
         pc'[s] = pc[s], call'[s] = call[s], ask'[s] = ask[s], answer'[s] = answer[s],
         Posting(s) => /\ acked'[call[s].job] = acked[call[s].job]
                       /\ subs'[call[s].job] = subs[call[s].job]
                       /\ mUuid'[call[s].job] = mUuid[call[s].job]
  PROVE  InCall(s)'
BY FieldTypes DEF InCall, EndsAreFinal, Posting

\* No submission is acknowledged that was not made.
LEMMA AckedBound ==
  ASSUME TypeOK, SubmitInv, NEW j \in Job
  PROVE  acked[j] <= subs[j]
<1>1. acked[j] \in Nat /\ subs[j] \in Nat
  BY DEF TypeOK
<1>2. CASE mUuid[j] = NoUuid
  <2>1. acked[j] = 0
    BY <1>2 DEF SubmitInv, UuidOfLastAcknowledged
  <2> QED
    BY <1>1, <2>1
<1>3. CASE mUuid[j] # NoUuid
  <2>1. [uuid |-> mUuid[j], job |-> j, sub |-> acked[j]] \in ledger
    BY <1>3 DEF SubmitInv, UuidOfLastAcknowledged
  <2>2. acked[j] \in 1..subs[j]
    BY <2>1 DEF SubmitInv
  <2> QED
    BY <1>1, <2>2
<1> QED
  BY <1>2, <1>3

\* Every step keeps what the calls in progress know.
LEMMA InCallInvStep ==
  ASSUME TypeOK, CallShape, SubmitInv, InCallInv, [Next]_vars
  PROVE  InCallInv'
<1> USE DEF vars, clientVars, threadVars, serviceVars
<1>0. EndsAreFinal /\ (\A s \in Thread : call[s].job \in Job)
  BY EndsAreFinalStep, FieldTypes
<1>1. ASSUME NEW t \in Thread, UNCHANGED clientVars, InCall(t)',
             \A s \in Thread \ {t} :
               /\ pc'[s] = pc[s] /\ call'[s] = call[s]
               /\ ask'[s] = ask[s] /\ answer'[s] = answer[s]
      PROVE  InCallInv'
  BY <1>0, <1>1, InCallFrame DEF InCallInv
<1>2. ASSUME NEW t \in Thread, NEW j \in Job, SubmitJob(t, j) PROVE InCallInv'
  <2>1. /\ subs' = [subs EXCEPT ![j] = @ + 1] /\ acked' = acked /\ mUuid' = mUuid
        /\ call'[t].uuid = mUuid[j] /\ call'[t].job = j
        /\ pc'[t] = "sent" /\ ask'[t] = "POST"
        /\ \A s \in Thread : ~Using(s, j)
    BY <1>2 DEF TypeOK, SubmitJob, Start, Send
  <2>2. acked[j] # subs'[j]
    <3>1. acked[j] <= subs[j] /\ acked[j] \in Nat /\ subs[j] \in Nat /\ subs'[j] = subs[j] + 1
      BY <2>1, AckedBound DEF TypeOK
    <3> QED
      BY <3>1
  <2>3. InCall(t)'
    BY <2>1, <2>2 DEF InCall, Posting
  <2>4. ASSUME NEW s \in Thread \ {t} PROVE InCall(s)'
    <3>1. /\ pc'[s] = pc[s] /\ call'[s] = call[s] /\ ask'[s] = ask[s] /\ answer'[s] = answer[s]
      BY <1>2 DEF TypeOK, SubmitJob, Start, Send
    <3>2. Posting(s) => subs'[call[s].job] = subs[call[s].job]
      BY <1>0, <2>1 DEF Posting, Using, TypeOK
    <3> QED
      BY <1>0, <2>1, <3>1, <3>2, InCallFrame DEF InCallInv
  <2> QED
    BY <2>3, <2>4 DEF InCallInv
<1>3. ASSUME NEW t \in Thread, NEW j \in Job,
             CancelJob(t, j) \/ GetJobStatus(t, j) \/ GetJobResult(t, j)
      PROVE  InCallInv'
  <2>1. InCall(t)'
    BY <1>3 DEF TypeOK, InCall, Posting, CancelJob, GetJobStatus, GetJobResult, Start, Send
  <2> QED
    BY <1>1, <1>3, <2>1 DEF TypeOK, CancelJob, GetJobStatus, GetJobResult, Start, Send
<1>4. ASSUME NEW t \in Thread, NEW j \in Job, NEW k \in Timeout, WaitForJobResult(t, j, k)
      PROVE  InCallInv'
  <2>1. InCall(t)'
    BY <1>4 DEF TypeOK, InCall, Posting, WaitForJobResult, Start
  <2> QED
    BY <1>1, <1>4, <2>1 DEF TypeOK, WaitForJobResult, Start
<1>5. ASSUME NEW t \in Thread, WaitLoop(t) \/ PollReturns(t) PROVE InCallInv'
  <2>1. InCall(t)'
    BY <1>5 DEF TypeOK, InCall, Posting, WaitLoop, PollReturns, Send, Finish
  <2> QED
    BY <1>1, <1>5, <2>1 DEF TypeOK, WaitLoop, PollReturns, Send, Finish
<1>6. ASSUME NEW t \in Thread, RequestFails(t) PROVE InCallInv'
  <2>1. InCall(t)'
    BY <1>6 DEF TypeOK, InCallInv, InCall, Posting, RequestFails, FailedAnswer, NoAnswer
  <2> QED
    BY <1>1, <1>6, <2>1 DEF TypeOK, RequestFails
<1>7. ASSUME NEW t \in Thread, SubmitReturns(t) PROVE InCallInv'
  <2>1. InCall(t)'
    BY <1>7 DEF TypeOK, InCall, Posting, SubmitReturns, Finish
  <2>2. ASSUME NEW s \in Thread \ {t} PROVE InCall(s)'
    <3>1. /\ pc'[s] = pc[s] /\ call'[s] = call[s] /\ ask'[s] = ask[s] /\ answer'[s] = answer[s]
          /\ subs' = subs
      BY <1>7 DEF TypeOK, SubmitReturns, Finish
    <3>2. Posting(s) => call[s].job # call[t].job
      BY <1>7 DEF CallShape, Submitting, Posting, Using, SubmitReturns
    <3>3. \A j \in Job : j # call[t].job => acked'[j] = acked[j] /\ mUuid'[j] = mUuid[j]
      BY <1>0, <1>7 DEF TypeOK, SubmitReturns, SetUuid
    <3> QED
      BY <1>0, <3>1, <3>2, <3>3, InCallFrame DEF InCallInv
  <2> QED
    BY <2>1, <2>2 DEF InCallInv
<1>8. ASSUME NEW t \in Thread, CancelReturns(t) \/ StatusReturns(t) \/ ResultReturns(t)
      PROVE  InCallInv'
  <2>1. InCall(t)'
    BY <1>8 DEF TypeOK, InCall, Posting, CancelReturns, StatusReturns, ResultReturns, Finish
  <2> QED
    BY <1>1, <1>8, <2>1 DEF TypeOK, CancelReturns, StatusReturns, ResultReturns, Finish
<1>9. ASSUME NEW t \in Thread,
             ServicePost(t) \/ ServiceDelete(t) \/ ServiceStatus(t) \/ ServiceResult(t)
      PROVE  InCallInv'
  <2>1. /\ UNCHANGED clientVars /\ call' = call /\ ask' = ask
        /\ pc[t] = "sent" /\ pc'[t] = "answered"
        /\ \A s \in Thread \ {t} : pc'[s] = pc[s] /\ answer'[s] = answer[s]
    BY <1>9 DEF TypeOK, ServicePost, ServiceDelete, ServiceStatus, ServiceResult, Answered
  <2>2. (ask[t] = "STATUS" /\ answer'[t].body = "field") =>
          /\ call[t].uuid \in Uuid /\ answer'[t].status = status[call[t].uuid]
          /\ status' = status
    BY <1>9 DEF TypeOK, ServicePost, ServiceDelete, ServiceStatus, ServiceResult, Answered,
                Refusal
  <2>3. InCall(t)'
    BY <2>1, <2>2 DEF InCallInv, InCall, Posting
  <2> QED
    BY <1>1, <2>1, <2>3
<1>10. ASSUME UNCHANGED <<clientVars, pc, call, ask, answer>> PROVE InCallInv'
  BY <1>0, <1>10, InCallFrame DEF InCallInv
<1>11. ASSUME NEW r \in latePost, LatePost(r) PROVE InCallInv'
  BY <1>10, <1>11 DEF LatePost
<1>12. ASSUME NEW u \in Uuid, LateDelete(u) \/ JobEnds(u) PROVE InCallInv'
  BY <1>10, <1>12 DEF LateDelete, JobEnds
<1>13. CASE UNCHANGED vars
  BY <1>10, <1>13
<1> QED
  BY <1>2, <1>3, <1>4, <1>5, <1>6, <1>7, <1>8, <1>9, <1>11, <1>12, <1>13
  DEF Next, Begin, Proceed, Service

\* What the calls in progress know holds in every reachable state.
THEOREM InCallInvariant == Spec => []InCallInv
<1>1. Init => InCallInv
  BY DEF Init, InCallInv, InCall, Posting
<1>2. IInv /\ InCallInv /\ [Next]_vars => InCallInv'
  BY InCallInvStep DEF IInv
<1> QED
  BY <1>1, <1>2, InductiveInvariant, PTL DEF Spec

\* The step with which a call returns is one of the client's own.
LEMMA ReturnStep ==
  ASSUME TypeOK, [Next]_vars, NEW t \in Thread, Returns(t)
  PROVE  \/ WaitLoop(t) /\ loop[t].left <= 0
         \/ SubmitReturns(t)
         \/ CancelReturns(t)
         \/ StatusReturns(t)
         \/ PollReturns(t) /\ StopsWaiting(StatusValue(answer[t]))
         \/ ResultReturns(t)
<1> USE DEF Returns, TypeOK
<1>1. ASSUME NEW s \in Thread, Begin(s) PROVE FALSE
  BY <1>1 DEF Begin, SubmitJob, CancelJob, GetJobStatus, GetJobResult, WaitForJobResult,
              Start, Send
<1>2. ASSUME NEW s \in Thread, Proceed(s) PROVE s = t
  BY <1>2 DEF Proceed, WaitLoop, RequestFails, SubmitReturns, CancelReturns, StatusReturns,
              PollReturns, ResultReturns, Finish, Send
<1>3. ASSUME Service PROVE FALSE
  BY <1>3 DEF Service, ServicePost, ServiceDelete, ServiceStatus, ServiceResult, Answered,
              LatePost, LateDelete, JobEnds, threadVars
<1>4. ~UNCHANGED vars
  BY DEF vars, threadVars
<1>5. ~RequestFails(t)
  BY DEF RequestFails
<1>6. WaitLoop(t) => loop[t].left <= 0
  BY DEF WaitLoop, Send
<1>7. PollReturns(t) => StopsWaiting(StatusValue(answer[t]))
  BY DEF PollReturns, Send
<1> QED
  BY <1>1, <1>2, <1>3, <1>4, <1>5, <1>6, <1>7 DEF Next, Proceed

\* waitForJobResult's early return: a wait that gives up before its time on a
\* status it understood has a job that has failed or was cancelled.
THEOREM EarlyNullTrue == Spec => EarlyNullIsTrue
<1> DEFINE EarlyNull(t) == /\ Returns(t) /\ call[t].op = "wait" /\ ret'[t].val = "null"
                           /\ ask[t] = "STATUS" /\ answer[t].body = "field"
                           /\ loop[t].left > 0
<1>1. ASSUME IInv, InCallInv, [Next]_vars, NEW t \in Thread, EarlyNull(t)
      PROVE  status[call[t].uuid] \in {"FAILED", "CANCELLED"}
  <2>1. TypeOK /\ answer[t].status \in Status /\ loop[t].left \in Int
    BY <1>1, FieldTypes DEF IInv
  <2>2. PollReturns(t) /\ StopsWaiting(StatusValue(answer[t]))
    BY <1>1, <2>1, ReturnStep
       DEF SubmitReturns, CancelReturns, StatusReturns, ResultReturns
  <2> QED
    BY <1>1, <2>1, <2>2 DEF InCallInv, InCall, PollReturns, StopsWaiting, StatusValue,
                            Terminal, Status
<1>2. IInv /\ InCallInv /\ [Next]_vars =>
        [\A t \in Thread :
           (Returns(t) /\ call[t].op = "wait" /\ ret'[t].val = "null"
              /\ ask[t] = "STATUS" /\ answer[t].body = "field" /\ loop[t].left > 0)
             => status[call[t].uuid] \in {"FAILED", "CANCELLED"}]_vars
  BY <1>1
<1> QED
  BY <1>2, InductiveInvariant, InCallInvariant, PTL DEF Spec, EarlyNullIsTrue

----------------------------------------------------------------------------
(* Calls come to an end *)

\* What a wait in an exchange has left: it never polls without time to spare.
LEMMA WaitHasTime ==
  ASSUME TypeOK, WaitInv, NEW t \in Thread,
         pc[t] \in {"sent", "answered"}, call[t].op = "wait"
  PROVE  loop[t].left \in Int /\ loop[t].left > 0
BY FieldTypes DEF WaitInv, Waiting, Account

\* StepsLeft is a measure.
LEMMA StepsLeftNatural ==
  ASSUME TypeOK, WaitInv, NEW t \in Thread
  PROVE  StepsLeft(t) \in Nat
<1>1. pc[t] \in {"idle", "loop", "sent", "answered"} /\ loop[t].left \in Int
  BY FieldTypes DEF TypeOK
<1> QED BY <1>1, WaitHasTime DEF StepsLeft, ExchangeSteps

\* An answer to the exchange, or its loss, is a step to its end.
LEMMA AnswerShortens ==
  ASSUME TypeOK, WaitInv, NEW t \in Thread, pc[t] = "sent", pc'[t] = "answered",
         call' = call, ask' = ask, loop' = loop
  PROVE  StepsLeft(t)' < StepsLeft(t)
<1>1. loop[t].left \in Int
  BY FieldTypes
<1> QED BY <1>1 DEF StepsLeft, ExchangeSteps

\* Every step of the thread inside a call is.
LEMMA ProceedShortens ==
  ASSUME TypeOK, WaitInv, NEW t \in Thread, Proceed(t)
  PROVE  StepsLeft(t)' < StepsLeft(t)
<1>0. /\ pc[t] \in {"idle", "loop", "sent", "answered"}
      /\ DOMAIN pc = Thread /\ DOMAIN ask = Thread /\ DOMAIN answer = Thread
      /\ DOMAIN loop = Thread /\ loop[t].left \in Int
      /\ loop[t] = [left |-> loop[t].left, slept |-> loop[t].slept, polls |-> loop[t].polls]
  BY FieldTypes DEF TypeOK, Loop
<1>1. CASE WaitLoop(t)
  <2>1. CASE loop[t].left > 0
    <3>1. /\ pc[t] = "loop" /\ pc'[t] = "sent" /\ ask'[t] = "STATUS"
          /\ loop'[t].left = loop[t].left
      BY <1>0, <1>1, <2>1 DEF WaitLoop, Send
    <3> QED BY <1>0, <2>1, <3>1 DEF StepsLeft, ExchangeSteps
  <2>2. CASE ~(loop[t].left > 0)
    <3>1. pc[t] = "loop" /\ pc'[t] = "idle"
      BY <1>0, <1>1, <2>2 DEF WaitLoop, Finish
    <3> QED BY <1>0, <2>2, <3>1 DEF StepsLeft
  <2> QED BY <2>1, <2>2
<1>2. CASE RequestFails(t)
  <2>1. call' = call /\ ask' = ask /\ loop' = loop /\ pc'[t] = "answered"
    BY <1>0, <1>2 DEF RequestFails
  <2>2. CASE pc[t] = "sent"
    BY <2>1, <2>2, AnswerShortens
  <2>3. CASE pc[t] # "sent"
    <3>1. pc[t] = "answered" /\ answer[t].body # "fail" /\ answer'[t].body = "fail"
      BY <1>0, <1>2, <2>3 DEF RequestFails, FailedAnswer, NoAnswer
    <3> QED BY <1>0, <2>1, <3>1 DEF StepsLeft, ExchangeSteps
  <2> QED BY <2>2, <2>3
<1>3. ASSUME pc[t] = "answered", pc'[t] = "idle" PROVE StepsLeft(t)' < StepsLeft(t)
  BY <1>0, <1>3, WaitHasTime DEF StepsLeft, ExchangeSteps
<1>4. CASE SubmitReturns(t) \/ CancelReturns(t) \/ StatusReturns(t) \/ ResultReturns(t)
  BY <1>0, <1>3, <1>4
     DEF SubmitReturns, CancelReturns, StatusReturns, ResultReturns, Finish
<1>5. CASE PollReturns(t)
  <2> DEFINE s == StatusValue(answer[t])
             nap == SleepSeconds(loop[t].left)
  <2>1. /\ pc[t] = "answered" /\ ask[t] = "STATUS" /\ call[t].op = "wait" /\ call' = call
        /\ loop[t].left > 0
    BY <1>5, WaitHasTime DEF PollReturns
  <2>2. CASE StopsWaiting(s)
    BY <1>0, <1>3, <1>5, <2>2 DEF PollReturns, StopsWaiting, Finish
  <2>3. CASE ~StopsWaiting(s)
    <3>1. answer[t].body # "fail"
      BY <2>3 DEF StopsWaiting, StatusValue
    <3>2. StepsLeft(t) = 5 * loop[t].left - 1
      BY <1>0, <2>1, <3>1 DEF StepsLeft, ExchangeSteps
    <3>3. CASE s = "COMPLETED"
      <4>1. pc'[t] = "sent" /\ ask'[t] = "RESULT"
        BY <1>0, <1>5, <2>3, <3>3 DEF PollReturns, Send
      <4>2. StepsLeft(t)' = 3
        BY <4>1 DEF StepsLeft, ExchangeSteps
      <4> QED BY <1>0, <2>1, <3>2, <4>2
    <3>4. CASE s # "COMPLETED"
      <4>1. pc'[t] = "loop" /\ loop'[t].left = loop[t].left - nap
        BY <1>0, <1>5, <2>3, <3>4 DEF PollReturns
      <4>2. nap \in 1..loop[t].left
        BY <1>0, <2>1 DEF SleepSeconds, PollSeconds
      <4> HIDE DEF nap
      <4>3. StepsLeft(t)' = 5 * (loop[t].left - nap) + 1
        BY <1>0, <4>1, <4>2 DEF StepsLeft
      <4> QED BY <1>0, <3>2, <4>2, <4>3
    <3> QED BY <3>3, <3>4
  <2> QED BY <2>2, <2>3
<1> QED BY <1>1, <1>2, <1>4, <1>5 DEF Proceed

\* What no one does to a call leaves its measure, and is no step of its thread.
LEMMA ProceedMoves ==
  ASSUME TypeOK, NEW t \in Thread, Proceed(t)
  PROVE  ~UNCHANGED <<pc[t], call[t], ask[t], answer[t], loop[t]>>
BY DEF TypeOK, Proceed, WaitLoop, RequestFails, SubmitReturns, CancelReturns, StatusReturns,
       PollReturns, ResultReturns, Send, Finish, FailedAnswer, NoAnswer

\* Every call ends after a bounded number of steps, its exchanges, polls and sleeps
\* included: one and at most five for each second of the timeout of a wait, three of
\* any other call.
THEOREM CallsEnd == Spec => CallComesToEnd /\ [](\A t \in Thread : StepsLeft(t) \in Nat)
<1>1. ASSUME IInv, [Next]_vars, NEW t \in Thread, pc[t] # "idle"
      PROVE  \/ StepsLeft(t)' < StepsLeft(t)
             \/ ~Proceed(t) /\ UNCHANGED <<pc[t], call[t], ask[t], answer[t], loop[t]>>
  <2>0. TypeOK /\ WaitInv
    BY <1>1 DEF IInv
  <2>1. CASE Proceed(t)
    BY <2>0, <2>1, ProceedShortens
  <2>2. CASE ServicePost(t) \/ ServiceDelete(t) \/ ServiceStatus(t) \/ ServiceResult(t)
    <3>1. pc[t] = "sent" /\ pc'[t] = "answered" /\ call' = call /\ ask' = ask /\ loop' = loop
      BY <2>0, <2>2 DEF TypeOK, ServicePost, ServiceDelete, ServiceStatus, ServiceResult, Answered
    <3> QED BY <2>0, <3>1, AnswerShortens
  <2>3. ASSUME UNCHANGED <<pc[t], call[t], ask[t], answer[t], loop[t]>>
        PROVE  ~Proceed(t) /\ UNCHANGED <<pc[t], call[t], ask[t], answer[t], loop[t]>>
    BY <2>0, <2>3, ProceedMoves
  <2>4. ASSUME NEW s \in Thread, Begin(s)
        PROVE  UNCHANGED <<pc[t], call[t], ask[t], answer[t], loop[t]>>
    <3>1. pc[s] = "idle"
      BY <2>4 DEF Begin, SubmitJob, CancelJob, GetJobStatus, GetJobResult, WaitForJobResult, MayRead
    <3> QED BY <1>1, <2>0, <2>4, <3>1
            DEF TypeOK, Begin, SubmitJob, CancelJob, GetJobStatus, GetJobResult,
                WaitForJobResult, Start, Send
  <2>5. ASSUME NEW s \in Thread \ {t}, Proceed(s)
        PROVE  UNCHANGED <<pc[t], call[t], ask[t], answer[t], loop[t]>>
    BY <2>0, <2>5 DEF TypeOK, Proceed, WaitLoop, RequestFails, SubmitReturns, CancelReturns,
                      StatusReturns, PollReturns, ResultReturns, Send, Finish
  <2>6. ASSUME NEW s \in Thread \ {t},
               ServicePost(s) \/ ServiceDelete(s) \/ ServiceStatus(s) \/ ServiceResult(s)
        PROVE  UNCHANGED <<pc[t], call[t], ask[t], answer[t], loop[t]>>
    BY <2>0, <2>6 DEF TypeOK, ServicePost, ServiceDelete, ServiceStatus, ServiceResult, Answered
  <2>7. ASSUME \/ \E r \in latePost : LatePost(r)
               \/ \E u \in Uuid : LateDelete(u) \/ JobEnds(u)
               \/ UNCHANGED vars
        PROVE  UNCHANGED <<pc[t], call[t], ask[t], answer[t], loop[t]>>
    BY <2>7 DEF LatePost, LateDelete, JobEnds, threadVars, vars
  <2> QED BY <1>1, <2>1, <2>2, <2>3, <2>4, <2>5, <2>6, <2>7 DEF Next, Service
<1>2. IInv /\ [Next]_vars =>
        [\A t \in Thread :
           pc[t] # "idle" =>
             \/ StepsLeft(t)' < StepsLeft(t)
             \/ ~Proceed(t) /\ UNCHANGED <<pc[t], call[t], ask[t], answer[t], loop[t]>>]_vars
  BY <1>1
<1>3. IInv => \A t \in Thread : StepsLeft(t) \in Nat
  BY StepsLeftNatural DEF IInv
<1> QED
  BY <1>2, <1>3, InductiveInvariant, PTL DEF Spec, CallComesToEnd
=============================================================================

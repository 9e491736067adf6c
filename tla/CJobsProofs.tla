---------------------------- MODULE CJobsProofs ----------------------------
(***************************************************************************)
(* What the job functions of the C interface tell their caller, for any    *)
(* number of threads, handles, uuids and submissions: from the invariants  *)
(* of the job interface beneath them (JobClientProofs).                    *)
(***************************************************************************)
EXTENDS CJobs, JobClientProofs

\* A submitJob returns by the step that reads the answer to its POST, and no
\* other call does.
LEMMA SubmitReturnStep ==
  ASSUME IInv, [Next]_vars, NEW t \in Thread, Returns(t)
  PROVE  call[t].op = "submit" <=> SubmitReturns(t)
<1>1. TypeOK /\ (Submitting(t) <=> Posting(t))
  BY DEF IInv, CallShape
<1>2. SubmitReturns(t) => Posting(t)
  BY DEF SubmitReturns, Posting
<1>3. ~SubmitReturns(t) => ~Posting(t)
  BY <1>1, ReturnStep DEF Posting, WaitLoop, CancelReturns, StatusReturns, PollReturns,
                          ResultReturns
<1> QED
  BY <1>1, <1>2, <1>3 DEF Submitting, Returns

\* MQSSClientSubmitJob: -1 means that the submission was not acknowledged and the
\* handle keeps its job, any other number, -2 included, that the handle is about
\* the job the service made of this very submission.
THEOREM SubmitCodeTrue == Spec => SubmitCodeIsTrue
<1>1. ASSUME IInv, InCallInv, [Next]_vars, NEW t \in Thread, Returns(t),
             call[t].op = "submit", CReturn(call[t], ret'[t]) # "throw"
      PROVE  LET j == call[t].job
                 n == CReturn(call[t], ret'[t])
             IN /\ n = "minus1" <=> acked'[j] # subs[j]
                /\ n = "minus1" => mUuid'[j] = call[t].uuid
                /\ n # "minus1" => [uuid |-> mUuid'[j], job |-> j, sub |-> subs[j]] \in ledger
  <2> DEFINE j == call[t].job
             v == SubmitValue(answer[t].body)
             n == CReturn(call[t], ret'[t])
  <2>1. TypeOK /\ j \in Job /\ SubmitReturns(t)
    BY <1>1, SubmitReturnStep, FieldTypes DEF IInv
  <2>2. /\ ret'[t] = [val |-> v, got |-> answer[t].uuid] /\ Posting(t) /\ pc[t] = "answered"
        /\ v = "uuid" => mUuid' = [mUuid EXCEPT ![j] = answer[t].uuid]
                         /\ acked' = [acked EXCEPT ![j] = subs[j]]
        /\ v # "uuid" => mUuid' = mUuid /\ acked' = acked
    BY <2>1 DEF SubmitReturns, Finish, TypeOK, Posting, SetUuid
  <2>3. n = SubmitCode(ret'[t])
    BY <1>1 DEF CReturn
  <2>4. acked[j] # subs[j] /\ mUuid[j] = call[t].uuid
    BY <1>1, <2>2 DEF InCallInv, InCall
  <2>5. CASE v = "uuid"
    <3>1. answer[t].body = "field"
      BY <2>5 DEF SubmitValue
    <3>2. [uuid |-> answer[t].uuid, job |-> j, sub |-> subs[j]] \in ledger
      BY <1>1, <2>2, <3>1 DEF IInv, SubmitInv
    <3>3. n # "minus1"
      BY <2>2, <2>3, <2>5 DEF SubmitCode
    <3>4. acked'[j] = subs[j] /\ mUuid'[j] = answer[t].uuid
      BY <2>1, <2>2, <2>5 DEF TypeOK
    <3> QED
      BY <3>2, <3>3, <3>4
  <2>6. CASE v # "uuid"
    <3>1. v = "nullopt"
      BY <1>1, <2>2, <2>3, <2>6 DEF SubmitValue, SubmitCode
    <3>2. n = "minus1"
      BY <2>2, <2>3, <3>1 DEF SubmitCode
    <3> QED
      BY <2>2, <2>4, <2>6, <3>2
  <2> QED
    BY <2>5, <2>6
<1>2. IInv /\ InCallInv /\ [Next]_vars =>
        [\A t \in Thread :
           LET j == call[t].job
               n == CReturn(call[t], ret'[t])
           IN (Returns(t) /\ call[t].op = "submit" /\ n # "throw") =>
                /\ n = "minus1" <=> acked'[j] # subs[j]
                /\ n = "minus1" => mUuid'[j] = call[t].uuid
                /\ n # "minus1" => [uuid |-> mUuid'[j], job |-> j, sub |-> subs[j]] \in ledger]_vars
  BY <1>1
<1> QED
  BY <1>2, InductiveInvariant, InCallInvariant, PTL DEF Spec, SubmitCodeIsTrue

\* MQSSClientSubmitJob, MQSSClientCancelJob and MQSSClientGetJobResult: a failed
\* exchange never reaches C as an exception, only JSON of the wrong shape does.
THEOREM CFailuresContained == Spec => FailuresContained
<1>1. ASSUME IInv, InCallInv, [Next]_vars, NEW t \in Thread, Returns(t),
             CReturn(call[t], ret'[t]) = "throw"
      PROVE  answer[t].body \in {"nofield", "badfield"}
  <2>1. TypeOK
    BY <1>1 DEF IInv
  <2>2. CASE SubmitReturns(t)
    <3>1. ret'[t].val = SubmitValue(answer[t].body) /\ call[t].op = "submit"
      BY <1>1, <2>1, <2>2, SubmitReturnStep DEF SubmitReturns, Finish, TypeOK
    <3>2. ret'[t].val = "throw"
      BY <1>1, <3>1 DEF CReturn, SubmitCode
    <3> QED
      BY <3>1, <3>2 DEF SubmitValue
  <2>3. CASE ~SubmitReturns(t)
    <3>1. call[t].op \in {"result", "wait"} /\ ret'[t].val = "throw"
      BY <1>1, <2>3, SubmitReturnStep DEF CReturn, CancelCode, ResultCode
    <3>2. ~CancelReturns(t) /\ ~StatusReturns(t)
      BY <1>1, <3>1 DEF CancelReturns, StatusReturns, InCallInv, InCall
    <3>3. ~(WaitLoop(t) /\ loop[t].left <= 0)
      BY <2>1, <3>1, FieldTypes DEF WaitLoop, Finish, TypeOK
    <3>4. ~PollReturns(t)
      BY <1>1, <2>1, <3>1 DEF PollReturns, Finish, Send, Returns, TypeOK
    <3>5. ResultReturns(t)
      BY <1>1, <2>1, <2>3, <3>2, <3>3, <3>4, ReturnStep
    <3>6. ret'[t].val = ResultValue(answer[t].body)
      BY <2>1, <3>5 DEF ResultReturns, Finish, TypeOK
    <3> QED
      BY <3>1, <3>6 DEF ResultValue
  <2> QED
    BY <2>2, <2>3
<1>2. IInv /\ InCallInv /\ [Next]_vars =>
        [\A t \in Thread :
           (Returns(t) /\ CReturn(call[t], ret'[t]) = "throw")
             => answer[t].body \in {"nofield", "badfield"}]_vars
  BY <1>1
<1> QED
  BY <1>2, InductiveInvariant, InCallInvariant, PTL DEF Spec, FailuresContained
=============================================================================

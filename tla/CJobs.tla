------------------------------- MODULE CJobs -------------------------------
(***************************************************************************)
(* The job functions of the C interface (src/c_bindings/client.cpp) over   *)
(* the job interface of JobClient: MQSSClientSubmitJob, MQSSClientCancelJob*)
(* and MQSSClientGetJobResult.  They keep no state: what a function        *)
(* returns to C is computed from what the MQSSClient call returned.  A     *)
(* JobRequest is the object behind an MQSSJobRef, and calls through NULL   *)
(* handles return at once without doing anything.                          *)
(***************************************************************************)
EXTENDS JobClient

CONSTANT
  NumericUuid   \* uuids that begin with a number int can hold

ASSUME NumericUuidAssumption == NumericUuid \subseteq Uuid

\* MQSSClientSubmitJob on the optional that submitJob returned.  std::stoi reads
\* the number at the head of a uuid; a uuid does not begin with a sign.
SubmitCodeUnread(r) == IF r.val = "uuid" /\ r.got \in NumericUuid THEN "number" ELSE "minus1"
SubmitCode(r) ==
  IF r.val = "throw" THEN "throw"
  ELSE IF r.val = "nullopt" THEN "minus1"
  ELSE IF r.got \in NumericUuid THEN "number"
  ELSE "minus2"

\* MQSSClientCancelJob catches every std::exception of cancelJob.
CancelCodeUncaught(r) == IF r.val = "throw" THEN "throw" ELSE "void"
CancelCode(r) == "void"

\* MQSSClientGetJobResult hands the object out, or its exception through.
ResultCode(r) ==
  IF r.val = "throw" THEN "throw" ELSE IF r.val = "null" THEN "NULL" ELSE "handle"

CReturn(k, r) ==
  CASE k.op = "submit"           -> SubmitCode(r)
    [] k.op = "cancel"           -> CancelCode(r)
    [] k.op \in {"result", "wait"} -> ResultCode(r)
    [] OTHER                     -> "notInC"

----------------------------------------------------------------------------
(* Properties *)

\* Whatever MQSSClientSubmitJob returns, it tells whether the service has
\* acknowledged the submission: -1 if it has not, and then the handle keeps the
\* job it had; any other number, -2 included, if it has, and then the handle is
\* about that very job.
SubmitCodeIsTrue ==
  [][\A t \in Thread :
       LET j == call[t].job
           n == CReturn(call[t], ret'[t])
       IN (Returns(t) /\ call[t].op = "submit" /\ n # "throw") =>
            /\ n = "minus1" <=> acked'[j] # subs[j]
            /\ n = "minus1" => mUuid'[j] = call[t].uuid
            /\ n # "minus1" => [uuid |-> mUuid'[j], job |-> j, sub |-> subs[j]] \in ledger]_vars

\* An exception leaves a C function only on JSON of the wrong shape: no failed
\* or lost exchange, at whichever step of the call, reaches C as an exception.
FailuresContained ==
  [][\A t \in Thread :
       (Returns(t) /\ CReturn(call[t], ret'[t]) = "throw")
         => answer[t].body \in {"nofield", "badfield"}]_vars
=============================================================================

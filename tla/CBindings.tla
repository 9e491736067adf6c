----------------------------- MODULE CBindings -----------------------------
(***************************************************************************)
(* The functions of the C interface that hand out memory                   *)
(* (src/c_bindings): MQSSClientGetJobResultCounts ("counts"),              *)
(* MQSSClientResourceGetInfo ("info"), MQSSClientResourceGetGateInfo       *)
(* ("gate") and MQSSClientGetAllResources ("resources").  Each allocates   *)
(* in a series of steps, any of which can fail, and has to give back what  *)
(* it got before it reports an error.                                      *)
(***************************************************************************)
EXTENDS Integers

CONSTANT MaxItems   \* bound: result entries, gates or resources of one call

ASSUME MaxItemsAssumption == MaxItems \in Nat

VARIABLES
  fn,      \* the function called last
  size,    \* how many entries, gates or resources it hands out
  step,    \* its next allocation step
  live,    \* blocks it allocated and has not freed
  out,     \* the caller's output pointers, or the pointer returned to him
  ret,     \* what it returned; "throw" if operator new threw
  faulty   \* has it freed a block that was not live?

vars == <<fn, size, step, live, out, ret, faulty>>

Fn == {"counts", "info", "gate", "resources"}

\* The output pointers of each function; "result" is what it returns.
Outputs(f) ==
  CASE f = "counts" -> {"counts", "bitstreams"}
    [] f = "info" -> {"name", "couplingMap", "nativeGateset"}
    [] f = "gate" -> {"name", "supportedQubits"}
    [] f = "resources" -> {"result"}

\* A block is named after the output it hangs on: <<p, 0>> is what the pointer
\* itself points to, <<p, i>> the i-th element behind it.
Array(p) == <<p, 0>>
Block == (UNION {Outputs(f) : f \in Fn}) \X (0..MaxItems)

TypeOK ==
  /\ fn \in Fn
  /\ size \in 0..MaxItems
  /\ step \in 0..(MaxItems + 3)
  /\ live \subseteq Block
  /\ out \in [Outputs(fn) -> {"unset", "null", "block"}]
  /\ ret \in {"running", "ok", "error", "throw"}
  /\ faulty \in BOOLEAN

----------------------------------------------------------------------------
(* What each function allocates and gives back *)

\* The number of allocation steps; an empty result needs none.
StepsPastEnd(f, n) ==
  CASE f = "counts" -> n + 1
    [] f = "info" -> n + 4
    [] f = "gate" -> 2
    [] f = "resources" -> n + 2
Steps(f, n) ==
  CASE f = "counts" -> IF n = 0 THEN 0 ELSE n + 1
    [] f = "info" -> n + 3
    [] f = "gate" -> 2
    [] f = "resources" -> n + 1

\* The blocks asked for in step k.  counts asks for both arrays before it looks
\* at either.
Asked(f, k) ==
  CASE f = "counts" -> IF k = 0 THEN {Array("counts"), Array("bitstreams")}
                                ELSE {<<"bitstreams", k>>}
    [] f = "info" -> IF k = 0 THEN {Array("name")}
                     ELSE IF k = 1 THEN {Array("couplingMap")}
                     ELSE {<<"nativeGateset", k - 2>>}
    [] f = "gate" -> {Array(IF k = 0 THEN "name" ELSE "supportedQubits")}
    [] f = "resources" -> {<<"result", k>>}

\* Objects come from operator new, whose std::bad_alloc leaves the function.
ByNew(f, k) ==
  \/ f = "info" /\ k > 2
  \/ f = "resources" /\ k > 0

\* The blocks freed when step k fails.
GivenBackButElements(f, k) ==
  IF f = "counts" THEN {Array("counts"), Array("bitstreams")}
  ELSE {Array(p) : p \in IF k = 0 THEN {} ELSE
                         IF k = 1 THEN {"name"} ELSE {"name", "couplingMap"}}
GivenBack(f, k) ==
  CASE f = "counts" -> {Array("counts"), Array("bitstreams")}
                         \cup {<<"bitstreams", i>> : i \in 1..(k - 1)}
    [] f = "info" -> {Array(p) : p \in IF k = 0 THEN {} ELSE
                                       IF k = 1 THEN {"name"}
                                                ELSE {"name", "couplingMap"}}
    [] f = "gate" -> IF k = 0 THEN {} ELSE {Array("name")}
    [] f = "resources" -> {}

\* The output pointers that are NULL after step k has failed: the failed
\* allocation's own, and those the function resets.  counts resets none.
ResetNone(f, k) == {}
Reset(f, k) ==
  CASE f = "counts" -> {}
    [] f = "info" -> IF k = 0 THEN {} ELSE
                     IF k = 1 THEN {"name"} ELSE {"name", "couplingMap"}
    [] f = "gate" -> IF k = 0 THEN {} ELSE {"name"}
    [] f = "resources" -> {}

----------------------------------------------------------------------------
(* Calls *)

\* The outputs stay with the caller, who also owns what an earlier call
\* returned.
Call(f, n) ==
  /\ fn' = f
  /\ size' = n
  /\ step' = 0
  /\ live' = {}
  /\ ret' = IF Steps(f, n) = 0 THEN "ok" ELSE "running"
  /\ out' = [p \in Outputs(f) |-> IF Steps(f, n) = 0 THEN "null" ELSE "unset"]
  /\ UNCHANGED faulty

Init ==
  /\ fn = "counts"
  /\ size = 0
  /\ step = 0
  /\ live = {}
  /\ ret = "ok"
  /\ out = [p \in Outputs("counts") |-> "null"]
  /\ faulty = FALSE

BeginCall(f, n) ==
  /\ ret # "running"
  /\ Call(f, n)

\* The blocks the caller gets to see as soon as a step obtained got: output
\* parameters are written at once, while the array of resources is a local of
\* the function until it returns.
Shown(got) ==
  IF fn # "resources" THEN got
  ELSE IF step + 1 = Steps(fn, size) THEN live \cup got
  ELSE {}

\* Pointers take the value of their allocation, element blocks go behind them;
\* asprintf leaves name undefined when it fails.
Stored(got) ==
  [p \in DOMAIN out |->
     IF Array(p) \in Shown(got) THEN "block"
     ELSE IF Array(p) \in Asked(fn, step) \ got /\ <<fn, p>> # <<"info", "name">>
          THEN "null"
     ELSE out[p]]

AllocationSucceeds ==
  /\ ret = "running"
  /\ live' = live \cup Asked(fn, step)
  /\ out' = Stored(Asked(fn, step))
  /\ step' = step + 1
  /\ ret' = IF step + 1 = Steps(fn, size) THEN "ok" ELSE "running"
  /\ UNCHANGED <<fn, size, faulty>>

\* malloc(0) may return NULL.  MQSSClientGetAllResources takes that for an empty
\* array; the other functions take it for a failure (AllocationFails).
EmptyArrayIsNull ==
  /\ ret = "running"
  /\ fn = "resources"
  /\ size = 0
  /\ step' = step + 1
  /\ out' = [p \in DOMAIN out |-> "null"]
  /\ ret' = "ok"
  /\ UNCHANGED <<fn, size, live, faulty>>

\* got is what was obtained of several blocks asked for at once.
AllocationFails(got) ==
  /\ ret = "running"
  /\ got # Asked(fn, step)
  /\ fn = "resources" => size > 0
  /\ IF ByNew(fn, step)
     THEN /\ ret' = "throw"
          /\ UNCHANGED <<live, out, faulty>>
     ELSE LET freed == GivenBack(fn, step)
          IN /\ ret' = "error"
             /\ live' = (live \cup got) \ freed
             /\ faulty' = (faulty \/ ~(freed \subseteq live \cup Asked(fn, step)))
             /\ out' = [p \in DOMAIN out |->
                          IF p \in Reset(fn, step) THEN "null" ELSE Stored(got)[p]]
  /\ UNCHANGED <<fn, size, step>>

Next ==
  \/ \E f \in Fn, n \in 0..MaxItems : BeginCall(f, n)
  \/ AllocationSucceeds
  \/ EmptyArrayIsNull
  \/ \E got \in SUBSET Asked(fn, step) : AllocationFails(got)

Spec == Init /\ [][Next]_vars

----------------------------------------------------------------------------
(* Properties *)

\* A call that reports an error has given back every block it had allocated,
\* whichever allocation failed, and freed none it did not have (the clean-up
\* before each error return).
ErrorFreesAll == ~faulty /\ (ret = "error" => live = {})

\* Pointers the caller was given to arrays that are gone, and blocks nobody can
\* free because he was given no pointer that leads to them.
Dangling == {p \in DOMAIN out : out[p] = "block" /\ Array(p) \notin live}
Leaked   == {b \in live : out[b[1]] # "block"}

\* After a failure at any allocation the caller can reach all that is still
\* allocated and nothing that is not, with two exceptions: when
\* MQSSClientGetJobResultCounts fails its outputs may point to the arrays it has
\* freed, and when operator new throws in MQSSClientGetAllResources all is lost.
\* (MQSSClientResourceGetInfo resets what it frees, and when operator new throws
\* there it has freed nothing: its outputs are valid.)
CleanAfterFailure ==
  ret \in {"error", "throw"} =>
    /\ Dangling # {} => fn = "counts" /\ ret = "error"
    /\ Leaked = IF fn = "resources" /\ ret = "throw" THEN live ELSE {}

\* What a caller may read after success: behind every pointer its array, and
\* behind one of them as many elements as the size that was reported.
Promised(f, n) ==
  LET elements == CASE f = "counts" -> {"bitstreams"}
                    [] f = "info" -> {"nativeGateset"}
                    [] f = "gate" -> {}
                    [] f = "resources" -> {"result"}
  IN {Array(p) : p \in Outputs(f)} \cup (elements \X (1..n))

\* An empty result of counts is two NULL pointers; an array of no resources may
\* be NULL.
MayHold(f, n) ==
  CASE f = "counts" /\ n = 0 -> {{}}
    [] f = "resources" /\ n = 0 -> {{}, Promised(f, n)}
    [] OTHER -> {Promised(f, n)}

\* A call that succeeds leaves exactly the blocks its reported size promises, all
\* reachable from the outputs.
SuccessHandsOutAll ==
  ret = "ok" =>
    /\ live \in MayHold(fn, size)
    /\ \A p \in DOMAIN out : out[p] = "block" <=> Array(p) \in live
=============================================================================

------------------------------ MODULE JobData ------------------------------
(***************************************************************************)
(* The data a program puts into a job and gets out of it (src/job.cpp,     *)
(* include/mqss/job.h and, for C, src/c_bindings/job.cpp): building and    *)
(* serialising a JobRequest, and reading a JobResult.  The program holds   *)
(* one such object at a time, through C++, Python or a C handle.           *)
(***************************************************************************)
EXTENDS Integers, Sequences, SequencesExt

CONSTANTS
  Value,        \* what a program can say of a job
  Json,         \* JSON objects the service can send as the result of a job
  MicroDigits,  \* digits of a fraction in microseconds: 6 for the code
  DaySeconds,   \* seconds of a day
  IntHalf,      \* 2^31 for the code's int
  Word,         \* 2^64 for the code's uint64_t
  MaxSets       \* bound: calls of setters on one request

ASSUME JobDataAssumption ==
  /\ MicroDigits \in Nat \ {0}
  /\ DaySeconds \in Nat \ {0}
  /\ IntHalf \in Nat \ {0}
  /\ Word \in Nat \ {0}
  /\ MaxSets \in Nat

ASSUME ValueAssumption ==
  Value \cap {"nothing", "indeterminate", "empty", "NULL"} = {}

VARIABLES
  obj,       \* the object held: a request, a result or none
  told,      \* history: the value last given for each parameter, or "nothing"
  sets,      \* setters called so far
  payload,   \* what the last submission sent, unless a setter was called since
  json,      \* the JSON behind the result held
  counts,    \* what MQSSClientGetJobResultCounts handed out
  stamp,     \* what the three timestamp functions stored
  code       \* what they returned

requestVars == <<told, sets, payload>>
resultVars  == <<json, counts, stamp, code>>
vars == <<obj, requestVars, resultVars>>

Which == {"completed", "submitted", "scheduled"}

\* A JSON result is [result, maps, stamps]: result is "absent", "mistyped",
\* "notJson" (a string that is not JSON) or "maps"; maps is then the list of maps
\* in it, each a list of [key, number, count] in the order of their keys; number
\* is FALSE if the value is none.  A member of stamps is [kind, read, sec, point,
\* digits]: kind is "absent", "mistyped" or "text"; std::get_time reads "all" of
\* the text, only its "date", or "none" of it; digits follow its point, if any.
\* The service names times after the epoch and before 2262, where the nanoseconds
\* of std::chrono::system_clock end.
JsonEntry == [key : STRING, number : BOOLEAN, count : Int]
Timestamp ==
  {s \in [kind : {"absent", "mistyped", "text"}, read : {"all", "date", "none"},
           sec : Nat, point : BOOLEAN, digits : Seq(0..9)] :
     s.point \/ s.digits = <<>>}
JsonResult == [result : {"absent", "mistyped", "notJson", "maps"},
               maps : Seq(Seq(JsonEntry)), stamps : [Which -> Timestamp]]

PowerOfTen[k \in Nat] == IF k = 0 THEN 1 ELSE 10 * PowerOfTen[k - 1]

\* A fraction fits into int, and the microseconds of all these times into half of
\* uint64_t, so that they stay apart from a time just before the epoch.
ASSUME JsonAssumption ==
  /\ Json \subseteq JsonResult
  /\ PowerOfTen[MicroDigits] <= IntHalf
  /\ 2 * PowerOfTen[MicroDigits] < Word
  /\ \A j \in Json : \A w \in Which :
       (j.stamps[w].sec + 1) * PowerOfTen[MicroDigits] <= Word \div 2

----------------------------------------------------------------------------
(* Job requests *)

\* The program speaks of a job in the parameters of the constructors and setters.
Parameter(k) ==
  IF k = "circuit"
  THEN {"circuit", "circuitFormat", "resourceName", "shots", "noModify", "queued"}
  ELSE {"resourceName", "interactionStr", "coefficientsStr"}
StringParameter ==
  {"circuit", "circuitFormat", "resourceName", "interactionStr", "coefficientsStr"}

\* The data members of the two classes.
Member(k) ==
  IF k = "circuit"
  THEN {"mCircuit", "mCircuitFormat", "mResourceName", "mShots", "mNoModify", "mQueued"}
  ELSE {"mResourceName", "mInteractionStr", "mCoefficientsStr"}
StringMember ==
  {"mCircuit", "mCircuitFormat", "mResourceName", "mInteractionStr", "mCoefficientsStr"}

\* The parameter from which a constructor initialises each member.
Initialiser ==
  [mCircuit |-> "circuit", mCircuitFormat |-> "circuitFormat",
   mResourceName |-> "resourceName", mShots |-> "shots", mNoModify |-> "noModify",
   mQueued |-> "queued", mInteractionStr |-> "interactionStr",
   mCoefficientsStr |-> "coefficientsStr"]

\* The parameter MQSSClientCreate...Job passes for each one of a constructor.
CArgument ==
  [circuit |-> "circuit", circuitFormat |-> "circuitFormat",
   resourceName |-> "resourceName", shots |-> "shots", noModify |-> "noModify",
   queued |-> "queued", interactionStr |-> "interactionStr",
   coefficientsStr |-> "coefficientsStr"]

\* The member each setter writes.
SetterCrossed ==
  [circuit |-> "mCircuit", circuitFormat |-> "mCircuitFormat",
   resourceName |-> "mResourceName", shots |-> "mShots", noModify |-> "mQueued",
   queued |-> "mQueued", interactionStr |-> "mInteractionStr",
   coefficientsStr |-> "mCoefficientsStr"]
Setter ==
  [circuit |-> "mCircuit", circuitFormat |-> "mCircuitFormat",
   resourceName |-> "mResourceName", shots |-> "mShots", noModify |-> "mNoModify",
   queued |-> "mQueued", interactionStr |-> "mInteractionStr",
   coefficientsStr |-> "mCoefficientsStr"]

\* The keys of the JSON, and the member behind each.
Key(k) ==
  IF k = "circuit"
  THEN [circuit |-> "mCircuit", circuit_format |-> "mCircuitFormat",
        resource_name |-> "mResourceName", shots |-> "mShots",
        no_modify |-> "mNoModify", queued |-> "mQueued"]
  ELSE [resource_name |-> "mResourceName", interaction_str |-> "mInteractionStr",
        coefficients_str |-> "mCoefficientsStr"]

None == [kind |-> "none"]
Nothing == [m \in {} |-> "nothing"]

Hold(k, mem) ==
  /\ obj = None
  /\ obj' = [kind |-> k, mem |-> mem]
  /\ sets' = 0
  /\ payload' = Nothing
  /\ UNCHANGED resultVars

\* Strings are empty until they are set; shots, no_modify and queued are
\* indeterminate.
DefaultConstruct(k) ==
  /\ Hold(k, [m \in Member(k) |->
                IF m \in StringMember THEN "empty" ELSE "indeterminate"])
  /\ told' = [q \in Parameter(k) |-> "nothing"]

\* The constructors with all parameters.
Construct(k, args) ==
  /\ Hold(k, [m \in Member(k) |-> args[Initialiser[m]]])
  /\ told' = args

\* MQSSClientCreate...Job returns NULL if one of its strings is NULL.
CreateJobUnchecked(k, args) ==
  /\ Hold(k, [m \in Member(k) |-> args[CArgument[Initialiser[m]]]])
  /\ told' = args
CreateJob(k, args) ==
  /\ \A q \in StringParameter \cap Parameter(k) : args[q] # "NULL"
  /\ Hold(k, [m \in Member(k) |-> args[CArgument[Initialiser[m]]]])
  /\ told' = args

\* What C can pass: only strings can be NULL.
CArgs(k) ==
  {a \in [Parameter(k) -> Value \cup {"NULL"}] :
     \A q \in Parameter(k) \ StringParameter : a[q] # "NULL"}

Set(q, v) ==
  /\ obj.kind \in {"circuit", "hamiltonian"}
  /\ q \in Parameter(obj.kind)
  /\ sets < MaxSets
  /\ sets' = sets + 1
  /\ obj' = [obj EXCEPT !.mem[Setter[q]] = v]
  /\ told' = [told EXCEPT ![q] = v]
  /\ payload' = Nothing
  /\ UNCHANGED resultVars

\* toJson; an indeterminate member is read as any value.  The HPC service expects
\* a list of circuits.
ToJson(isHpc) ==
  LET key == Key(obj.kind)
  IN /\ obj.kind \in {"circuit", "hamiltonian"}
     /\ \E made \in [{m \in Member(obj.kind) : obj.mem[m] = "indeterminate"} -> Value] :
          payload' = [j \in DOMAIN key |->
                        [value |-> IF key[j] \in DOMAIN made THEN made[key[j]]
                                   ELSE obj.mem[key[j]],
                         list  |-> isHpc /\ j = "circuit"]]
     /\ UNCHANGED <<obj, told, sets, resultVars>>

----------------------------------------------------------------------------
(* Job results *)

Text(s) == s.kind = "text"
EmptyText == [kind |-> "text", read |-> "none", sec |-> 0, point |-> FALSE, digits |-> <<>>]

\* JobResult(json): .at and get throw on a member that is missing or mistyped.
Throws(j) ==
  \/ j.result \in {"absent", "mistyped"}
  \/ /\ j.result = "maps"
     /\ \/ \E w \in Which : ~Text(j.stamps[w])
        \/ \E m \in ToSet(j.maps) : \E e \in ToSet(m) : ~e.number

ToUnsigned(n) == n % (2 * IntHalf)

ResultOf(j) ==
  IF j.result = "notJson"
  THEN [kind |-> "result", results |-> <<>>, stamps |-> [w \in Which |-> EmptyText]]
  ELSE [kind |-> "result", stamps |-> j.stamps,
        results |-> [i \in DOMAIN j.maps |->
                       [k \in DOMAIN j.maps[i] |->
                          [key   |-> j.maps[i][k].key,
                           count |-> ToUnsigned(j.maps[i][k].count)]]]]

GetJobResult(j) ==
  /\ obj = None
  /\ ~Throws(j)
  /\ obj' = ResultOf(j)
  /\ json' = j
  /\ counts' = <<>>
  /\ stamp' = [w \in Which |-> 0]
  /\ code' = [w \in Which |-> "unread"]
  /\ UNCHANGED requestVars

\* static_cast<int> of an unsigned count.
ToInt(n) == IF n < IntHalf THEN n ELSE n - 2 * IntHalf

FlattenFirst(rs) == IF rs = <<>> THEN <<>> ELSE rs[1]
Flatten(rs) == FlattenSeq(rs)

CountsOf(rs) ==
  LET all == Flatten(rs)
  IN [i \in DOMAIN all |-> [key |-> all[i].key, count |-> ToInt(all[i].count)]]

GetJobResultCounts ==
  /\ obj.kind = "result"
  /\ counts' = CountsOf(obj.results)
  /\ UNCHANGED <<obj, requestVars, json, stamp, code>>

\* parseTimestamp: mktime of what get_time could read (a tm left zero is a time
\* before the epoch), and std::stoi of what follows the point, as microseconds.
Number(ds) == FoldLeft(LAMBDA n, d : 10 * n + d, 0, ds)
StoiThrows(ds) == ds = <<>> \/ Number(ds) >= IntHalf

\* Only the date read is the midnight it begins with.
Seconds(s) ==
  CASE s.read = "all" -> s.sec
    [] s.read = "date" -> s.sec - (s.sec % DaySeconds)
    [] s.read = "none" -> -1

MicrosOfOneDigit(s) == IF s.point THEN s.digits[1] ELSE 0
Micros(s) == IF s.point THEN Number(s.digits) ELSE 0

Microseconds(s) == Seconds(s) * PowerOfTen[MicroDigits] + Micros(s)

GetTimestamp(w) ==
  LET s == obj.stamps[w]
  IN /\ obj.kind = "result"
     /\ \/ /\ s.point /\ StoiThrows(s.digits)
           /\ code' = [code EXCEPT ![w] = "minus2"]
           /\ UNCHANGED stamp
        \/ /\ ~(s.point /\ StoiThrows(s.digits))
           /\ code' = [code EXCEPT ![w] = "zero"]
           /\ stamp' = [stamp EXCEPT ![w] = Microseconds(s) % Word]
     /\ UNCHANGED <<obj, requestVars, json, counts>>

\* The object is deleted: MQSSClientFreeJob, MQSSClientFreeJobResult.
Free ==
  /\ obj # None
  /\ obj' = None
  /\ told' = Nothing
  /\ sets' = 0
  /\ payload' = Nothing
  /\ json' = None
  /\ counts' = <<>>
  /\ stamp' = [w \in Which |-> 0]
  /\ code' = [w \in Which |-> "unread"]

----------------------------------------------------------------------------
(* The specification *)

Init ==
  /\ obj = None
  /\ told = Nothing
  /\ sets = 0
  /\ payload = Nothing
  /\ json = None
  /\ counts = <<>>
  /\ stamp = [w \in Which |-> 0]
  /\ code = [w \in Which |-> "unread"]

Next ==
  \/ \E k \in {"circuit", "hamiltonian"} :
       \/ DefaultConstruct(k)
       \/ \E args \in [Parameter(k) -> Value] : Construct(k, args)
       \/ \E args \in CArgs(k) : CreateJob(k, args)
       \/ \E q \in Parameter(k), v \in Value : Set(q, v)
  \/ \E isHpc \in BOOLEAN : ToJson(isHpc)
  \/ \E j \in Json : GetJobResult(j)
  \/ GetJobResultCounts
  \/ \E w \in Which : GetTimestamp(w)
  \/ Free

Spec == Init /\ [][Next]_vars

----------------------------------------------------------------------------
(* Properties *)

TypeOK ==
  /\ obj.kind \in {"none", "circuit", "hamiltonian", "result"}
  /\ obj.kind \in {"circuit", "hamiltonian"} =>
       obj.mem \in [Member(obj.kind) -> Value \cup {"empty", "indeterminate"}]
  /\ obj.kind = "result" => ~Throws(json)
  /\ sets \in 0..MaxSets
  /\ stamp \in [Which -> 0..(Word - 1)]
  /\ code \in [Which -> {"unread", "zero", "minus2"}]
  /\ \A i \in DOMAIN counts : counts[i].count \in (-IntHalf)..(IntHalf - 1)

\* What the service reads under each key.
Meaning ==
  [circuit |-> "circuit", circuit_format |-> "circuitFormat",
   resource_name |-> "resourceName", shots |-> "shots", no_modify |-> "noModify",
   queued |-> "queued", interaction_str |-> "interactionStr",
   coefficients_str |-> "coefficientsStr"]

\* A submission sends all that the program last said of the job, in whichever way
\* it said it - a constructor, a function of the C interface, setters since - and
\* each under its own key, also when it changes the request and submits it again.
\* What it never said is sent as an empty string or, for shots, noModify and
\* queued, as anything: only requests built by the default constructor do so.
PayloadIsAsTold ==
  payload # Nothing =>
    /\ {Meaning[j] : j \in DOMAIN payload} = Parameter(obj.kind)
    /\ \A j \in DOMAIN payload :
         LET q == Meaning[j]
         IN \/ told[q] # "nothing" /\ payload[j].value = told[q]
            \/ told[q] = "nothing" /\ payload[j].value = "empty"
            \/ told[q] = "nothing" /\ q \notin StringParameter

\* The counts C gets are those of the service, map by map in one list: the same
\* keys in the same order, and the same counts modulo the width of int, so exact
\* for every count int can hold.  A result that is not JSON gives none.
CountsAsSent ==
  (json # None /\ counts # <<>>) =>
    LET sent == FlattenSeq(json.maps)
    IN /\ json.result = "maps"
       /\ Len(counts) = Len(sent)
       /\ \A i \in DOMAIN counts :
            /\ counts[i].key = sent[i].key
            /\ (counts[i].count - sent[i].count) % (2 * IntHalf) = 0
            /\ sent[i].count \in 0..(IntHalf - 1) => counts[i].count = sent[i].count

\* A timestamp as the service means it: the digits are tenths, hundredths...
Exact(s) == s.read = "all" /\ (s.point => Len(s.digits) = MicroDigits)
Fraction(ds) ==
  FoldLeft(LAMBDA n, i : n + ds[i] * PowerOfTen[MicroDigits - i], 0, [i \in DOMAIN ds |-> i])
Meant(s) == s.sec * PowerOfTen[MicroDigits] + Fraction(s.digits)

\* Timestamps with all digits of their fraction, or without one, are as far apart
\* in C as the service says, and are never refused.  A result that was not JSON
\* has none: each of its timestamps is read all the same, as a time before the
\* epoch, and comes out above every timestamp that could be read.
TimestampsInOrder ==
  obj.kind = "result" =>
    \A v, w \in Which :
      LET a == obj.stamps[v]
          b == obj.stamps[w]
      IN /\ code[v] = "minus2" => ~Exact(a)
         /\ (code[v] = "zero" /\ code[w] = "zero" /\ Exact(a) /\ Exact(b)) =>
              stamp[v] - stamp[w] = Meant(a) - Meant(b)
         /\ (code[v] # "unread" /\ json.result = "notJson") =>
              code[v] = "zero" /\ stamp[v] > Word \div 2
=============================================================================

--------------------------- MODULE JobDataProofs ---------------------------
(***************************************************************************)
(* What a submission sends and what C gets out of a result, for every set  *)
(* of values, every JSON the service can send and any number of setters.   *)
(* Sequences have no bound here: what the folds over them compute is shown *)
(* by induction on their length, which the prover gets from the least      *)
(* number principle (Induction).                                           *)
(***************************************************************************)
EXTENDS JobData, SequenceTheorems, WellFoundedInduction, TLAPS

----------------------------------------------------------------------------
(* Job requests *)

Request == {"circuit", "hamiltonian"}

\* Every parameter has the member of its own that its setter writes.
LEMMA SetterFacts ==
  ASSUME NEW k \in Request, NEW q \in Parameter(k)
  PROVE  Setter[q] \in Member(k) /\ Initialiser[Setter[q]] = q
BY DEF Request, Parameter, Member, Setter, Initialiser

\* Every member is initialised from that parameter, in C too, and no other setter
\* writes it.
LEMMA MemberFacts ==
  ASSUME NEW k \in Request, NEW m \in Member(k)
  PROVE  /\ Initialiser[m] \in Parameter(k)
         /\ CArgument[Initialiser[m]] = Initialiser[m]
         /\ m \in StringMember <=> Initialiser[m] \in StringParameter
         /\ \A q \in Parameter(k) : Setter[q] = m <=> q = Initialiser[m]
BY DEF Request, Parameter, StringParameter, Member, StringMember, Setter, Initialiser, CArgument

\* The key under which a member is sent is the one the service reads the parameter
\* from, and there is one for every parameter.
LEMMA KeyFacts ==
  ASSUME NEW k \in Request
  PROVE  /\ \A j \in DOMAIN Key(k) :
              Key(k)[j] \in Member(k) /\ Meaning[j] = Initialiser[Key(k)[j]]
         /\ {Meaning[j] : j \in DOMAIN Key(k)} = Parameter(k)
<1>1. DOMAIN Key(k) =
        IF k = "circuit"
        THEN {"circuit", "circuit_format", "resource_name", "shots", "no_modify", "queued"}
        ELSE {"resource_name", "interaction_str", "coefficients_str"}
  BY DEF Key
<1>2. \A j \in DOMAIN Key(k) :
        Key(k)[j] \in Member(k) /\ Meaning[j] = Initialiser[Key(k)[j]]
  BY <1>1 DEF Request, Key, Member, Meaning, Initialiser
<1>3. \A q \in Parameter(k) : \E j \in DOMAIN Key(k) : Meaning[j] = q
  BY <1>1 DEF Request, Parameter, Meaning
<1>4. \A j \in DOMAIN Key(k) : Meaning[j] \in Parameter(k)
  BY <1>1 DEF Request, Parameter, Meaning
<1> QED BY <1>2, <1>3, <1>4

\* What a member holds, and what the program last said of its parameter.
MemberAsTold(m, v, t) ==
  \/ t # "nothing" /\ v = t /\ v # "indeterminate"
  \/ t = "nothing" /\ v = "empty" /\ m \in StringMember
  \/ t = "nothing" /\ m \notin StringMember

\* The request held is as told, and so is what was sent since it was changed.
RequestInv ==
  /\ payload # Nothing => obj.kind \in Request
  /\ obj.kind \in Request =>
       /\ obj = [kind |-> obj.kind, mem |-> obj.mem]
       /\ obj.mem = [m \in Member(obj.kind) |-> obj.mem[m]]
       /\ told = [q \in Parameter(obj.kind) |-> told[q]]
       /\ \A m \in Member(obj.kind) : MemberAsTold(m, obj.mem[m], told[Initialiser[m]])
  /\ PayloadIsAsTold

\* No request is held at first.
LEMMA RequestInvInit == Init => RequestInv
  BY DEF Init, RequestInv, None, Request, PayloadIsAsTold

\* C and C++ construct a request in the same way, C if no string is NULL.
LEMMA Constructed ==
  ASSUME NEW k \in Request, NEW args,
         \/ args \in [Parameter(k) -> Value] /\ Construct(k, args)
         \/ args \in CArgs(k) /\ CreateJob(k, args)
  PROVE  /\ args \in [Parameter(k) -> Value]
         /\ Hold(k, [m \in Member(k) |-> args[Initialiser[m]]])
         /\ told' = args
<1>1. CASE args \in [Parameter(k) -> Value] /\ Construct(k, args)
  BY <1>1 DEF Construct
<1>2. CASE args \in CArgs(k) /\ CreateJob(k, args)
  <2>1. args \in [Parameter(k) -> Value]
    BY <1>2 DEF CArgs, CreateJob
  <2>2. [m \in Member(k) |-> args[CArgument[Initialiser[m]]]]
          = [m \in Member(k) |-> args[Initialiser[m]]]
    BY MemberFacts
  <2> QED BY <1>2, <2>1, <2>2 DEF CreateJob
<1> QED BY <1>1, <1>2

\* Constructors give every member a value or none, a setter its own, and toJson
\* sends each one under the key of its parameter.
LEMMA RequestInvStep == RequestInv /\ [Next]_vars => RequestInv'
<1> SUFFICES ASSUME RequestInv, [Next]_vars PROVE RequestInv'
  OBVIOUS
<1>1. ASSUME NEW k \in Request, DefaultConstruct(k) PROVE RequestInv'
  <2> DEFINE f == [m \in Member(k) |->
                     IF m \in StringMember THEN "empty" ELSE "indeterminate"]
             t == [q \in Parameter(k) |-> "nothing"]
  <2>1. obj' = [kind |-> k, mem |-> f] /\ told' = t /\ payload' = Nothing
    BY <1>1 DEF DefaultConstruct, Hold
  <2>2. \A m \in Member(k) : MemberAsTold(m, f[m], t[Initialiser[m]])
    BY MemberFacts DEF MemberAsTold
  <2>3. f = [m \in Member(k) |-> f[m]] /\ t = [q \in Parameter(k) |-> t[q]]
    OBVIOUS
  <2> HIDE DEF f, t
  <2> QED BY <2>1, <2>2, <2>3 DEF RequestInv, PayloadIsAsTold
<1>2. ASSUME NEW k \in Request, NEW args,
             \/ args \in [Parameter(k) -> Value] /\ Construct(k, args)
             \/ args \in CArgs(k) /\ CreateJob(k, args)
      PROVE  RequestInv'
  <2> DEFINE f == [m \in Member(k) |-> args[Initialiser[m]]]
  <2>1. /\ args \in [Parameter(k) -> Value] /\ told' = args
        /\ obj' = [kind |-> k, mem |-> f] /\ payload' = Nothing
    BY <1>2, Constructed DEF Hold
  <2>2. \A m \in Member(k) : f[m] = args[Initialiser[m]] /\ f[m] \in Value
    BY <2>1, MemberFacts
  <2>3. f = [m \in Member(k) |-> f[m]] /\ args = [q \in Parameter(k) |-> args[q]]
    BY <2>1
  <2>4. \A m \in Member(k) : MemberAsTold(m, f[m], args[Initialiser[m]])
    BY <2>2, ValueAssumption DEF MemberAsTold
  <2> HIDE DEF f
  <2> QED BY <2>1, <2>3, <2>4 DEF RequestInv, PayloadIsAsTold
<1>3. ASSUME NEW q, NEW v \in Value, Set(q, v) PROVE RequestInv'
  <2>1. obj.kind \in Request /\ q \in Parameter(obj.kind)
    BY <1>3 DEF Set, Request
  <2> DEFINE k == obj.kind
             f == [obj.mem EXCEPT ![Setter[q]] = v]
             t == [told EXCEPT ![q] = v]
  <2>2. obj' = [kind |-> k, mem |-> f] /\ told' = t /\ payload' = Nothing
    BY <1>3, <2>1 DEF Set, RequestInv
  <2>3. f = [m \in Member(k) |-> f[m]] /\ t = [n \in Parameter(k) |-> t[n]]
    BY <2>1 DEF RequestInv
  <2>4. /\ \A m \in Member(k) : f[m] = IF m = Setter[q] THEN v ELSE obj.mem[m]
        /\ \A n \in Parameter(k) : t[n] = IF n = q THEN v ELSE told[n]
    BY <2>1 DEF RequestInv
  <2>5. ASSUME NEW m \in Member(k) PROVE MemberAsTold(m, f[m], t[Initialiser[m]])
    <3>1. Initialiser[m] \in Parameter(k) /\ (m = Setter[q] <=> Initialiser[m] = q)
      BY <2>1, MemberFacts
    <3>2. MemberAsTold(m, obj.mem[m], told[Initialiser[m]])
      BY <2>1 DEF RequestInv
    <3> HIDE DEF k, f, t
    <3> QED BY <2>4, <3>1, <3>2, ValueAssumption DEF MemberAsTold
  <2> HIDE DEF f, t
  <2> QED BY <2>1, <2>2, <2>3, <2>5 DEF RequestInv, PayloadIsAsTold
<1>4. ASSUME NEW isHpc \in BOOLEAN, ToJson(isHpc) PROVE RequestInv'
  <2> DEFINE k == obj.kind
  <2>1. obj.kind \in Request /\ UNCHANGED <<obj, told>>
    BY <1>4 DEF ToJson, Request
  <2>2. PICK made \in [{m \in Member(k) : obj.mem[m] = "indeterminate"} -> Value] :
          payload' = [j \in DOMAIN Key(k) |->
                        [value |-> IF Key(k)[j] \in DOMAIN made THEN made[Key(k)[j]]
                                   ELSE obj.mem[Key(k)[j]],
                         list  |-> isHpc /\ j = "circuit"]]
    BY <1>4 DEF ToJson
  <2>3. DOMAIN payload' = DOMAIN Key(k)
    BY <2>2
  <2>4. ASSUME NEW j \in DOMAIN Key(k)
        PROVE  LET q == Meaning[j]
               IN \/ told[q] # "nothing" /\ payload'[j].value = told[q]
                  \/ told[q] = "nothing" /\ payload'[j].value = "empty"
                  \/ told[q] = "nothing" /\ q \notin StringParameter
    <3> DEFINE m == Key(k)[j]
    <3>1. m \in Member(k) /\ Meaning[j] = Initialiser[m]
      BY <2>1, KeyFacts
    <3>2. obj.mem[m] # "indeterminate" => payload'[j].value = obj.mem[m]
      BY <2>2, <3>1
    <3>3. MemberAsTold(m, obj.mem[m], told[Initialiser[m]])
      BY <2>1, <3>1 DEF RequestInv
    <3>4. m \in StringMember <=> Initialiser[m] \in StringParameter
      BY <2>1, <3>1, MemberFacts
    <3> HIDE DEF m
    <3> QED BY <3>1, <3>2, <3>3, <3>4 DEF MemberAsTold
  <2>5. {Meaning[j] : j \in DOMAIN payload'} = Parameter(k)
    BY <2>1, <2>3, KeyFacts
  <2>6. PayloadIsAsTold'
    BY <2>1, <2>3, <2>4, <2>5 DEF PayloadIsAsTold
  <2> QED BY <2>1, <2>6 DEF RequestInv
<1>5. ASSUME NEW j \in Json, GetJobResult(j) PROVE RequestInv'
  <2>1. payload = Nothing
    BY <1>5 DEF GetJobResult, None, RequestInv, Request
  <2> QED BY <1>5, <2>1 DEF GetJobResult, ResultOf, requestVars, RequestInv, Request, PayloadIsAsTold
<1>6. CASE GetJobResultCounts
  BY <1>6 DEF GetJobResultCounts, requestVars, RequestInv, PayloadIsAsTold
<1>7. ASSUME NEW w \in Which, GetTimestamp(w) PROVE RequestInv'
  BY <1>7 DEF GetTimestamp, requestVars, RequestInv, PayloadIsAsTold
<1>8. CASE Free
  BY <1>8 DEF Free, None, RequestInv, Request, PayloadIsAsTold
<1>9. CASE UNCHANGED vars
  BY <1>9 DEF vars, requestVars, RequestInv, PayloadIsAsTold
<1> QED BY <1>1, <1>2, <1>3, <1>4, <1>5, <1>6, <1>7, <1>8, <1>9 DEF Next, Request

\* Every member holds what the program said of its parameter, or what the default
\* constructor left there.
THEOREM RequestInvariant == Spec => []RequestInv
  BY RequestInvInit, RequestInvStep, PTL DEF Spec

\* toJson sends what the program last said, by constructor or setter, in C++ or C,
\* every value under its own key, also when the request is changed and sent again.
THEOREM PayloadTold == Spec => []PayloadIsAsTold
<1>1. RequestInv => PayloadIsAsTold
  BY DEF RequestInv
<1> QED BY <1>1, RequestInvariant, PTL

----------------------------------------------------------------------------
(* Induction over data *)

\* A set of numbers with 0 and the successor of each of its elements has them all.
LEMMA Induction ==
  ASSUME NEW S \in SUBSET Nat, 0 \in S, \A n \in S : n + 1 \in S
  PROVE  S = Nat
<1> DEFINE T == Nat \ S
<1> SUFFICES ASSUME T # {} PROVE FALSE
  OBVIOUS
<1>1. PICK m \in T : \A k \in T : <<k, m>> \notin OpToRel(<, Nat)
  BY WFMin, NatLessThanWellFounded, Zenon
<1>2. \A k \in T : ~ (k < m)
  BY <1>1, Zenon DEF OpToRel
<1>3. m # 0 /\ m - 1 \in S
  BY <1>2
<1> QED BY <1>3

\* The function up to n.
PowersTo(n, f) == f = [i \in 0..n |-> IF i = 0 THEN 1 ELSE 10 * f[i - 1]]

\* The recursive function is well defined: functions for 0..n agree on what they
\* share.
LEMMA PowerDefined == PowerOfTen = [k \in Nat |-> IF k = 0 THEN 1 ELSE 10 * PowerOfTen[k - 1]]
<1> DEFINE S == {n \in Nat : \E f : PowersTo(n, f)}
<1>1. 0 \in S
  <2> DEFINE f == [i \in 0..0 |-> 1]
  <2>1. PowersTo(0, f)
    BY DEF PowersTo
  <2> QED BY <2>1
<1>2. ASSUME NEW n \in S PROVE n + 1 \in S
  <2>1. PICK f : PowersTo(n, f)
    OBVIOUS
  <2> DEFINE g == [i \in 0..(n + 1) |-> IF i = n + 1 THEN 10 * f[n] ELSE f[i]]
  <2>2. \A i \in 0..(n + 1) : g[i] = IF i = 0 THEN 1 ELSE 10 * g[i - 1]
    BY <2>1 DEF PowersTo
  <2>3. PowersTo(n + 1, g)
    BY <2>2 DEF PowersTo
  <2> QED BY <2>3
<1>3. S = Nat
  <2> HIDE DEF S
  <2>1. S \in SUBSET Nat
    BY DEF S
  <2> QED BY <1>1, <1>2, <2>1, Induction
<1>4. ASSUME NEW n \in Nat, NEW m \in n..(n + 1), NEW f, NEW g, PowersTo(n, f), PowersTo(m, g)
      PROVE  f[n] = g[n]
  <2> DEFINE U == {i \in Nat : i <= n => f[i] = g[i]}
  <2>1. 0 \in U
    BY <1>4 DEF PowersTo
  <2>2. \A i \in U : i + 1 \in U
    BY <1>4 DEF PowersTo
  <2>3. U = Nat
    <3> HIDE DEF U
    <3>1. U \in SUBSET Nat
      BY DEF U
    <3> QED BY <2>1, <2>2, <3>1, Induction
  <2> QED BY <2>3
<1> DEFINE F(k) == CHOOSE f : PowersTo(k, f)
           h == [k \in Nat |-> F(k)[k]]
<1>5. \A k \in Nat : PowersTo(k, F(k))
  BY <1>3
<1> HIDE DEF F
<1>6. \A k \in Nat : h[k] = IF k = 0 THEN 1 ELSE 10 * h[k - 1]
  <2> SUFFICES ASSUME NEW k \in Nat PROVE h[k] = IF k = 0 THEN 1 ELSE 10 * h[k - 1]
    OBVIOUS
  <2>1. CASE k = 0
    BY <1>5, <2>1 DEF PowersTo
  <2>2. CASE k # 0
    <3>1. k - 1 \in Nat /\ k \in (k - 1)..((k - 1) + 1)
      BY <2>2
    <3>2. F(k - 1)[k - 1] = F(k)[k - 1]
      BY <1>4, <1>5, <3>1
    <3> QED BY <1>5, <2>2, <3>1, <3>2 DEF PowersTo
  <2> QED BY <2>1, <2>2
<1>7. h = [k \in Nat |-> IF k = 0 THEN 1 ELSE 10 * h[k - 1]]
  BY <1>6
<1> HIDE DEF h
<1> QED BY <1>7 DEF PowerOfTen

\* The powers of ten.
LEMMA PowerFacts ==
  /\ PowerOfTen[0] = 1
  /\ \A k \in Nat : /\ PowerOfTen[k + 1] = 10 * PowerOfTen[k]
                    /\ PowerOfTen[k] \in Nat \ {0}
<1>1. PowerOfTen[0] = 1 /\ \A k \in Nat : PowerOfTen[k + 1] = 10 * PowerOfTen[k]
  BY PowerDefined
<1> DEFINE S == {k \in Nat : PowerOfTen[k] \in Nat \ {0}}
<1>2. 0 \in S /\ \A k \in S : k + 1 \in S
  BY <1>1
<1>3. S = Nat
  <2> HIDE DEF S
  <2>1. S \in SUBSET Nat
    BY DEF S
  <2> QED BY <1>2, <2>1, Induction
<1> QED BY <1>1, <1>3

----------------------------------------------------------------------------
(* Lists of lists *)

\* The first n sequences of s, one after the other.
Joined(s, n, f) == f = [i \in 1..n |-> IF i = 1 THEN s[1] ELSE f[i - 1] \o s[i]]

\* FlattenSeq appends one sequence after the other.
LEMMA FlattenFold ==
  ASSUME NEW X, NEW s \in Seq(Seq(X)), s # <<>>
  PROVE  \E f : /\ FlattenSeq(s) = f[Len(s)]
                /\ \A i \in 1..Len(s) : f[i] = IF i = 1 THEN s[1] ELSE f[i - 1] \o s[i]
<1> DEFINE S == {n \in Nat : n <= Len(s) => \E f : Joined(s, n, f)}
<1>1. 0 \in S
  <2> DEFINE f == [i \in 1..0 |-> s[1]]
  <2>1. f = [i \in 1..0 |-> IF i = 1 THEN s[1] ELSE f[i - 1] \o s[i]]
    OBVIOUS
  <2> HIDE DEF f
  <2>2. Joined(s, 0, f)
    BY <2>1 DEF Joined
  <2> QED BY <2>2
<1>2. ASSUME NEW n \in S PROVE n + 1 \in S
  <2> n \in Nat /\ Len(s) \in Nat
    OBVIOUS
  <2> SUFFICES ASSUME n + 1 <= Len(s) PROVE \E f : Joined(s, n + 1, f)
    OBVIOUS
  <2>1. PICK f : Joined(s, n, f)
    OBVIOUS
  <2> HIDE DEF S
  <2> DEFINE g == [i \in 1..(n + 1) |-> IF i = 1 THEN s[1]
                                        ELSE IF i = n + 1 THEN f[n] \o s[n + 1] ELSE f[i]]
  <2>0. \A i \in 1..n : f[i] = IF i = 1 THEN s[1] ELSE f[i - 1] \o s[i]
    BY <2>1 DEF Joined
  <2>2. \A i \in 1..(n + 1) : g[i] = IF i = 1 THEN s[1] ELSE g[i - 1] \o s[i]
    <3> SUFFICES ASSUME NEW i \in 1..(n + 1), i # 1 PROVE g[i] = g[i - 1] \o s[i]
      OBVIOUS
    <3>1. g[i - 1] = f[i - 1]
      BY <2>0
    <3>2. CASE i = n + 1
      <4>1. n # 0 /\ i - 1 = n /\ n + 1 \in 1..(n + 1) /\ n + 1 # 1
        BY <3>2
      <4>2. g[n + 1] = f[n] \o s[n + 1]
        BY <4>1
      <4> HIDE DEF g
      <4> QED BY <3>1, <3>2, <4>1, <4>2
    <3>3. CASE i # n + 1
      <4>1. i \in 1..n /\ g[i] = f[i]
        BY <3>3
      <4> HIDE DEF g
      <4> QED BY <2>0, <3>1, <4>1
    <3> QED BY <3>2, <3>3
  <2>3. g = [i \in 1..(n + 1) |-> IF i = 1 THEN s[1] ELSE g[i - 1] \o s[i]]
    BY <2>2
  <2> HIDE DEF g
  <2>4. Joined(s, n + 1, g)
    BY <2>3 DEF Joined
  <2> QED BY <2>4
<1>3. S = Nat
  <2> HIDE DEF S
  <2>1. S \in SUBSET Nat
    BY DEF S
  <2> QED BY <1>1, <1>2, <2>1, Induction
<1> DEFINE f == CHOOSE ff : ff = [i \in 1..Len(s) |-> IF i = 1 THEN s[i] ELSE ff[i - 1] \o s[i]]
<1>4. f = [i \in 1..Len(s) |-> IF i = 1 THEN s[i] ELSE f[i - 1] \o s[i]]
  <2>1. PICK g : Joined(s, Len(s), g)
    <3>1. Len(s) \in Nat
      OBVIOUS
    <3>2. Len(s) \in S
      BY <1>3, <3>1
    <3> QED BY <3>1, <3>2
  <2>2. g = [i \in 1..Len(s) |-> IF i = 1 THEN s[i] ELSE g[i - 1] \o s[i]]
    BY <2>1 DEF Joined
  <2> QED BY <2>2
<1>5. FlattenSeq(s) = f[Len(s)]
  BY DEF FlattenSeq
<1> HIDE DEF f
<1> QED BY <1>4, <1>5

\* r is s with each element x replaced by g[x].
Mapped(s, r, g) == Len(r) = Len(s) /\ \A k \in 1..Len(s) : r[k] = g[s[k]]

\* Replacing each element and flattening commute: no count is lost, added or moved
\* when Flatten puts the maps of a result into one list.
LEMMA FlattenMapped ==
  ASSUME NEW X, NEW Y, NEW s \in Seq(Seq(X)), NEW r \in Seq(Seq(Y)), NEW g \in [X -> Y],
         Len(r) = Len(s),
         \A i \in 1..Len(s) : Mapped(s[i], r[i], g)
  PROVE  /\ FlattenSeq(s) \in Seq(X) /\ FlattenSeq(r) \in Seq(Y)
         /\ Mapped(FlattenSeq(s), FlattenSeq(r), g)
<1>0. \A i \in 1..Len(s) : /\ Len(r[i]) = Len(s[i])
                           /\ \A k \in 1..Len(s[i]) : r[i][k] = g[s[i][k]]
  BY DEF Mapped
<1>1. CASE s = <<>>
  <2>1. r = <<>>
    BY <1>1
  <2>2. FlattenSeq(s) = <<>> /\ FlattenSeq(r) = <<>>
    BY <1>1, <2>1 DEF FlattenSeq
  <2> QED BY <2>2 DEF Mapped
<1>2. CASE s # <<>>
  <2>0. r # <<>> /\ Len(s) \in Nat \ {0}
    BY <1>2
  <2>1. PICK f : /\ FlattenSeq(s) = f[Len(s)]
                 /\ \A i \in 1..Len(s) : f[i] = IF i = 1 THEN s[1] ELSE f[i - 1] \o s[i]
    BY <1>2, FlattenFold
  <2>2. PICK h : /\ FlattenSeq(r) = h[Len(r)]
                 /\ \A i \in 1..Len(r) : h[i] = IF i = 1 THEN r[1] ELSE h[i - 1] \o r[i]
    BY <2>0, FlattenFold
  <2> DEFINE Good(i) == /\ f[i] \in Seq(X) /\ h[i] \in Seq(Y)
                        /\ Len(h[i]) = Len(f[i])
                        /\ \A k \in 1..Len(f[i]) : h[i][k] = g[f[i][k]]
             S == {n \in Nat : n \in 1..Len(s) => Good(n)}
  <2>3. Good(1)
    <3>1. f[1] = s[1] /\ h[1] = r[1] /\ s[1] \in Seq(X) /\ r[1] \in Seq(Y)
      BY <2>0, <2>1, <2>2
    <3> QED BY <1>0, <2>0, <3>1
  <2>4. ASSUME NEW n \in 1..Len(s), Good(n), n + 1 \in 1..Len(s) PROVE Good(n + 1)
    <3> DEFINE a == f[n]
               b == s[n + 1]
               c == h[n]
               d == r[n + 1]
    <3>2. f[n + 1] = a \o b /\ h[n + 1] = c \o d
      <4>1. n + 1 # 1 /\ (n + 1) - 1 = n /\ n + 1 \in 1..Len(r)
        BY <2>4
      <4> QED BY <2>1, <2>2, <2>4, <4>1
    <3>3. /\ b \in Seq(X) /\ d \in Seq(Y) /\ Len(d) = Len(b)
          /\ \A k \in 1..Len(b) : d[k] = g[b[k]]
      BY <1>0, <2>4
    <3>4. /\ a \in Seq(X) /\ c \in Seq(Y) /\ Len(c) = Len(a)
          /\ \A k \in 1..Len(a) : c[k] = g[a[k]]
      BY <2>4
    <3> HIDE DEF a, b, c, d
    <3> a \in Seq(X) /\ b \in Seq(X) /\ c \in Seq(Y) /\ d \in Seq(Y)
      BY <3>3, <3>4
    <3> Len(a) \in Nat /\ Len(b) \in Nat /\ Len(c) = Len(a) /\ Len(d) = Len(b)
      BY <3>3, <3>4
    <3>5. /\ a \o b \in Seq(X) /\ Len(a \o b) = Len(a) + Len(b)
          /\ c \o d \in Seq(Y) /\ Len(c \o d) = Len(a) + Len(b)
      <4>1. a \o b \in Seq(X) /\ c \o d \in Seq(Y)
        OBVIOUS
      <4>2. Len(a \o b) = Len(a) + Len(b)
        OBVIOUS
      <4>3. Len(c \o d) = Len(c) + Len(d)
        BY ONLY c \in Seq(Y), d \in Seq(Y)
      <4> QED BY <4>1, <4>2, <4>3
    <3>6. ASSUME NEW k \in 1..(Len(a) + Len(b)) PROVE (c \o d)[k] = g[(a \o b)[k]]
      <4>1. CASE k <= Len(a)
        <5>1. (a \o b)[k] = a[k] /\ (c \o d)[k] = c[k] /\ k \in 1..Len(a)
          BY <3>3, <3>4, <4>1
        <5> QED BY <3>4, <5>1
      <4>2. CASE k > Len(a)
        <5>1. /\ (a \o b)[k] = b[k - Len(a)] /\ (c \o d)[k] = d[k - Len(a)]
              /\ k - Len(a) \in 1..Len(b)
          BY <3>3, <3>4, <4>2
        <5> QED BY <3>3, <5>1
      <4> QED BY <4>1, <4>2
    <3> QED BY <3>2, <3>5, <3>6
  <2>5. S = Nat
    <3>1. 0 \in S
      OBVIOUS
    <3>2. ASSUME NEW n \in S PROVE n + 1 \in S
      <4> HIDE DEF Good
      <4> QED BY <2>3, <2>4
    <3>3. S \in SUBSET Nat
      OBVIOUS
    <3> HIDE DEF S
    <3> QED BY <3>1, <3>2, <3>3, Induction
  <2>6. Good(Len(s))
    <3>1. Len(s) \in S /\ Len(s) \in 1..Len(s)
      BY <2>0, <2>5
    <3> HIDE DEF Good
    <3> QED BY <3>1
  <2> QED BY <2>1, <2>2, <2>6 DEF Mapped
<1> QED BY <1>1, <1>2

----------------------------------------------------------------------------
(* Counts *)

\* A number and its remainder differ by a multiple.
LEMMA Remainder ==
  ASSUME NEW n \in Int, NEW w \in Nat \ {0}
  PROVE  /\ n % w \in 0..(w - 1)
         /\ \E q \in Int : n = w * q + (n % w)
<1>1. n % w \in 0..(w - 1) /\ n \div w \in Int
  OBVIOUS
<1>2. n % w = n - w * (n \div w)
  OBVIOUS
<1> DEFINE d == n \div w
           m == n % w
<1>3. d \in Int /\ m \in Int /\ m = n - w * d
  BY <1>1, <1>2
<1>4. n = w * d + m
  <2> HIDE DEF d, m
  <2> QED BY <1>3
<1>5. \E q \in Int : n = w * q + m
  <2> HIDE DEF d, m
  <2> QED BY <1>3, <1>4
<1> QED BY <1>1, <1>5, Zenon

\* A multiple leaves no remainder.
LEMMA MultipleMod ==
  ASSUME NEW q \in Int, NEW w \in Nat \ {0}
  PROVE  (w * q) % w = 0
  OBVIOUS

\* Numbers below the width stay as they are.
LEMMA SmallMod ==
  ASSUME NEW w \in Nat \ {0}, NEW n \in 0..(w - 1)
  PROVE  n % w = n
  OBVIOUS

\* A count through unsigned and back to int: the same modulo the width, and exact
\* if int can hold it.
LEMMA ConvertedCount ==
  ASSUME NEW n \in Int
  PROVE  LET c == ToInt(ToUnsigned(n))
         IN  /\ ToUnsigned(n) \in 0..(2 * IntHalf - 1)
             /\ c \in (-IntHalf)..(IntHalf - 1)
             /\ (c - n) % (2 * IntHalf) = 0
             /\ n \in 0..(IntHalf - 1) => c = n
<1> DEFINE w == 2 * IntHalf
           u == n % w
           c == ToInt(u)
<1>0. IntHalf \in Nat \ {0} /\ w \in Nat \ {0}
  BY JobDataAssumption
<1>1. PICK q \in Int : n = w * q + u
  BY <1>0, Remainder
<1>2. u \in 0..(w - 1)
  BY <1>0, Remainder
<1>3. c = u \/ c = u - w
  BY DEF ToInt
<1>4. c \in (-IntHalf)..(IntHalf - 1)
  BY <1>0, <1>2 DEF ToInt
<1>5. (c - n) % w = 0
  <2>1. CASE c = u
    <3>1. c - n = w * (-q)
      BY <1>0, <1>1, <1>2, <2>1
    <3> QED BY <1>0, <3>1, MultipleMod
  <2>2. CASE c = u - w
    <3>1. c - n = w * (-q - 1)
      BY <1>0, <1>1, <1>2, <2>2
    <3> QED BY <1>0, <3>1, MultipleMod
  <2> QED BY <1>3, <2>1, <2>2
<1>6. n \in 0..(IntHalf - 1) => c = n
  <2> SUFFICES ASSUME n \in 0..(IntHalf - 1) PROVE c = n
    OBVIOUS
  <2>1. u = n
    BY <1>0, SmallMod
  <2>2. n < IntHalf
    BY <1>0
  <2> HIDE DEF u
  <2> QED BY <2>1, <2>2 DEF ToInt
<1> QED BY <1>2, <1>4, <1>5, <1>6 DEF ToUnsigned

\* GetJobResultCounts puts the counts of all maps into one list, in their order.
LEMMA CountsConverted ==
  ASSUME NEW j \in Json, j.result = "maps"
  PROVE  LET sent == FlattenSeq(j.maps)
             got  == CountsOf(ResultOf(j).results)
         IN  /\ sent \in Seq(JsonEntry)
             /\ Len(got) = Len(sent)
             /\ DOMAIN got = 1..Len(sent)
             /\ \A i \in 1..Len(sent) :
                  got[i] = [key |-> sent[i].key, count |-> ToInt(ToUnsigned(sent[i].count))]
<1> DEFINE Count == [key : STRING, count : 0..(2 * IntHalf - 1)]
           g == [e \in JsonEntry |-> [key |-> e.key, count |-> ToUnsigned(e.count)]]
           r == ResultOf(j).results
           s == j.maps
<1>1. s \in Seq(Seq(JsonEntry))
  BY JsonAssumption DEF JsonResult
<1>2. g \in [JsonEntry -> Count]
  <2>1. \A e \in JsonEntry : e.key \in STRING /\ ToUnsigned(e.count) \in 0..(2 * IntHalf - 1)
    BY ConvertedCount DEF JsonEntry
  <2> QED BY <2>1
<1>3. r = [i \in DOMAIN s |-> [k \in DOMAIN s[i] |-> g[s[i][k]]]]
  <2>1. r = [i \in DOMAIN s |-> [k \in DOMAIN s[i] |->
                [key |-> s[i][k].key, count |-> ToUnsigned(s[i][k].count)]]]
    BY DEF ResultOf
  <2>2. \A i \in DOMAIN s : \A k \in DOMAIN s[i] : s[i][k] \in JsonEntry
    BY <1>1
  <2> QED BY <2>1, <2>2
<1> HIDE DEF r, g, s
<1>4. /\ r \in Seq(Seq(Count)) /\ Len(r) = Len(s)
      /\ \A i \in 1..Len(s) : /\ Len(r[i]) = Len(s[i])
                              /\ \A k \in 1..Len(s[i]) : r[i][k] = g[s[i][k]]
  <2>1. DOMAIN s = 1..Len(s) /\ \A i \in 1..Len(s) : s[i] \in Seq(JsonEntry) /\ DOMAIN s[i] = 1..Len(s[i])
    BY <1>1
  <2>2. ASSUME NEW i \in 1..Len(s)
        PROVE  r[i] = [k \in 1..Len(s[i]) |-> g[s[i][k]]] /\ r[i] \in Seq(Count) /\ Len(r[i]) = Len(s[i])
    <3>1. r[i] = [k \in 1..Len(s[i]) |-> g[s[i][k]]]
      BY <1>3, <2>1
    <3>2. \A k \in 1..Len(s[i]) : g[s[i][k]] \in Count
      BY <1>2, <2>1
    <3> HIDE DEF Count
    <3> QED BY <2>1, <3>1, <3>2
  <2> HIDE DEF Count
  <2>3. r = [i \in 1..Len(s) |-> r[i]]
    BY <1>3, <2>1
  <2> QED BY <1>1, <2>2, <2>3
<1> HIDE DEF Count
<1>5. /\ FlattenSeq(s) \in Seq(JsonEntry) /\ FlattenSeq(r) \in Seq(Count)
      /\ Mapped(FlattenSeq(s), FlattenSeq(r), g)
  <2>1. Len(r) = Len(s) /\ r \in Seq(Seq(Count))
    BY <1>4
  <2>2. \A i \in 1..Len(s) : Mapped(s[i], r[i], g)
    BY <1>4 DEF Mapped
  <2> QED BY ONLY <1>1, <1>2, <2>1, <2>2, FlattenMapped, Zenon
<1> DEFINE fs == FlattenSeq(s)
           fr == FlattenSeq(r)
           got == CountsOf(r)
<1>6. got = [i \in DOMAIN fr |-> [key |-> fr[i].key, count |-> ToInt(fr[i].count)]]
  BY DEF CountsOf, Flatten
<1> HIDE DEF fs, fr, got
<1>7. DOMAIN fr = 1..Len(fs) /\ Len(fs) \in Nat
  BY <1>5 DEF fs, fr, Mapped
<1>8. DOMAIN got = 1..Len(fs) /\ Len(got) = Len(fs)
  BY <1>6, <1>7
<1>9. ASSUME NEW i \in 1..Len(fs)
      PROVE  got[i] = [key |-> fs[i].key, count |-> ToInt(ToUnsigned(fs[i].count))]
  <2>1. fs[i] \in JsonEntry /\ fr[i] = g[fs[i]]
    BY <1>5, <1>7 DEF fs, fr, Mapped
  <2>2. fr[i] = [key |-> fs[i].key, count |-> ToUnsigned(fs[i].count)]
    BY <2>1 DEF g
  <2> QED BY <1>6, <1>7, <2>2
<1> QED BY <1>5, <1>8, <1>9 DEF s, r, fs, got

----------------------------------------------------------------------------
(* Fractions of a second *)

\* The largest of 1..k and smaller ones.
LEMMA MaxOf ==
  ASSUME NEW k \in Nat \ {0}
  PROVE  Max(1..k) = k
  BY DEF Max

\* A nonempty set of 1..n has a maximum.
LEMMA MaxIn ==
  ASSUME NEW n \in Nat
  PROVE  \A s \in SUBSET (1..n) : s # {} => Max(s) \in s
<1> DEFINE Greatest(s) == \E x \in s : \A y \in s : x >= y
           S == {m \in Nat : m <= n => \A s \in SUBSET (1..m) : s # {} => Greatest(s)}
<1>1. 0 \in S
  <2>1. \A s \in SUBSET (1..0) : s = {}
    OBVIOUS
  <2> QED BY <2>1
<1>2. ASSUME NEW m \in S PROVE m + 1 \in S
  <2>1. m \in Nat
    OBVIOUS
  <2>2. m + 1 \in Nat
    BY <2>1
  <2>3. ASSUME NEW s \in SUBSET (1..(m + 1)), s # {}, m + 1 <= n PROVE Greatest(s)
    <3>1. CASE m + 1 \in s
      <4>1. \A y \in s : m + 1 >= y
        BY <2>1
      <4> QED BY <3>1, <4>1
    <3>2. CASE m + 1 \notin s
      <4>1. s \in SUBSET (1..m)
        BY <2>1, <3>2
      <4>2. m <= n
        BY <2>1, <2>3
      <4> HIDE DEF Greatest
      <4> QED BY <2>3, <4>1, <4>2
    <3> QED BY <3>1, <3>2
  <2> HIDE DEF Greatest
  <2> QED BY <2>2, <2>3
<1>3. S = Nat
  <2>1. S \in SUBSET Nat
    OBVIOUS
  <2> HIDE DEF S
  <2> QED BY <1>1, <1>2, <2>1, Induction
<1>4. \A s \in SUBSET (1..n) : s # {} => Greatest(s)
  <2> HIDE DEF Greatest
  <2>1. n \in S /\ n <= n
    BY <1>3
  <2> QED BY <2>1
<1> QED BY <1>4 DEF Max

\* What MapThenFoldSet does for a fold that multiplies by a and adds the next b.
Linear(n, a, b, f) ==
  f = [s \in SUBSET (1..n) |->
         IF s = {} THEN 0 ELSE a * f[s \ {Max(s)}] + b[Max(s)]]

\* Such a fold is well defined.
LEMMA LinearDefined ==
  ASSUME NEW n \in Nat, NEW a \in Int, NEW b \in [1..n -> Int]
  PROVE  \E f \in [SUBSET (1..n) -> Int] : Linear(n, a, b, f)
<1> DEFINE S == {m \in Nat : m <= n => \E f \in [SUBSET (1..m) -> Int] : Linear(m, a, b, f)}
<1>1. 0 \in S
  <2> DEFINE f == [s \in SUBSET (1..0) |-> 0]
  <2>0. \A s \in SUBSET (1..0) : s = {}
    OBVIOUS
  <2>1. f = [s \in SUBSET (1..0) |-> IF s = {} THEN 0 ELSE a * f[s \ {Max(s)}] + b[Max(s)]]
    BY <2>0
  <2>2. f \in [SUBSET (1..0) -> Int]
    OBVIOUS
  <2> HIDE DEF f
  <2>3. Linear(0, a, b, f)
    BY <2>1 DEF Linear
  <2> QED BY <2>2, <2>3
<1>2. ASSUME NEW m \in S PROVE m + 1 \in S
  <2>1. m \in Nat
    OBVIOUS
  <2> HIDE DEF S
  <2> SUFFICES ASSUME m + 1 <= n
               PROVE  \E f \in [SUBSET (1..(m + 1)) -> Int] : Linear(m + 1, a, b, f)
    <3>1. m + 1 \in Nat
      BY <2>1
    <3> QED BY <3>1, Zenon DEF S
  <2>2. PICK f \in [SUBSET (1..m) -> Int] : Linear(m, a, b, f)
    <3>1. m <= n
      BY <2>1
    <3> QED BY <3>1, Zenon DEF S
  <2> DEFINE g == [s \in SUBSET (1..(m + 1)) |->
                     IF m + 1 \in s THEN a * f[s \ {m + 1}] + b[m + 1] ELSE f[s]]
  <2>3. ASSUME NEW s \in SUBSET (1..(m + 1))
        PROVE  /\ g[s] = IF s = {} THEN 0 ELSE a * g[s \ {Max(s)}] + b[Max(s)]
               /\ g[s] \in Int
    <3>1. CASE m + 1 \in s
      <4>1. Max(s) = m + 1
        <5>1. \A x \in s : x \in Int /\ m + 1 >= x
          BY <2>1
        <5>2. \A x \in s : (\A y \in s : x >= y) => x = m + 1
          BY <2>1, <3>1, <5>1
        <5> QED BY <3>1, <5>1, <5>2 DEF Max
      <4>2. /\ s \ {m + 1} \in SUBSET (1..(m + 1)) /\ m + 1 \notin s \ {m + 1}
            /\ s \ {m + 1} \in SUBSET (1..m)
        BY <2>1
      <4>3. g[s \ {m + 1}] = f[s \ {m + 1}] /\ f[s \ {m + 1}] \in Int /\ b[m + 1] \in Int
        BY <2>1, <2>2, <4>2
      <4>4. g[s] = a * f[s \ {m + 1}] + b[m + 1] /\ s # {}
        BY <3>1
      <4> HIDE DEF g
      <4>5. /\ a * f[s \ {m + 1}] \in Int
            /\ a * f[s \ {m + 1}] + b[m + 1] \in Int
        BY <4>3
      <4> QED BY <4>1, <4>3, <4>4, <4>5
    <3>2. CASE m + 1 \notin s
      <4> DEFINE t == s \ {Max(s)}
      <4>1. s \in SUBSET (1..m) /\ t \in SUBSET (1..m) /\ m + 1 \notin t
        <5>1. s \in SUBSET (1..m)
          BY <2>1, <3>2
        <5> QED BY <3>2, <5>1
      <4>2. t \in SUBSET (1..(m + 1))
        OBVIOUS
      <4>3. g[s] = f[s] /\ g[t] = f[t] /\ f[s] \in Int
        BY <2>2, <3>2, <4>1, <4>2
      <4>4. f[s] = IF s = {} THEN 0 ELSE a * f[t] + b[Max(s)]
        BY <2>2, <4>1 DEF Linear
      <4> HIDE DEF g
      <4> QED BY <4>3, <4>4
    <3> QED BY <3>1, <3>2
  <2>4. /\ g = [s \in SUBSET (1..(m + 1)) |->
                  IF s = {} THEN 0 ELSE a * g[s \ {Max(s)}] + b[Max(s)]]
        /\ g \in [SUBSET (1..(m + 1)) -> Int]
    BY <2>3
  <2> HIDE DEF g
  <2>5. Linear(m + 1, a, b, g)
    BY <2>4 DEF Linear
  <2> QED BY <2>4, <2>5
<1>3. S = Nat
  <2>1. S \in SUBSET Nat
    OBVIOUS
  <2> HIDE DEF S
  <2> QED BY <1>1, <1>2, <2>1, Induction
<1>4. n \in S
  BY <1>3
<1>5. n <= n
  OBVIOUS
<1> QED BY <1>4, <1>5, Zenon

\* It goes through the sequence from the front.
LEMMA LinearRead ==
  ASSUME NEW n \in Nat, NEW a, NEW b, NEW f, Linear(n, a, b, f)
  PROVE  /\ f[1..0] = 0
         /\ \A i \in 1..n : f[1..i] = a * f[1..(i - 1)] + b[i]
<1>1. f[1..0] = 0
  <2>1. 1..0 = {} /\ {} \in SUBSET (1..n)
    OBVIOUS
  <2> QED BY <2>1 DEF Linear
<1>2. ASSUME NEW i \in 1..n PROVE f[1..i] = a * f[1..(i - 1)] + b[i]
  <2>1. /\ 1..i \in SUBSET (1..n) /\ 1..i # {} /\ Max(1..i) = i
        /\ (1..i) \ {i} = 1..(i - 1)
    <3>1. i \in Nat \ {0} /\ i \in 1..i
      OBVIOUS
    <3>2. Max(1..i) = i
      BY <3>1, MaxOf
    <3>3. 1..i \in SUBSET (1..n)
      OBVIOUS
    <3>4. (1..i) \ {i} = 1..(i - 1)
      OBVIOUS
    <3> QED BY <3>1, <3>2, <3>3, <3>4
  <2>2. f[1..i] = a * f[(1..i) \ {i}] + b[i]
    BY <2>1 DEF Linear
  <2> QED BY <2>1, <2>2
<1> QED BY <1>1, <1>2

\* std::stoi, digit by digit.
LEMMA NumberFold ==
  ASSUME NEW ds \in Seq(0..9)
  PROVE  \E f : /\ f[0] = 0
                /\ \A i \in 1..Len(ds) : f[i] = 10 * f[i - 1] + ds[i]
                /\ Number(ds) = f[Len(ds)]
<1> DEFINE n == Len(ds)
<1>0. n \in Nat /\ DOMAIN ds = 1..n /\ ds \in [1..n -> Int]
  OBVIOUS
<1> DEFINE Iterates(f) == f = [s \in SUBSET (DOMAIN ds) |->
                                 IF s = {} THEN 0 ELSE 10 * f[s \ {Max(s)}] + ds[Max(s)]]
           iter == CHOOSE f : Iterates(f)
<1>1. Linear(n, 10, ds, iter)
  <2> HIDE DEF n
  <2>1. PICK g : Linear(n, 10, ds, g)
    <3>1. 10 \in Int
      OBVIOUS
    <3> QED BY ONLY <1>0, <3>1, LinearDefined, Zenon
  <2>2. Iterates(g)
    BY <1>0, <2>1 DEF Linear
  <2> HIDE DEF Iterates
  <2>3. Iterates(iter)
    BY <2>2
  <2> HIDE DEF iter
  <2> USE DEF Iterates
  <2> QED BY <1>0, <2>3 DEF Linear
<1>2. Number(ds) = iter[DOMAIN ds]
  BY DEF Number, FoldLeft, MapThenFoldSet
<1> HIDE DEF iter, n
<1> DEFINE f == [i \in 0..n |-> iter[1..i]]
<1>3. f[0] = 0 /\ \A i \in 1..n : f[i] = 10 * f[i - 1] + ds[i]
  <2>1. iter[1..0] = 0 /\ \A i \in 1..n : iter[1..i] = 10 * iter[1..(i - 1)] + ds[i]
    BY <1>0, <1>1, LinearRead
  <2>2. \A i \in 1..n : i \in 0..n /\ i - 1 \in 0..n
    BY <1>0
  <2> QED BY <1>0, <2>1, <2>2
<1>4. Number(ds) = f[n]
  BY <1>0, <1>2
<1> HIDE DEF f
<1> QED BY <1>3, <1>4 DEF n

\* The fraction of a second, digit by digit.
LEMMA FractionFold ==
  ASSUME NEW ds \in Seq(0..9), Len(ds) <= MicroDigits
  PROVE  \E f : /\ f[0] = 0
                /\ \A i \in 1..Len(ds) : f[i] = f[i - 1] + ds[i] * PowerOfTen[MicroDigits - i]
                /\ Fraction(ds) = f[Len(ds)]
<1> DEFINE n == Len(ds)
           b == [i \in 1..n |-> ds[i] * PowerOfTen[MicroDigits - i]]
<1>0. n \in Nat /\ DOMAIN ds = 1..n /\ n <= MicroDigits /\ \A i \in 1..n : ds[i] \in Int
  OBVIOUS
<1>1. b \in [1..n -> Int]
  <2>1. \A i \in 1..n : MicroDigits - i \in Nat
    BY <1>0, JobDataAssumption
  <2>2. \A k \in Nat : PowerOfTen[k] \in Int
    <3>1. \A k \in Nat : PowerOfTen[k] \in Nat \ {0}
      BY PowerFacts, Zenon
    <3> HIDE DEF n, b
    <3> QED BY <3>1
  <2> QED BY <1>0, <2>1, <2>2
<1> DEFINE q == [i \in DOMAIN ds |-> i]
           Iterates(f) == f = [s \in SUBSET (DOMAIN q) |->
                     IF s = {} THEN 0
                     ELSE f[s \ {Max(s)}] + ds[q[Max(s)]] * PowerOfTen[MicroDigits - q[Max(s)]]]
           iter == CHOOSE f : Iterates(f)
<1>2. \A s \in SUBSET (1..n) : s # {} => Max(s) \in 1..n
  BY <1>0, MaxIn
<1>3. Iterates(iter)
  <2> HIDE DEF b, n
  <2>1. PICK g \in [SUBSET (1..n) -> Int] : Linear(n, 1, b, g)
    <3>1. 1 \in Int
      OBVIOUS
    <3> QED BY ONLY <1>0, <1>1, <3>1, LinearDefined, Zenon
  <2>2. Iterates(g)
    <3>1. DOMAIN q = 1..n
      BY <1>0
    <3>2. ASSUME NEW s \in SUBSET (1..n), s # {}
          PROVE  1 * g[s \ {Max(s)}] + b[Max(s)]
                   = g[s \ {Max(s)}] + ds[q[Max(s)]] * PowerOfTen[MicroDigits - q[Max(s)]]
      <4>1. Max(s) \in 1..n /\ s \ {Max(s)} \in SUBSET (1..n)
        BY <1>2, <3>2
      <4>2. q[Max(s)] = Max(s)
        BY <1>0, <4>1
      <4>3. b[Max(s)] = ds[Max(s)] * PowerOfTen[MicroDigits - Max(s)]
        BY <4>1 DEF b
      <4>4. g[s \ {Max(s)}] \in Int
        BY <2>1, <4>1
      <4> QED BY <4>2, <4>3, <4>4
    <3> QED BY <2>1, <3>1, <3>2 DEF Linear
  <2> HIDE DEF Iterates
  <2> QED BY <2>2
<1>4. Fraction(ds) = iter[DOMAIN q]
  BY DEF Fraction, FoldLeft, MapThenFoldSet
<1>5. DOMAIN q = 1..n
  BY <1>0
<1>6. /\ iter[1..0] = 0
      /\ \A i \in 1..n : iter[1..i] = iter[1..(i - 1)] + ds[i] * PowerOfTen[MicroDigits - i]
  <2> HIDE DEF iter, n
  <2>1. iter[1..0] = 0
    <3>1. 1..0 = {} /\ {} \in SUBSET (DOMAIN q)
      OBVIOUS
    <3> HIDE DEF q
    <3> QED BY <1>3, <3>1
  <2>2. ASSUME NEW i \in 1..n
        PROVE  iter[1..i] = iter[1..(i - 1)] + ds[i] * PowerOfTen[MicroDigits - i]
    <3>1. /\ 1..i \in SUBSET (DOMAIN q) /\ 1..i # {} /\ Max(1..i) = i
          /\ (1..i) \ {i} = 1..(i - 1)
      <4>1. i \in Nat \ {0} /\ i \in 1..i
        BY <1>0
      <4>2. Max(1..i) = i
        BY <4>1, MaxOf
      <4>3. 1..i \in SUBSET (1..n) /\ (1..i) \ {i} = 1..(i - 1)
        BY <1>0
      <4> HIDE DEF q
      <4> QED BY <1>5, <4>1, <4>2, <4>3
    <3>2. q[i] = i
      BY <1>0
    <3> HIDE DEF q
    <3>3. iter[1..i] = iter[(1..i) \ {i}] + ds[q[i]] * PowerOfTen[MicroDigits - q[i]]
      BY <1>3, <3>1
    <3> QED BY <3>1, <3>2, <3>3
  <2> QED BY <2>1, <2>2
<1> HIDE DEF iter, n, q
<1> DEFINE f == [i \in 0..n |-> iter[1..i]]
<1>7. f[0] = 0 /\ \A i \in 1..n : f[i] = f[i - 1] + ds[i] * PowerOfTen[MicroDigits - i]
  <2>1. \A i \in 1..n : i \in 0..n /\ i - 1 \in 0..n
    BY <1>0
  <2> QED BY <1>0, <1>6, <2>1
<1>8. Fraction(ds) = f[n]
  BY <1>0, <1>4, <1>5
<1> HIDE DEF f
<1> QED BY <1>7, <1>8 DEF n

\* A number is below the power of ten of its length: six digits fit into int.
LEMMA NumberBound ==
  ASSUME NEW ds \in Seq(0..9)
  PROVE  Number(ds) \in Nat /\ Number(ds) < PowerOfTen[Len(ds)]
<1>0. Len(ds) \in Nat /\ \A i \in 1..Len(ds) : ds[i] \in 0..9
  OBVIOUS
<1>1. PICK f : /\ f[0] = 0
               /\ \A i \in 1..Len(ds) : f[i] = 10 * f[i - 1] + ds[i]
               /\ Number(ds) = f[Len(ds)]
  BY NumberFold, Zenon
<1> DEFINE S == {i \in Nat : i <= Len(ds) => f[i] \in Nat /\ f[i] < PowerOfTen[i]}
<1>2. 0 \in S
  <2>1. PowerOfTen[0] = 1
    BY PowerFacts, Zenon
  <2> QED BY <1>1, <2>1
<1>3. ASSUME NEW i \in S PROVE i + 1 \in S
  <2>1. i \in Nat /\ (i <= Len(ds) => f[i] \in Nat /\ f[i] < PowerOfTen[i])
    OBVIOUS
  <2>2. PowerOfTen[i] \in Nat \ {0} /\ PowerOfTen[i + 1] = 10 * PowerOfTen[i]
    BY <2>1, PowerFacts, Zenon
  <2>3. ASSUME i + 1 <= Len(ds)
        PROVE  f[i + 1] \in Nat /\ f[i + 1] < PowerOfTen[i + 1]
    <3>1. i + 1 \in 1..Len(ds) /\ (i + 1) - 1 = i /\ i <= Len(ds)
      BY <1>0, <2>1, <2>3
    <3>2. f[i + 1] = 10 * f[i] + ds[i + 1] /\ ds[i + 1] \in 0..9
      BY <1>0, <1>1, <3>1
    <3>3. f[i] \in Nat /\ f[i] < PowerOfTen[i]
      BY <2>1, <3>1
    <3> DEFINE x == f[i]
               d == ds[i + 1]
               p == PowerOfTen[i]
    <3>4. x \in Nat /\ d \in 0..9 /\ p \in Nat /\ x < p
      BY <2>2, <3>2, <3>3
    <3>5. f[i + 1] = 10 * x + d /\ PowerOfTen[i + 1] = 10 * p
      BY <2>2, <3>2
    <3> HIDE DEF x, d, p
    <3>6. 10 * x + d \in Nat /\ 10 * x + d < 10 * p
      BY <3>4
    <3> QED BY <3>5, <3>6
  <2>4. i + 1 \in Nat
    BY <2>1
  <2> QED BY <2>3, <2>4
<1>4. S = Nat
  <2>1. S \in SUBSET Nat
    OBVIOUS
  <2> HIDE DEF S
  <2> QED BY <1>2, <1>3, <2>1, Induction
<1>5. Len(ds) \in S /\ Len(ds) <= Len(ds)
  BY <1>0, <1>4
<1> QED BY <1>1, <1>5

\* With all its digits, a fraction read as an integer is the microseconds meant.
LEMMA NumberMeant ==
  ASSUME NEW ds \in Seq(0..9), Len(ds) = MicroDigits
  PROVE  Number(ds) = Fraction(ds)
<1> DEFINE n == MicroDigits
<1>0. n \in Nat /\ \A i \in 1..n : ds[i] \in Int
  BY JobDataAssumption
<1>1. PICK f : /\ f[0] = 0
               /\ \A i \in 1..n : f[i] = 10 * f[i - 1] + ds[i]
               /\ Number(ds) = f[n]
  BY NumberFold, Zenon
<1>2. PICK g : /\ g[0] = 0
               /\ \A i \in 1..n : g[i] = g[i - 1] + ds[i] * PowerOfTen[n - i]
               /\ Fraction(ds) = g[n]
  <2>1. Len(ds) <= MicroDigits
    BY <1>0
  <2> QED BY <2>1, FractionFold, Zenon
<1> HIDE DEF n
<1> DEFINE S == {i \in Nat : i <= n => f[i] \in Int /\ g[i] = f[i] * PowerOfTen[n - i]}
<1>3. 0 \in S
  <2>1. n - 0 \in Nat
    BY <1>0
  <2>2. PowerOfTen[n - 0] \in Nat
    BY <2>1, PowerFacts, Zenon
  <2> QED BY <1>1, <1>2, <2>2
<1>4. ASSUME NEW i \in S PROVE i + 1 \in S
  <2>1. i \in Nat /\ (i <= n => f[i] \in Int /\ g[i] = f[i] * PowerOfTen[n - i])
    OBVIOUS
  <2>2. ASSUME i + 1 <= n
        PROVE  f[i + 1] \in Int /\ g[i + 1] = f[i + 1] * PowerOfTen[n - (i + 1)]
    <3> DEFINE k == n - (i + 1)
               p == PowerOfTen[k]
    <3>1. /\ i + 1 \in 1..n /\ (i + 1) - 1 = i /\ i <= n
          /\ k \in Nat /\ n - i = k + 1
      BY <1>0, <2>1, <2>2
    <3>2. f[i] \in Int /\ g[i] = f[i] * PowerOfTen[n - i]
      BY <2>1, <3>1
    <3>3. /\ f[i + 1] = 10 * f[i] + ds[i + 1] /\ ds[i + 1] \in Int
          /\ g[i + 1] = g[i] + ds[i + 1] * p
      BY <1>0, <1>1, <1>2, <3>1
    <3>4. p \in Int /\ PowerOfTen[n - i] = 10 * p
      <4> HIDE DEF k
      <4>1. PowerOfTen[k + 1] = 10 * PowerOfTen[k] /\ PowerOfTen[k] \in Nat \ {0}
        BY <3>1, PowerFacts, Zenon
      <4> QED BY <3>1, <4>1
    <3> HIDE DEF p, k
    <3>5. g[i + 1] = f[i] * (10 * p) + ds[i + 1] * p
      BY <3>2, <3>3, <3>4
    <3> QED BY <3>2, <3>3, <3>4, <3>5 DEF p, k
  <2>3. i + 1 \in Nat
    BY <2>1
  <2> QED BY <2>2, <2>3
<1>5. S = Nat
  <2>1. S \in SUBSET Nat
    OBVIOUS
  <2> HIDE DEF S
  <2> QED BY <1>3, <1>4, <2>1, Induction
<1>6. f[n] \in Int /\ g[n] = f[n] * PowerOfTen[n - n]
  <2>1. n \in S /\ n <= n
    BY <1>0, <1>5
  <2> QED BY <2>1
<1>7. n - n = 0 /\ PowerOfTen[0] = 1
  <2>1. PowerOfTen[0] = 1
    BY PowerFacts, Zenon
  <2> QED BY <1>0, <2>1
<1> QED BY <1>1, <1>2, <1>6, <1>7

\* Without digits the fraction is zero.
LEMMA FractionEmpty == Fraction(<<>>) = 0
<1>1. <<>> \in Seq(0..9) /\ Len(<<>>) = 0 /\ Len(<<>>) <= MicroDigits
  BY JobDataAssumption
<1>2. PICK f : f[0] = 0 /\ Fraction(<<>>) = f[Len(<<>>)]
  BY <1>1, FractionFold
<1> QED BY <1>1, <1>2

----------------------------------------------------------------------------
(* Timestamps *)

\* A negative number comes out at the upper end of an unsigned type.
LEMMA NegativeMod ==
  ASSUME NEW w \in Nat \ {0}, NEW n \in 1..w
  PROVE  (-n) % w = w - n
  OBVIOUS

\* What the three timestamps hold of a result that was read.
LEMMA StampsTyped ==
  ASSUME NEW j \in Json, ~Throws(j), NEW w \in Which
  PROVE  /\ j.result \in {"notJson", "maps"}
         /\ ResultOf(j).stamps[w] \in Timestamp
         /\ j.result = "notJson" => ResultOf(j).stamps[w] = EmptyText
         /\ j.result = "maps" => ResultOf(j).stamps[w] = j.stamps[w]
<1>1. j \in JsonResult
  BY JsonAssumption
<1>2. j.result \in {"notJson", "maps"}
  BY <1>1 DEF JsonResult, Throws
<1>3. j.stamps[w] \in Timestamp
  BY <1>1 DEF JsonResult
<1>4. EmptyText \in Timestamp
  BY DEF EmptyText, Timestamp
<1> QED BY <1>2, <1>3, <1>4 DEF ResultOf

\* What parseTimestamp computes is an integer, and fits once it is stored.
LEMMA MicrosecondsTyped ==
  ASSUME NEW s \in Timestamp
  PROVE  Microseconds(s) \in Int /\ Microseconds(s) % Word \in 0..(Word - 1)
<1>1. Seconds(s) \in Int
  <2>1. s.sec \in Nat /\ s.read \in {"all", "date", "none"}
    BY DEF Timestamp
  <2>2. s.sec % DaySeconds \in Int
    BY <2>1, JobDataAssumption
  <2> QED BY <2>1, <2>2 DEF Seconds
<1>2. Micros(s) \in Int
  <2>1. s.digits \in Seq(0..9)
    BY DEF Timestamp
  <2>2. Number(s.digits) \in Nat
    BY <2>1, NumberBound
  <2> QED BY <2>2 DEF Micros
<1>3. PowerOfTen[MicroDigits] \in Int
  <2>1. PowerOfTen[MicroDigits] \in Nat \ {0}
    BY JobDataAssumption, PowerFacts, Zenon
  <2> QED BY <2>1
<1>4. Microseconds(s) \in Int
  BY <1>1, <1>2, <1>3 DEF Microseconds
<1> HIDE DEF Microseconds
<1> QED BY <1>4, JobDataAssumption

\* A timestamp with all digits of its fraction, or none, is read as meant: stoi does
\* not throw and uint64_t does not wrap.
LEMMA MicrosecondsMeant ==
  ASSUME NEW j \in Json, NEW w \in Which, Exact(j.stamps[w])
  PROVE  LET s == j.stamps[w]
         IN  /\ ~(s.point /\ StoiThrows(s.digits))
             /\ Microseconds(s) = Meant(s)
             /\ Meant(s) \in Int
             /\ Microseconds(s) % Word = Microseconds(s)
<1> DEFINE s == j.stamps[w]
           p == PowerOfTen[MicroDigits]
<1>1. s \in Timestamp
  BY JsonAssumption DEF JsonResult
<1>2. /\ s.digits \in Seq(0..9) /\ s.sec \in Nat /\ s.point \in BOOLEAN
      /\ ~s.point => s.digits = <<>>
  BY <1>1 DEF Timestamp
<1>3. s.read = "all" /\ (s.point => Len(s.digits) = MicroDigits)
  BY DEF Exact
<1>4. p \in Nat \ {0}
  BY JobDataAssumption, PowerFacts, Zenon
<1>5. (s.sec + 1) * p <= Word \div 2 /\ p <= IntHalf
  BY JsonAssumption
<1>6. Meant(s) = s.sec * p + Fraction(s.digits)
  BY DEF Meant, Fraction
<1>7. Micros(s) = Fraction(s.digits) /\ Micros(s) \in Nat /\ Micros(s) < p
  <2>1. CASE s.point
    <3>1. Len(s.digits) = MicroDigits
      BY <1>3, <2>1
    <3>2. Number(s.digits) = Fraction(s.digits)
      BY <1>2, <3>1, NumberMeant
    <3>3. Number(s.digits) \in Nat /\ Number(s.digits) < p
      BY <1>2, <3>1, NumberBound
    <3> HIDE DEF s, p
    <3> QED BY <2>1, <3>2, <3>3 DEF Micros
  <2>2. CASE ~s.point
    <3> HIDE DEF s, p
    <3> QED BY <1>2, <1>4, <2>2, FractionEmpty DEF Micros
  <2> QED BY <2>1, <2>2
<1>8. ~(s.point /\ StoiThrows(s.digits))
  <2> SUFFICES ASSUME s.point PROVE ~StoiThrows(s.digits)
    OBVIOUS
  <2>1. Len(s.digits) = MicroDigits
    BY <1>3
  <2>2. s.digits # <<>>
    BY <2>1, JobDataAssumption
  <2>3. Number(s.digits) \in Nat /\ Number(s.digits) < p
    BY <1>2, <2>1, NumberBound
  <2>4. ~(Number(s.digits) >= IntHalf)
    <3> HIDE DEF s, p
    <3> QED BY <1>4, <1>5, <2>3, JobDataAssumption
  <2> QED BY <2>2, <2>4 DEF StoiThrows
<1>9. Seconds(s) = s.sec
  BY <1>3 DEF Seconds
<1> HIDE DEF s, p
<1>10. Microseconds(s) = s.sec * p + Micros(s)
  BY <1>9 DEF Microseconds, p
<1>11. Microseconds(s) = Meant(s)
  BY <1>6, <1>7, <1>10
<1>12. Microseconds(s) \in 0..(Word - 1)
  <2> DEFINE m == Micros(s)
             n == s.sec
             h == Word \div 2
             x == n * p
  <2>1. m \in Nat /\ m < p /\ n \in Nat /\ p \in Nat /\ (n + 1) * p <= h
    BY <1>2, <1>4, <1>5, <1>7
  <2>2. h \in Nat /\ h < Word /\ Word \in Nat
    BY JobDataAssumption
  <2>3. Microseconds(s) = n * p + m
    BY <1>10
  <2> HIDE DEF m, n, h
  <2>4. (n + 1) * p = x + p /\ x \in Nat
    BY <2>1
  <2> HIDE DEF x
  <2>5. x + m \in 0..(Word - 1)
    BY <2>1, <2>2, <2>4
  <2> QED BY <2>3, <2>5 DEF x
<1>13. Microseconds(s) % Word = Microseconds(s)
  BY <1>12, SmallMod, JobDataAssumption
<1>14. Meant(s) \in Int
  BY <1>11, <1>12
<1> QED BY <1>8, <1>11, <1>13, <1>14 DEF s

\* The timestamp of a result that was not JSON is a second before the epoch, stored
\* as one after everything else.
LEMMA EmptyMicroseconds ==
  /\ ~(EmptyText.point /\ StoiThrows(EmptyText.digits))
  /\ Microseconds(EmptyText) % Word > Word \div 2
<1> DEFINE p == PowerOfTen[MicroDigits]
<1>1. ~EmptyText.point /\ EmptyText.read = "none"
  BY DEF EmptyText
<1>2. p \in Nat \ {0}
  BY JobDataAssumption, PowerFacts, Zenon
<1>3. Microseconds(EmptyText) = (-1) * p + 0
  <2>1. Seconds(EmptyText) = -1
    BY <1>1 DEF Seconds
  <2>2. Micros(EmptyText) = 0
    BY <1>1 DEF Micros
  <2> QED BY <2>1, <2>2, Zenon DEF Microseconds
<1>4. 2 * p < Word /\ Word \in Nat \ {0}
  BY JsonAssumption, JobDataAssumption
<1> HIDE DEF p
<1>5. Microseconds(EmptyText) = -p
  BY <1>2, <1>3
<1>6. p \in 1..Word
  BY <1>2, <1>4
<1>7. (-p) % Word = Word - p
  BY <1>4, <1>6, NegativeMod
<1>8. Word - p > Word \div 2
  BY <1>2, <1>4
<1> QED BY <1>1, <1>5, <1>7, <1>8

----------------------------------------------------------------------------
(* Job results *)

\* What one timestamp function stored and returned, s being the text it read.
StampInv(s, n, c) ==
  \/ c = "unread" /\ n = 0
  \/ c = "minus2" /\ n = 0 /\ s.point /\ StoiThrows(s.digits)
  \/ c = "zero" /\ ~(s.point /\ StoiThrows(s.digits)) /\ n = Microseconds(s) % Word

\* Everything C got out of a result is a function of the JSON the service sent.
ResultInv ==
  /\ stamp = [w \in Which |-> stamp[w]] /\ code = [w \in Which |-> code[w]]
  /\ \/ /\ obj.kind = "result" /\ json \in Json /\ ~Throws(json) /\ obj = ResultOf(json)
        /\ counts \in {<<>>, CountsOf(obj.results)}
        /\ \A w \in Which : StampInv(obj.stamps[w], stamp[w], code[w])
     \/ /\ obj.kind \in {"none", "circuit", "hamiltonian"} /\ json = None /\ counts = <<>>
        /\ \A w \in Which : stamp[w] = 0 /\ code[w] = "unread"

\* No result is held at first.
LEMMA ResultInvInit == Init => ResultInv
  BY DEF Init, ResultInv, None

\* Constructors and setters leave results alone; the C functions read the one held.
LEMMA ResultInvStep == RequestInv /\ ResultInv /\ [Next]_vars => ResultInv'
<1> SUFFICES ASSUME RequestInv, ResultInv, [Next]_vars PROVE ResultInv'
  OBVIOUS
<1>1. ASSUME NEW k \in Request, NEW mem, Hold(k, mem) PROVE ResultInv'
  <2>1. obj'.kind = k /\ obj.kind = "none"
    BY <1>1 DEF Hold, None
  <2>2. k \in {"none", "circuit", "hamiltonian"} /\ k # "result"
    BY DEF Request
  <2> QED BY <1>1, <2>1, <2>2 DEF Hold, resultVars, ResultInv
<1>2. ASSUME NEW k \in Request, DefaultConstruct(k) PROVE ResultInv'
  BY <1>1, <1>2 DEF DefaultConstruct
<1>3. ASSUME NEW k \in Request, NEW args,
             \/ args \in [Parameter(k) -> Value] /\ Construct(k, args)
             \/ args \in CArgs(k) /\ CreateJob(k, args)
      PROVE  ResultInv'
  BY <1>1, <1>3, Constructed
<1>4. ASSUME NEW q, NEW v \in Value, Set(q, v) PROVE ResultInv'
  <2>1. obj.kind \in Request
    BY <1>4 DEF Set, Request
  <2>2. obj'.kind = obj.kind
    BY <1>4, <2>1 DEF Set, RequestInv
  <2> QED BY <1>4, <2>1, <2>2 DEF Set, resultVars, ResultInv, Request
<1>5. ASSUME NEW isHpc \in BOOLEAN, ToJson(isHpc) PROVE ResultInv'
  BY <1>5 DEF ToJson, resultVars, ResultInv, StampInv
<1>6. ASSUME NEW j \in Json, GetJobResult(j) PROVE ResultInv'
  <2>1. /\ obj' = ResultOf(j) /\ json' = j /\ ~Throws(j) /\ counts' = <<>>
        /\ stamp' = [w \in Which |-> 0] /\ code' = [w \in Which |-> "unread"]
    BY <1>6 DEF GetJobResult
  <2>2. obj'.kind = "result"
    BY <2>1 DEF ResultOf
  <2>3. \A w \in Which : StampInv(obj'.stamps[w], stamp'[w], code'[w])
    BY <2>1 DEF StampInv
  <2> QED BY <2>1, <2>2, <2>3 DEF ResultInv
<1>7. CASE GetJobResultCounts
  <2>1. counts' = CountsOf(obj.results)
    BY <1>7 DEF GetJobResultCounts, CountsOf
  <2>2. obj.kind = "result" /\ UNCHANGED <<obj, json, stamp, code>>
    BY <1>7 DEF GetJobResultCounts
  <2> QED BY <2>1, <2>2 DEF ResultInv
<1>8. ASSUME NEW w \in Which, GetTimestamp(w) PROVE ResultInv'
  <2>1. obj.kind = "result" /\ UNCHANGED <<obj, json, counts>>
    BY <1>8 DEF GetTimestamp
  <2>2. /\ stamp' = [v \in Which |-> stamp'[v]] /\ code' = [v \in Which |-> code'[v]]
        /\ \A v \in Which \ {w} : stamp'[v] = stamp[v] /\ code'[v] = code[v]
    BY <1>8 DEF GetTimestamp, ResultInv
  <2>3. StampInv(obj.stamps[w], stamp'[w], code'[w])
    <3> DEFINE s == obj.stamps[w]
    <3>1. CASE s.point /\ StoiThrows(s.digits)
      <4>1. code' = [code EXCEPT ![w] = "minus2"] /\ stamp' = stamp
        BY <1>8, <3>1 DEF GetTimestamp
      <4>2. code'[w] = "minus2" /\ stamp'[w] = stamp[w]
        BY <4>1 DEF ResultInv
      <4>3. stamp[w] = 0
        BY <2>1, <3>1 DEF ResultInv, StampInv
      <4> QED BY <3>1, <4>2, <4>3 DEF StampInv
    <3>2. CASE ~(s.point /\ StoiThrows(s.digits))
      <4>1. /\ code' = [code EXCEPT ![w] = "zero"]
            /\ stamp' = [stamp EXCEPT ![w] = Microseconds(s) % Word]
        BY <1>8, <3>2 DEF GetTimestamp, Microseconds
      <4>2. code'[w] = "zero" /\ stamp'[w] = Microseconds(s) % Word
        BY <4>1 DEF ResultInv
      <4> QED BY <3>2, <4>2 DEF StampInv
    <3> QED BY <3>1, <3>2
  <2>4. \A v \in Which : StampInv(obj'.stamps[v], stamp'[v], code'[v])
    <3>1. \A v \in Which : StampInv(obj.stamps[v], stamp[v], code[v])
      BY <2>1 DEF ResultInv
    <3> QED BY <2>1, <2>2, <2>3, <3>1
  <2> QED BY <2>1, <2>2, <2>4 DEF ResultInv
<1>9. CASE Free
  BY <1>9 DEF Free, None, ResultInv
<1>10. CASE UNCHANGED vars
  BY <1>10 DEF vars, resultVars, ResultInv, StampInv
<1> QED BY <1>2, <1>3, <1>4, <1>5, <1>6, <1>7, <1>8, <1>9, <1>10 DEF Next, Request

\* Everything C got out of a result is a function of the JSON the service sent,
\* however often and in whatever order it asked.
THEOREM ResultInvariant == Spec => []ResultInv
  BY ResultInvInit, ResultInvStep, RequestInvariant, PTL DEF Spec

\* A result that is not JSON has no counts.
LEMMA CountsOfNotJson ==
  ASSUME NEW j, j.result = "notJson"
  PROVE  CountsOf(ResultOf(j).results) = <<>>
<1>1. ResultOf(j).results = <<>>
  BY DEF ResultOf
<1>2. Flatten(<<>>) = <<>>
  BY DEF Flatten, FlattenSeq
<1> QED BY <1>1, <1>2 DEF CountsOf

\* Counts handed out come from maps, and are as many.
LEMMA CountsFromResult ==
  ResultInv /\ counts # <<>> =>
    LET sent == FlattenSeq(json.maps)
    IN /\ json.result = "maps"
       /\ sent \in Seq(JsonEntry)
       /\ Len(counts) = Len(sent) /\ DOMAIN counts = 1..Len(sent)
       /\ \A i \in 1..Len(sent) :
            counts[i] = [key |-> sent[i].key, count |-> ToInt(ToUnsigned(sent[i].count))]
<1> SUFFICES ASSUME ResultInv, counts # <<>>
             PROVE  LET sent == FlattenSeq(json.maps)
                    IN /\ json.result = "maps"
                       /\ sent \in Seq(JsonEntry)
                       /\ Len(counts) = Len(sent) /\ DOMAIN counts = 1..Len(sent)
                       /\ \A i \in 1..Len(sent) :
                            counts[i] = [key |-> sent[i].key,
                                         count |-> ToInt(ToUnsigned(sent[i].count))]
  OBVIOUS
<1>1. json \in Json /\ ~Throws(json) /\ counts = CountsOf(ResultOf(json).results)
  BY DEF ResultInv
<1>2. json.result \in {"notJson", "maps"}
  BY <1>1, JsonAssumption DEF JsonResult, Throws
<1>3. json.result = "maps"
  BY <1>1, <1>2, CountsOfNotJson
<1> QED BY <1>1, <1>3, CountsConverted

\* MQSSClientGetJobResultCounts hands out the counts of the service, map by map, in
\* order and modulo the width of int.
THEOREM CountsExact == Spec => []CountsAsSent
<1>1. ResultInv => CountsAsSent
  <2> SUFFICES ASSUME ResultInv, counts # <<>>
               PROVE  LET sent == FlattenSeq(json.maps)
                      IN /\ json.result = "maps"
                         /\ Len(counts) = Len(sent)
                         /\ \A i \in DOMAIN counts :
                              /\ counts[i].key = sent[i].key
                              /\ (counts[i].count - sent[i].count) % (2 * IntHalf) = 0
                              /\ sent[i].count \in 0..(IntHalf - 1)
                                   => counts[i].count = sent[i].count
    BY DEF CountsAsSent
  <2> DEFINE sent == FlattenSeq(json.maps)
  <2>1. /\ json.result = "maps" /\ sent \in Seq(JsonEntry)
        /\ Len(counts) = Len(sent) /\ DOMAIN counts = 1..Len(sent)
        /\ \A i \in 1..Len(sent) :
             counts[i] = [key |-> sent[i].key, count |-> ToInt(ToUnsigned(sent[i].count))]
    BY CountsFromResult
  <2> HIDE DEF sent
  <2>2. ASSUME NEW i \in DOMAIN counts
        PROVE  /\ counts[i].key = sent[i].key
               /\ (counts[i].count - sent[i].count) % (2 * IntHalf) = 0
               /\ sent[i].count \in 0..(IntHalf - 1) => counts[i].count = sent[i].count
    <3>1. i \in 1..Len(sent) /\ sent[i] \in JsonEntry
      BY <2>1, <2>2
    <3>2. sent[i].count \in Int
      BY <3>1 DEF JsonEntry
    <3>3. /\ counts[i].key = sent[i].key
          /\ counts[i].count = ToInt(ToUnsigned(sent[i].count))
      BY <2>1, <3>1
    <3> QED BY <3>2, <3>3, ConvertedCount
  <2> QED BY <2>1, <2>2 DEF sent
<1> QED BY <1>1, ResultInvariant, PTL

\* Timestamps with all their digits are as far apart as the service says and never
\* refused; those of a result that is not JSON are above them all.
THEOREM TimesOrdered == Spec => []TimestampsInOrder
<1>1. ResultInv => TimestampsInOrder
  <2> SUFFICES ASSUME ResultInv, obj.kind = "result", NEW v \in Which, NEW w \in Which
               PROVE  LET a == obj.stamps[v]
                          b == obj.stamps[w]
                      IN /\ code[v] = "minus2" => ~Exact(a)
                         /\ (code[v] = "zero" /\ code[w] = "zero" /\ Exact(a) /\ Exact(b)) =>
                              stamp[v] - stamp[w] = Meant(a) - Meant(b)
                         /\ (code[v] # "unread" /\ json.result = "notJson") =>
                              code[v] = "zero" /\ stamp[v] > Word \div 2
    BY DEF TimestampsInOrder
  <2>1. /\ json \in Json /\ ~Throws(json) /\ obj = ResultOf(json)
        /\ \A x \in Which : StampInv(obj.stamps[x], stamp[x], code[x])
    BY DEF ResultInv
  <2>2. ~Exact(EmptyText)
    BY DEF Exact, EmptyText
  <2>3. ASSUME NEW x \in Which, Exact(obj.stamps[x])
        PROVE  /\ code[x] # "minus2"
               /\ code[x] = "zero" =>
                    stamp[x] = Meant(obj.stamps[x]) /\ Meant(obj.stamps[x]) \in Int
    <3>1. obj.stamps[x] = json.stamps[x]
      BY <2>1, <2>2, <2>3, StampsTyped
    <3>2. /\ ~(obj.stamps[x].point /\ StoiThrows(obj.stamps[x].digits))
          /\ Microseconds(obj.stamps[x]) = Meant(obj.stamps[x])
          /\ Meant(obj.stamps[x]) \in Int
          /\ Microseconds(obj.stamps[x]) % Word = Microseconds(obj.stamps[x])
      BY <2>1, <2>3, <3>1, MicrosecondsMeant
    <3>3. StampInv(obj.stamps[x], stamp[x], code[x])
      BY <2>1
    <3> QED BY <3>2, <3>3, Zenon DEF StampInv
  <2>4. ASSUME json.result = "notJson", code[v] # "unread"
        PROVE  code[v] = "zero" /\ stamp[v] > Word \div 2
    <3>1. obj.stamps[v] = EmptyText
      BY <2>1, <2>4, StampsTyped
    <3>2. StampInv(EmptyText, stamp[v], code[v])
      BY <2>1, <3>1
    <3>3. code[v] = "zero" /\ stamp[v] = Microseconds(EmptyText) % Word
      BY <2>4, <3>2, EmptyMicroseconds DEF StampInv
    <3> QED BY <3>3, EmptyMicroseconds
  <2> QED BY <2>3, <2>4
<1> QED BY <1>1, ResultInvariant, PTL

\* The values of the members of the request held, and how often it was changed.
RequestTyped ==
  /\ obj.kind \in Request =>
       obj.mem \in [Member(obj.kind) -> Value \cup {"empty", "indeterminate"}]
  /\ sets \in 0..MaxSets

\* Members hold values; setters stay within their bound.
LEMMA RequestTypedStep == RequestInv /\ ResultInv /\ RequestTyped /\ [Next]_vars => RequestTyped'
<1> SUFFICES ASSUME RequestInv, ResultInv, RequestTyped, [Next]_vars PROVE RequestTyped'
  OBVIOUS
<1>1. ASSUME NEW k \in Request, NEW mem \in [Member(k) -> Value \cup {"empty", "indeterminate"}],
             Hold(k, mem)
      PROVE  RequestTyped'
  BY <1>1, JobDataAssumption DEF Hold, RequestTyped
<1>2. ASSUME NEW k \in Request, DefaultConstruct(k) PROVE RequestTyped'
  BY <1>1, <1>2 DEF DefaultConstruct
<1>3. ASSUME NEW k \in Request, NEW args,
             \/ args \in [Parameter(k) -> Value] /\ Construct(k, args)
             \/ args \in CArgs(k) /\ CreateJob(k, args)
      PROVE  RequestTyped'
  <2>1. [m \in Member(k) |-> args[Initialiser[m]]]
          \in [Member(k) -> Value \cup {"empty", "indeterminate"}]
    <3>1. args \in [Parameter(k) -> Value]
      BY <1>3, Constructed
    <3>2. \A m \in Member(k) : args[Initialiser[m]] \in Value
      BY <3>1, MemberFacts
    <3> QED BY <3>2
  <2> QED BY <1>1, <1>3, <2>1, Constructed
<1>4. ASSUME NEW q, NEW v \in Value, Set(q, v) PROVE RequestTyped'
  <2>1. /\ obj.kind \in Request /\ Setter[q] \in Member(obj.kind)
        /\ sets < MaxSets /\ sets' = sets + 1
    BY <1>4, SetterFacts DEF Set, Request
  <2>2. obj'.kind = obj.kind /\ obj'.mem = [obj.mem EXCEPT ![Setter[q]] = v]
    BY <1>4, <2>1 DEF Set, RequestInv
  <2>3. sets' \in 0..MaxSets
    BY <2>1, JobDataAssumption DEF RequestTyped
  <2> QED BY <2>1, <2>2, <2>3 DEF RequestTyped
<1>5. ASSUME NEW isHpc \in BOOLEAN, ToJson(isHpc) PROVE RequestTyped'
  BY <1>5 DEF ToJson, RequestTyped
<1>6. ASSUME NEW j \in Json, GetJobResult(j) PROVE RequestTyped'
  BY <1>6 DEF GetJobResult, ResultOf, requestVars, RequestTyped, Request
<1>7. CASE GetJobResultCounts
  BY <1>7 DEF GetJobResultCounts, requestVars, RequestTyped
<1>8. ASSUME NEW w \in Which, GetTimestamp(w) PROVE RequestTyped'
  BY <1>8 DEF GetTimestamp, requestVars, RequestTyped
<1>9. CASE Free
  BY <1>9, JobDataAssumption DEF Free, None, RequestTyped, Request
<1>10. CASE UNCHANGED vars
  BY <1>10 DEF vars, requestVars, RequestTyped
<1> QED BY <1>2, <1>3, <1>4, <1>5, <1>6, <1>7, <1>8, <1>9, <1>10 DEF Next, Request

\* Job data is typed: stored timestamps fit uint64_t and counts int.
THEOREM DataTyped == Spec => []TypeOK
<1>1. Init => RequestTyped
  BY JobDataAssumption DEF Init, None, RequestTyped, Request
<1>2. ResultInv /\ RequestTyped => TypeOK
  <2> SUFFICES ASSUME ResultInv, RequestTyped PROVE TypeOK
    OBVIOUS
  <2>1. /\ obj.kind \in {"none", "circuit", "hamiltonian", "result"}
        /\ obj.kind = "result" => ~Throws(json)
    BY DEF ResultInv
  <2>2. ASSUME NEW w \in Which
        PROVE  stamp[w] \in 0..(Word - 1) /\ code[w] \in {"unread", "zero", "minus2"}
    <3>1. CASE obj.kind = "result"
      <4>1. StampInv(obj.stamps[w], stamp[w], code[w]) /\ obj.stamps[w] \in Timestamp
        BY <3>1, StampsTyped DEF ResultInv
      <4>2. Microseconds(obj.stamps[w]) % Word \in 0..(Word - 1)
        BY <4>1, MicrosecondsTyped
      <4>3. 0 \in 0..(Word - 1)
        BY JobDataAssumption
      <4> QED BY <4>1, <4>2, <4>3, Zenon DEF StampInv
    <3>2. CASE obj.kind # "result"
      BY <3>2, JobDataAssumption DEF ResultInv
    <3> QED BY <3>1, <3>2
  <2>3. /\ stamp \in [Which -> 0..(Word - 1)]
        /\ code \in [Which -> {"unread", "zero", "minus2"}]
    BY <2>2 DEF ResultInv
  <2>4. ASSUME NEW i \in DOMAIN counts PROVE counts[i].count \in (-IntHalf)..(IntHalf - 1)
    <3> DEFINE sent == FlattenSeq(json.maps)
    <3>1. counts # <<>>
      BY <2>4
    <3>2. /\ sent \in Seq(JsonEntry) /\ i \in 1..Len(sent)
          /\ counts[i].count = ToInt(ToUnsigned(sent[i].count))
      BY <2>4, <3>1, CountsFromResult
    <3> HIDE DEF sent
    <3>3. sent[i].count \in Int
      <4>1. sent[i] \in JsonEntry
        BY <3>2
      <4> QED BY <4>1 DEF JsonEntry
    <3> QED BY <3>2, <3>3, ConvertedCount
  <2> QED BY <2>1, <2>3, <2>4 DEF RequestTyped, TypeOK, Request
<1> QED BY <1>1, <1>2, RequestTypedStep, RequestInvariant, ResultInvariant, PTL DEF Spec
=============================================================================

----------------------- MODULE ResourceParserProofs -----------------------
(***************************************************************************)
(* What the resource queries return is what the answer lists, for replies  *)
(* of any length: by induction over the steps of the parser, which needs   *)
(* what one entry, or one value, more adds to the reference definitions.   *)
(***************************************************************************)
EXTENDS ResourceParser, FiniteSetTheorems, SequenceTheorems, TLAPS

----------------------------------------------------------------------------
(* Sequences and indices in order *)

\* The elements of S up to i.
UpTo(S, i) == {j \in S : j <= i}

\* A new largest index comes last and leaves the order of the others.
LEMMA InOrderNext ==
  ASSUME NEW n \in Nat, NEW S \in SUBSET (1..n)
  PROVE  /\ Cardinality(S) \in Nat
         /\ Cardinality(S \cup {n + 1}) = Cardinality(S) + 1
         /\ \A k \in 1..Cardinality(S) : InOrder(S \cup {n + 1})[k] = InOrder(S)[k]
         /\ InOrder(S \cup {n + 1})[Cardinality(S) + 1] = n + 1
<1> DEFINE T == S \cup {n + 1}
           c == Cardinality(S)
<1>1. IsFiniteSet(S) /\ c \in Nat
  <2>1. IsFiniteSet(1..n)
    BY FS_Interval
  <2>2. IsFiniteSet(S)
    BY <2>1, FS_Subset
  <2> QED BY <2>2, FS_CardinalityType
<1>2. IsFiniteSet(T) /\ Cardinality(T) = c + 1
  <2>1. n + 1 \notin S
    OBVIOUS
  <2> QED BY <1>1, <2>1, FS_AddElement
<1>3. \A i \in S : i # n + 1 /\ UpTo(T, i) = UpTo(S, i)
  <2> TAKE i \in S
  <2>1. i \in 1..n /\ i <= n
    OBVIOUS
  <2>2. ~(n + 1 <= i)
    BY <2>1
  <2> QED BY <2>1, <2>2 DEF UpTo
<1>4. UpTo(T, n + 1) = T
  <2>1. \A j \in T : j \in Nat /\ j <= n + 1
    OBVIOUS
  <2> QED BY <2>1 DEF UpTo
<1>5. \A i \in S : Cardinality(UpTo(S, i)) \in Nat /\ Cardinality(UpTo(S, i)) <= c
  <2> TAKE i \in S
  <2>1. UpTo(S, i) \in SUBSET S
    BY DEF UpTo
  <2> QED BY <1>1, <2>1, FS_Subset, FS_CardinalityType
<1> DEFINE At(U, k) == CHOOSE i \in U : Cardinality(UpTo(U, i)) = k
<1>6. InOrder(S) = [k \in 1..c |-> At(S, k)] /\ InOrder(T) = [k \in 1..(c + 1) |-> At(T, k)]
  BY <1>2 DEF InOrder, UpTo
<1>7. \A i : i \in T <=> i \in S \/ i = n + 1
  OBVIOUS
<1> HIDE DEF T, c
<1>8. \A k \in 1..c : At(T, k) = At(S, k)
  <2> SUFFICES ASSUME NEW k \in 1..c PROVE At(T, k) = At(S, k)
    OBVIOUS
  <2>1. k # c + 1
    BY <1>1
  <2>2. \A i : (i \in T /\ Cardinality(UpTo(T, i)) = k) <=> (i \in S /\ Cardinality(UpTo(S, i)) = k)
    BY <1>2, <1>3, <1>4, <1>7, <2>1
  <2> QED BY <2>2
<1>9. At(T, c + 1) = n + 1
  <2>1. \A i \in S : Cardinality(UpTo(S, i)) # c + 1
    BY <1>1, <1>5
  <2>2. \A i \in T : Cardinality(UpTo(T, i)) = c + 1 <=> i = n + 1
    BY <1>2, <1>3, <1>4, <1>7, <2>1
  <2>3. n + 1 \in T
    BY <1>7
  <2> QED BY <2>2, <2>3
<1> HIDE DEF At
<1>10. \A k \in 1..c : InOrder(T)[k] = InOrder(S)[k]
  BY <1>1, <1>6, <1>8
<1>11. InOrder(T)[c + 1] = n + 1
  BY <1>1, <1>6, <1>9
<1> QED BY <1>1, <1>2, <1>10, <1>11 DEF T, c

\* As many places as there are indices.
LEMMA InOrderIsSeq ==
  ASSUME NEW n \in Nat, NEW S \in SUBSET (1..n)
  PROVE  /\ Cardinality(S) \in Nat
         /\ DOMAIN InOrder(S) = 1..Cardinality(S)
  BY InOrderNext DEF InOrder

\* A function on 1..n is a sequence.
LEMMA FunctionIsSeq ==
  ASSUME NEW n \in Nat, NEW f, DOMAIN f = 1..n, f = [k \in 1..n |-> f[k]]
  PROVE  f \in Seq({f[k] : k \in 1..n}) /\ Len(f) = n
<1> DEFINE R == {f[k] : k \in 1..n}
<1>1. f \in [1..n -> R]
  OBVIOUS
<1>2. f \in Seq(R)
  BY <1>1, SeqDef
<1> QED BY <1>2, LenProperties

\* Append adds one place, the last.
LEMMA AppendIsFunction ==
  ASSUME NEW n \in Nat, NEW f, DOMAIN f = 1..n, f = [k \in 1..n |-> f[k]], NEW x
  PROVE  Append(f, x) = [k \in 1..(n + 1) |-> IF k = n + 1 THEN x ELSE f[k]]
<1>1. PICK R : f \in Seq(R) /\ Len(f) = n
  BY FunctionIsSeq
<1>2. f \in Seq(R \cup {x})
  BY <1>1, SeqMonotonic
<1> QED BY <1>1, <1>2

\* What follows an empty vector is the whole.
LEMMA EmptyConcat ==
  ASSUME NEW n \in Nat, NEW f, DOMAIN f = 1..n, f = [k \in 1..n |-> f[k]]
  PROVE  <<>> \o f = f
<1>1. PICK R : f \in Seq(R)
  BY FunctionIsSeq
<1> QED BY <1>1, ConcatEmptySeq

\* What is left of a sequence after its first n elements.
LEMMA RestOfSeq ==
  ASSUME NEW S, NEW s \in Seq(S), NEW n \in 0..Len(s)
  PROVE  /\ SubSeq(s, n + 1, Len(s)) = <<>> <=> n = Len(s)
         /\ n < Len(s) => /\ Head(SubSeq(s, n + 1, Len(s))) = s[n + 1]
                          /\ Tail(SubSeq(s, n + 1, Len(s))) = SubSeq(s, n + 2, Len(s))
                          /\ s[n + 1] \in S
<1>1. Len(s) \in Nat
  BY LenProperties
<1>2. CASE n = Len(s)
  BY <1>1, <1>2, SubSeqEmpty
<1>3. CASE n < Len(s)
  <2>1. n + 1 \in 1..Len(s) /\ Len(s) \in (n + 1)..Len(s) /\ (n + 1) + 1 = n + 2
    BY <1>1, <1>3
  <2>2. /\ Head(SubSeq(s, n + 1, Len(s))) = s[n + 1]
        /\ Tail(SubSeq(s, n + 1, Len(s))) = SubSeq(s, n + 2, Len(s))
    BY <2>1, HeadTailOfSubSeq
  <2>3. s[n + 1] \in S
    BY <2>1, ElementOfSeq
  <2>4. \A i \in (n + 1)..Len(s) : s[i] \in S
    BY <1>1, ElementOfSeq
  <2>5. Len(SubSeq(s, n + 1, Len(s))) # 0
    BY <1>1, <2>1, <2>4, SubSeqProperties
  <2>6. Len(<<>>) = 0
    BY EmptySeq
  <2>7. SubSeq(s, n + 1, Len(s)) # <<>>
    BY <2>5, <2>6
  <2>8. n # Len(s)
    BY <1>1, <1>3
  <2> QED BY <2>2, <2>3, <2>7, <2>8
<1> QED BY <1>1, <1>2, <1>3

----------------------------------------------------------------------------
(* The operators of the parser *)

\* The qubits of an entry, put into an empty vector, are its own.
LEMMA TuplesOfIsSeq ==
  ASSUME NEW e \in Entry
  PROVE  <<>> \o TuplesOf(e) = TuplesOf(e)
<1> DEFINE D == {i \in DOMAIN e.tuples : e.tuples[i].none}
<1>1. e.tuples \in Seq(QubitTuple)
  BY DEF Entry
<1>2. Len(e.tuples) \in Nat /\ D \in SUBSET (1..Len(e.tuples))
  BY <1>1, LenProperties
<1>3. PICK c \in Nat : DOMAIN InOrder(D) = 1..c
  BY <1>2, InOrderIsSeq
<1>4. /\ DOMAIN TuplesOf(e) = 1..c
      /\ TuplesOf(e) = [k \in 1..c |-> TuplesOf(e)[k]]
  BY <1>3 DEF TuplesOf
<1> QED BY <1>4, EmptyConcat

\* The gates listed by one entry more.
LEMMA ListedInNext ==
  ASSUME NEW es \in Seq(Entry), NEW d \in 0..Len(es), d < Len(es)
  PROVE  /\ ~es[d + 1].braces => ListedIn(es, d + 1) = ListedIn(es, d)
         /\ es[d + 1].braces =>
              ListedIn(es, d + 1) =
                Append(ListedIn(es, d), Gate(es[d + 1].name, TuplesOf(es[d + 1])))
<1> DEFINE A == {i \in 1..d : es[i].braces}
           B == {i \in 1..(d + 1) : es[i].braces}
           G(i) == Gate(es[i].name, TuplesOf(es[i]))
           f == ListedIn(es, d)
           g == ListedIn(es, d + 1)
           x == G(d + 1)
<1>1. Len(es) \in Nat /\ d \in Nat /\ d + 1 \in Nat
  BY LenProperties
<1>2. /\ f = [k \in DOMAIN InOrder(A) |-> G(InOrder(A)[k])]
      /\ g = [k \in DOMAIN InOrder(B) |-> G(InOrder(B)[k])]
  BY DEF ListedIn, Gate
<1>3. ~es[d + 1].braces => A = B
  BY <1>1
<1>4. es[d + 1].braces => B = A \cup {d + 1}
  BY <1>1
<1>5. A \in SUBSET (1..d) /\ B \in SUBSET (1..(d + 1))
  OBVIOUS
<1> HIDE DEF A, B, G, f, g, x
<1>6. ~es[d + 1].braces => g = f
  BY <1>2, <1>3
<1>7. ASSUME es[d + 1].braces PROVE g = Append(f, x)
  <2> DEFINE c == Cardinality(A)
  <2>1. /\ c \in Nat
        /\ Cardinality(B) = c + 1
        /\ \A k \in 1..c : InOrder(B)[k] = InOrder(A)[k]
        /\ InOrder(B)[c + 1] = d + 1
    <3>1. /\ c \in Nat
          /\ Cardinality(A \cup {d + 1}) = c + 1
          /\ \A k \in 1..c : InOrder(A \cup {d + 1})[k] = InOrder(A)[k]
          /\ InOrder(A \cup {d + 1})[c + 1] = d + 1
      BY <1>1, <1>5, InOrderNext, Zenon
    <3>2. B = A \cup {d + 1}
      BY <1>4, <1>7
    <3> QED BY <3>1, <3>2
  <2>2. DOMAIN InOrder(A) = 1..c
    BY <1>1, <1>5, InOrderIsSeq
  <2>3. DOMAIN InOrder(B) = 1..(c + 1)
    BY <1>1, <1>5, <2>1, InOrderIsSeq
  <2> HIDE DEF c
  <2>4. f = [k \in 1..c |-> G(InOrder(A)[k])]
    BY <1>2, <2>2
  <2>5. g = [k \in 1..(c + 1) |-> G(InOrder(B)[k])]
    BY <1>2, <2>3
  <2>6. \A k \in 1..(c + 1) :
          G(InOrder(B)[k]) = IF k = c + 1 THEN x ELSE f[k]
    <3> TAKE k \in 1..(c + 1)
    <3>1. CASE k = c + 1
      BY <2>1, <3>1 DEF x
    <3>2. CASE k \in 1..c
      <4>1. k # c + 1
        BY <2>1, <3>2
      <4> QED BY <2>1, <2>4, <3>2, <4>1
    <3> QED BY <2>1, <3>1, <3>2
  <2>7. DOMAIN f = 1..c /\ f = [k \in 1..c |-> f[k]]
    BY <2>4
  <2>8. Append(f, x) = [k \in 1..(c + 1) |-> IF k = c + 1 THEN x ELSE f[k]]
    BY <2>1, <2>7, AppendIsFunction
  <2> QED BY <2>5, <2>6, <2>8
<1> QED BY <1>6, <1>7 DEF f, g, x, G

\* No entry lists no gate.
LEMMA ListedInNone ==
  ASSUME NEW es PROVE ListedIn(es, 0) = <<>>
<1>1. {i \in 1..0 : es[i].braces} = {}
  OBVIOUS
<1>2. DOMAIN InOrder({}) = {}
  BY FS_EmptySet DEF InOrder
<1> QED BY <1>1, <1>2 DEF ListedIn

\* The resources that the first n values describe.
Built(values, n) == [i \in 1..n |-> Resource(values[i], Listed(values[i].gates))]

\* The resources of one value more.
LEMMA BuiltNext ==
  ASSUME NEW values, NEW n \in Nat
  PROVE  Built(values, n + 1) =
           Append(Built(values, n), Resource(values[n + 1], Listed(values[n + 1].gates)))
<1> DEFINE f == Built(values, n)
           x == Resource(values[n + 1], Listed(values[n + 1].gates))
<1>1. DOMAIN f = 1..n /\ f = [k \in 1..n |-> f[k]]
  BY DEF Built
<1>2. \A k \in 1..n : f[k] = Resource(values[k], Listed(values[k].gates))
  BY DEF Built
<1>3. Append(f, x) = [k \in 1..(n + 1) |-> IF k = n + 1 THEN x ELSE f[k]]
  <2> HIDE DEF f, x
  <2> QED BY <1>1, AppendIsFunction
<1>4. \A k \in 1..(n + 1) :
        Resource(values[k], Listed(values[k].gates)) = IF k = n + 1 THEN x ELSE f[k]
  <2> TAKE k \in 1..(n + 1)
  <2>1. k = n + 1 \/ k \in 1..n
    OBVIOUS
  <2> HIDE DEF f
  <2> QED BY <1>2, <2>1
<1> HIDE DEF f, x
<1> QED BY <1>3, <1>4 DEF Built, f, x

----------------------------------------------------------------------------
(* The inductive invariant *)

\* The resources built are those of the first values, and while the query runs
\* the values after them are still to be read.
ItemsInv ==
  \E n \in 0..Len(query.values) :
    /\ resources = Built(query.values, n)
    /\ pc = "start" => n = 0
    /\ pc \in {"items", "gates"} => todo = SubSeq(query.values, n + 1, Len(query.values))

\* While a string of instructions is read, the gates found are those of the
\* entries read so far, and the shared vector is empty between two of them.
GatesInv ==
  pc = "gates" =>
    /\ todo # <<>>
    /\ supportedQubits = <<>>
    /\ \E d \in 0..Len(Head(todo).gates) :
         /\ gatesLeft = SubSeq(Head(todo).gates, d + 1, Len(Head(todo).gates))
         /\ gates = ListedIn(Head(todo).gates, d)

ParserInv ==
  /\ query \in Exchange
  /\ pc \in {"start", "items", "gates", "done"}
  /\ pc # "done" => outcome = "none"
  /\ ItemsInv
  /\ GatesInv
  /\ CompleteOrThrow

\* Nothing is built when a query starts.
LEMMA InitParserInv == Init => ParserInv
<1> SUFFICES ASSUME Init PROVE ParserInv
  OBVIOUS
<1>1. query \in Exchange /\ pc = "start" /\ outcome = "none" /\ resources = <<>>
  BY QueryAssumption DEF Init
<1>2. 0 \in 0..Len(query.values)
  BY <1>1, LenProperties DEF Exchange
<1>3. Built(query.values, 0) = <<>>
  BY DEF Built
<1>4. ItemsInv
  BY <1>1, <1>2, <1>3 DEF ItemsInv
<1> QED BY <1>1, <1>4 DEF ParserInv, GatesInv, CompleteOrThrow

\* The values of an exchange are a sequence, the instructions of each are one.
LEMMA ExchangeTypes ==
  ASSUME NEW q \in Exchange
  PROVE  /\ q.values \in Seq(Item)
         /\ Len(q.values) \in Nat
         /\ \A n \in 1..Len(q.values) : q.values[n].gates \in Seq(Entry)
<1>1. q.values \in Seq(Item)
  BY DEF Exchange
<1>2. \A n \in 1..Len(q.values) : q.values[n] \in Item
  BY <1>1, ElementOfSeq
<1> QED BY <1>1, <1>2, LenProperties DEF Item

\* A query looks at the answer: it returns without a resource, or begins with
\* the first value.
LEMMA StartStep ==
  ASSUME ParserInv, GetAllResources \/ GetResourceInfo \/ GetNumberPendingJobs
  PROVE  ParserInv'
<1>1. /\ pc = "start" /\ query' = query /\ resources' = resources
      /\ query \in Exchange /\ outcome = "none"
  BY DEF ParserInv, GetAllResources, GetResourceInfo, GetNumberPendingJobs
<1>2. \/ pc' = "done" /\ todo' = todo
      \/ pc' = "items" /\ todo' = query.values /\ outcome' = outcome
  BY DEF GetAllResources, GetResourceInfo, GetNumberPendingJobs, Return
<1>3. 0 \in 0..Len(query.values) /\ resources = Built(query.values, 0)
  <2>1. PICK n \in 0..Len(query.values) : resources = Built(query.values, n) /\ n = 0
    BY <1>1 DEF ParserInv, ItemsInv
  <2> QED BY <2>1
<1>4. SubSeq(query.values, 0 + 1, Len(query.values)) = query.values
  BY <1>1, ExchangeTypes, SubSeqFull
<1>5. ItemsInv'
  BY <1>1, <1>2, <1>3, <1>4 DEF ItemsInv
<1>6. resources = <<>>
  BY <1>3 DEF Built
<1>7. CompleteOrThrow'
  <2>1. outcome' \in {"list", "resource"} => query.op = "all" /\ query.body = "text"
    BY <1>1, <1>2 DEF GetAllResources, GetResourceInfo, GetNumberPendingJobs, Return
  <2> QED BY <1>1, <1>6, <2>1 DEF CompleteOrThrow
<1> QED BY <1>1, <1>2, <1>5, <1>7 DEF ParserInv, GatesInv

\* Resource(json) throws, or goes on with the instructions of its own value.
LEMMA BeginItemStep ==
  ASSUME ParserInv, BeginItem
  PROVE  ParserInv'
<1>1. /\ pc = "items" /\ todo # <<>> /\ query' = query /\ resources' = resources
      /\ todo' = todo /\ outcome = "none" /\ query \in Exchange
  BY DEF ParserInv, BeginItem
<1>2. \/ pc' = "done" /\ outcome' = "throw"
      \/ /\ pc' = "gates" /\ outcome' = outcome
         /\ gatesLeft' = Head(todo).gates /\ supportedQubits' = <<>> /\ gates' = <<>>
  BY DEF BeginItem, Return
<1>3. ItemsInv'
  BY <1>1, <1>2 DEF ItemsInv, ParserInv
<1>4. Head(todo).gates \in Seq(Entry)
  <2>1. PICK n \in 0..Len(query.values) : todo = SubSeq(query.values, n + 1, Len(query.values))
    BY <1>1 DEF ParserInv, ItemsInv
  <2>2. query.values \in Seq(Item) /\ Len(query.values) \in Nat
    BY <1>1, ExchangeTypes
  <2>3. n < Len(query.values)
    BY <1>1, <2>1, <2>2, RestOfSeq
  <2>4. Head(todo) \in Item
    BY <2>1, <2>2, <2>3, RestOfSeq
  <2> QED BY <2>4 DEF Item
<1>5. GatesInv'
  <2> SUFFICES ASSUME pc' = "gates" PROVE GatesInv'
    BY DEF GatesInv
  <2> DEFINE es == Head(todo).gates
  <2>1. gatesLeft' = es /\ supportedQubits' = <<>> /\ gates' = <<>>
    BY <1>2
  <2>2. 0 \in 0..Len(es) /\ SubSeq(es, 0 + 1, Len(es)) = es
    BY <1>4, LenProperties, SubSeqFull
  <2>3. ListedIn(es, 0) = <<>>
    BY ListedInNone
  <2>4. \E d \in 0..Len(es) : gatesLeft' = SubSeq(es, d + 1, Len(es)) /\ gates' = ListedIn(es, d)
    BY <2>1, <2>2, <2>3
  <2> HIDE DEF es
  <2> QED BY <1>1, <2>1, <2>4 DEF GatesInv, es
<1>6. CompleteOrThrow'
  BY <1>1, <1>2 DEF CompleteOrThrow
<1> QED BY <1>1, <1>2, <1>3, <1>5, <1>6 DEF ParserInv

\* One match of gateRegex: the entry adds its own gate or none, or throws.
LEMMA NextGateStep ==
  ASSUME ParserInv, NextGate
  PROVE  ParserInv'
<1> DEFINE es == Head(todo).gates
           e  == Head(gatesLeft)
<1>1. /\ pc = "gates" /\ gatesLeft # <<>> /\ gatesLeft' = Tail(gatesLeft)
      /\ query' = query /\ resources' = resources /\ todo' = todo
      /\ todo # <<>> /\ supportedQubits = <<>> /\ outcome = "none" /\ query \in Exchange
  BY DEF ParserInv, GatesInv, NextGate
<1>2. \/ pc' = "done" /\ outcome' = "throw"
      \/ /\ pc' = pc /\ outcome' = outcome
         /\ supportedQubits' = supportedQubits /\ gates' = gates /\ ~e.braces
      \/ /\ pc' = pc /\ outcome' = outcome /\ e.braces
         /\ gates' = Append(gates, Gate(e.name, supportedQubits \o TuplesOf(e)))
         /\ supportedQubits' = <<>>
  BY DEF NextGate, Return, MovedFrom
<1>3. PICK n \in 0..Len(query.values) :
        /\ resources = Built(query.values, n)
        /\ todo = SubSeq(query.values, n + 1, Len(query.values))
  BY <1>1 DEF ParserInv, ItemsInv
<1>4. es \in Seq(Entry) /\ Len(es) \in Nat
  <2>1. query.values \in Seq(Item) /\ Len(query.values) \in Nat
    BY <1>1, ExchangeTypes
  <2>2. n < Len(query.values)
    BY <1>1, <1>3, <2>1, RestOfSeq
  <2>3. Head(todo) \in Item
    BY <1>3, <2>1, <2>2, RestOfSeq
  <2> QED BY <2>3, LenProperties DEF Item
<1>5. PICK d \in 0..Len(es) : gatesLeft = SubSeq(es, d + 1, Len(es)) /\ gates = ListedIn(es, d)
  BY <1>1 DEF ParserInv, GatesInv
<1>6. ItemsInv'
  BY <1>1, <1>2, <1>3 DEF ItemsInv
<1>7. CompleteOrThrow'
  BY <1>1, <1>2 DEF CompleteOrThrow
<1>8. GatesInv'
  <2> SUFFICES ASSUME pc' = "gates" PROVE GatesInv'
    BY DEF GatesInv
  <2> HIDE DEF es
  <2>1. d < Len(es)
    BY <1>1, <1>4, <1>5, RestOfSeq
  <2>2. e = es[d + 1] /\ gatesLeft' = SubSeq(es, d + 2, Len(es)) /\ e \in Entry
    BY <1>1, <1>4, <1>5, <2>1, RestOfSeq
  <2>3. <<>> \o TuplesOf(e) = TuplesOf(e)
    BY <2>2, TuplesOfIsSeq
  <2> HIDE DEF e
  <2>4. gates' = ListedIn(es, d + 1) /\ supportedQubits' = <<>>
    BY <1>1, <1>2, <1>4, <1>5, <2>1, <2>2, <2>3, ListedInNext
  <2>5. d + 1 \in 0..Len(es) /\ (d + 1) + 1 = d + 2
    BY <1>4, <2>1
  <2>6. \E b \in 0..Len(es) : gatesLeft' = SubSeq(es, b + 1, Len(es)) /\ gates' = ListedIn(es, b)
    BY <2>2, <2>4, <2>5
  <2> QED BY <1>1, <2>4, <2>6 DEF GatesInv, es
<1> QED BY <1>1, <1>2, <1>6, <1>7, <1>8 DEF ParserInv

\* The end of a string: the resource of this value is complete.
LEMMA EndItemStep ==
  ASSUME ParserInv, EndItem
  PROVE  ParserInv'
<1> DEFINE vs == query.values
<1>1. /\ pc = "gates" /\ gatesLeft = <<>> /\ pc' = "items" /\ todo' = Tail(todo)
      /\ resources' = Append(resources, Resource(Head(todo), gates))
      /\ query' = query /\ outcome' = outcome
      /\ todo # <<>> /\ outcome = "none" /\ query \in Exchange
  BY DEF ParserInv, GatesInv, EndItem
<1>2. vs \in Seq(Item) /\ Len(vs) \in Nat
  BY <1>1, ExchangeTypes
<1>3. PICK n \in 0..Len(vs) :
        resources = Built(vs, n) /\ todo = SubSeq(vs, n + 1, Len(vs))
  BY <1>1 DEF ParserInv, ItemsInv
<1>4. n < Len(vs)
  BY <1>1, <1>2, <1>3, RestOfSeq
<1>5. Head(todo) = vs[n + 1] /\ Tail(todo) = SubSeq(vs, n + 2, Len(vs)) /\ Head(todo) \in Item
  BY <1>2, <1>3, <1>4, RestOfSeq
<1>6. gates = Listed(Head(todo).gates)
  <2> DEFINE es == Head(todo).gates
  <2>1. es \in Seq(Entry) /\ Len(es) \in Nat
    BY <1>5, LenProperties DEF Item
  <2>2. PICK d \in 0..Len(es) : gatesLeft = SubSeq(es, d + 1, Len(es)) /\ gates = ListedIn(es, d)
    BY <1>1 DEF ParserInv, GatesInv
  <2>3. d = Len(es)
    BY <1>1, <2>1, <2>2, RestOfSeq
  <2> QED BY <2>2, <2>3 DEF Listed
<1>7. resources' = Built(vs, n + 1)
  <2>1. n \in Nat
    BY <1>2
  <2>2. Built(vs, n + 1) =
          Append(Built(vs, n), Resource(vs[n + 1], Listed(vs[n + 1].gates)))
    BY <2>1, BuiltNext
  <2> QED BY <1>1, <1>3, <1>5, <1>6, <2>2
<1>8. n + 1 \in 0..Len(vs) /\ (n + 1) + 1 = n + 2
  BY <1>2, <1>4
<1>9. ItemsInv'
  BY <1>1, <1>5, <1>7, <1>8 DEF ItemsInv
<1> QED BY <1>1, <1>9 DEF ParserInv, GatesInv, CompleteOrThrow

\* The end of the answer: one resource for every value of it.
LEMMA EndQueryStep ==
  ASSUME ParserInv, EndQuery
  PROVE  ParserInv'
<1> DEFINE vs == query.values
<1>1. /\ pc = "items" /\ todo = <<>> /\ pc' = "done"
      /\ query' = query /\ resources' = resources /\ query \in Exchange
  BY DEF ParserInv, EndQuery, Return
<1>2. vs \in Seq(Item) /\ Len(vs) \in Nat
  BY <1>1, ExchangeTypes
<1>3. PICK n \in 0..Len(vs) :
        resources = Built(vs, n) /\ todo = SubSeq(vs, n + 1, Len(vs))
  BY <1>1 DEF ParserInv, ItemsInv
<1>4. n = Len(vs)
  BY <1>1, <1>2, <1>3, RestOfSeq
<1>5. ItemsInv'
  BY <1>1, <1>3 DEF ItemsInv
<1>6. DOMAIN resources = 1..Len(vs) /\ Len(resources) = Len(vs)
  BY <1>2, <1>3, <1>4, FunctionIsSeq DEF Built
<1>7. \A i \in DOMAIN resources : resources[i].coupling = vs[i].coupling
  BY <1>3, <1>4, <1>6 DEF Built, Resource
<1>8. CompleteOrThrow'
  BY <1>1, <1>6, <1>7 DEF CompleteOrThrow
<1> QED BY <1>1, <1>5, <1>8 DEF ParserInv, GatesInv

\* What the loops of resource.cpp have done at every step: the resources are
\* those of the values read, the gates those of the entries read, and the
\* vector shared by all gates of a string is empty.
THEOREM ParserInvariant == Spec => []ParserInv
<1>1. ParserInv /\ [Next]_vars => ParserInv'
  <2> SUFFICES ASSUME ParserInv, [Next]_vars PROVE ParserInv'
    OBVIOUS
  <2>1. CASE UNCHANGED vars
    BY <2>1 DEF ParserInv, ItemsInv, GatesInv, CompleteOrThrow, vars
  <2> QED BY <2>1, StartStep, BeginItemStep, NextGateStep, EndItemStep, EndQueryStep DEF Next
<1> QED BY <1>1, InitParserInv, PTL DEF Spec

\* Every resource that resource.cpp builds, from instructions of any length,
\* has exactly the gates its own string lists, each with its own qubits.
THEOREM GatesRight == Spec => []GatesAsListed
<1>1. ParserInv => GatesAsListed
  BY DEF ParserInv, ItemsInv, Built, Resource, GatesAsListed
<1> QED BY <1>1, ParserInvariant, PTL

\* getAllResources and getResourceInfo return one resource for every value of
\* an answer of any length, in order, or throw.
THEOREM QueryComplete == Spec => []CompleteOrThrow
<1>1. ParserInv => CompleteOrThrow
  BY DEF ParserInv
<1> QED BY <1>1, ParserInvariant, PTL
===========================================================================

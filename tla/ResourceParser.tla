--------------------------- MODULE ResourceParser ---------------------------
(***************************************************************************)
(* The resource queries of MQSSClient (getAllResources, getResourceInfo    *)
(* and getNumberPendingJobs in src/client.cpp) and the construction of a   *)
(* Resource from the service's JSON (src/resource.cpp).                    *)
(*                                                                         *)
(* The strings that list couplings and instructions are modelled by what   *)
(* the regular expressions find in them: pairs of qubits, and entries with *)
(* a gate name and tuples of qubits.  A step of the model is one iteration *)
(* of one of the code's loops.                                             *)
(***************************************************************************)
EXTENDS Integers, Sequences, FiniteSets

CONSTANTS
  Query,     \* the queries the application makes, each with the reply it gets
  IntMax     \* the largest int std::stoi can return

VARIABLES
  query,            \* the query under way and its reply
  pc,               \* "start", "items", "gates" or "done"
  todo,             \* JSON values still to be turned into a Resource
  gatesLeft,        \* entries of the current instructions string
  supportedQubits,  \* the vector of the same name in extractGates
  gates,            \* its result so far
  resources,        \* resources built so far
  outcome           \* how the query ended

vars == <<query, pc, todo, gatesLeft, supportedQubits, gates, resources, outcome>>

\* A query is [op, body, values]: body tells the answers apart as the code does,
\*   text      empty, or not JSON
\*   missing   the text RESOURCE NOT FOUND occurs in it
\*   error     a JSON object with a member ERROR
\*   json      any other JSON
\* and values are the JSON values a range-for over it visits (for the single
\* resource of getResourceInfo, the value itself).
\* A JSON value is [kind, coupling, gates]: kind is "object", "mistyped" (an
\* object whose name or online has another type than expected) or "other" (not
\* an object); a string member that is absent or "None" lists nothing.
\* An entry is [name, braces, tuples]: braces says whether a brace-free {...}
\* follows the name; a tuple is [qubits, none, numbers], none if ": None"
\* follows it, else numbers are those in the text that follows instead.
QubitTuple == [qubits : Seq(Nat), none : BOOLEAN, numbers : Seq(Nat)]
Entry == [name : STRING, braces : BOOLEAN, tuples : Seq(QubitTuple)]
Item == [kind : {"object", "mistyped", "other"}, coupling : Seq(Seq(Nat)),
         gates : Seq(Entry)]
Exchange == [op : {"all", "info", "pending"},
             body : {"text", "missing", "error", "json"}, values : Seq(Item)]

ASSUME QueryAssumption == Query \subseteq Exchange

----------------------------------------------------------------------------
(* Helpers of resource.cpp *)

\* getGateProterties: number of qubits and of parameters; others throw.
GateProperties ==
  [cz |-> <<2, 0>>, measure |-> <<1, 0>>, id |-> <<1, 0>>, r |-> <<1, 2>>,
   rx |-> <<1, 1>>, rz |-> <<1, 1>>, rxx |-> <<2, 1>>, if_else |-> <<1, 0>>,
   reset |-> <<1, 0>>, swap |-> <<2, 0>>]

Stoi(ns) == \A i \in DOMAIN ns : ns[i] <= IntMax   \* else std::out_of_range

\* A finite set of indices in ascending order.
InOrder(S) ==
  [k \in 1..Cardinality(S) |-> CHOOSE i \in S : Cardinality({j \in S : j <= i}) = k]

\* What the inner loops of extractGates find in the body of an entry: a match of
\* tupleRegex reaches back to the closing parenthesis before it, so numbers
\* in the text after a tuple that does not end in None join the next match.
TuplesOf(entry) ==
  LET ts     == entry.tuples
      Before(i) == IF i > 1 /\ ~ts[i - 1].none THEN ts[i - 1].numbers ELSE <<>>
      found  == InOrder({i \in DOMAIN ts : ts[i].none})
  IN [k \in DOMAIN found |-> Before(found[k]) \o ts[found[k]].qubits]

\* The vector after std::move handed its elements to the new Gate.
MovedFromKept(v) == v
MovedFrom(v) == <<>>

\* The objects a query builds.  name, qubit count and online flag of a Resource
\* are taken over as they are, and left out here.
Gate(name, supported) ==
  [name |-> name, supported |-> supported, properties |-> GateProperties[name]]

Resource(item, gs) == [coupling |-> item.coupling, gates |-> gs]

----------------------------------------------------------------------------
(* The queries *)

Init ==
  /\ query \in Query
  /\ pc = "start"
  /\ todo = <<>>
  /\ gatesLeft = <<>>
  /\ supportedQubits = <<>>
  /\ gates = <<>>
  /\ resources = <<>>
  /\ outcome = "none"

Return(o) ==
  /\ pc' = "done"
  /\ outcome' = o

GetAllResources ==
  /\ pc = "start"
  /\ query.op = "all"
  /\ \/ /\ query.body = "text"
        /\ Return("list")
        /\ UNCHANGED todo
     \/ /\ query.body # "text"
        /\ pc' = "items"
        /\ todo' = query.values
        /\ UNCHANGED outcome
  /\ UNCHANGED <<query, gatesLeft, supportedQubits, gates, resources>>

GetResourceInfo ==
  /\ pc = "start"
  /\ query.op = "info"
  /\ \/ /\ query.body \in {"missing", "text", "error"}
        /\ Return("nullopt")
        /\ UNCHANGED todo
     \/ /\ query.body = "json"
        /\ pc' = "items"
        /\ todo' = query.values
        /\ UNCHANGED outcome
  /\ UNCHANGED <<query, gatesLeft, supportedQubits, gates, resources>>

\* parsed.value throws on JSON that is no object or whose num_pending_jobs is no
\* number ("mistyped"); any object may have the number or lack it, which is -1.
GetNumberPendingJobs ==
  /\ pc = "start"
  /\ query.op = "pending"
  /\ \/ query.body = "text" /\ Return("minusOne")
     \/ /\ query.body # "text"
        /\ query.values[1].kind # "object"
        /\ Return("throw")
     \/ /\ query.body # "text"
        /\ query.values[1].kind = "object"
        /\ Return("number") \/ Return("minusOne")
  /\ UNCHANGED <<query, todo, gatesLeft, supportedQubits, gates, resources>>

----------------------------------------------------------------------------
(* Resource(json) *)

Throws(item) ==
  \/ item.kind # "object"
  \/ \E i \in DOMAIN item.coupling : ~Stoi(item.coupling[i])

BeginItemOrSkip ==
  /\ pc = "items"
  /\ todo # <<>>
  /\ \/ /\ Throws(Head(todo))
        /\ todo' = Tail(todo)
        /\ UNCHANGED <<pc, gatesLeft, supportedQubits, gates>>
     \/ /\ ~Throws(Head(todo))
        /\ pc' = "gates"
        /\ gatesLeft' = Head(todo).gates
        /\ supportedQubits' = <<>>
        /\ gates' = <<>>
        /\ UNCHANGED todo
  /\ UNCHANGED <<query, resources, outcome>>

BeginItem ==
  /\ pc = "items"
  /\ todo # <<>>
  /\ \/ /\ Throws(Head(todo))
        /\ Return("throw")
        /\ UNCHANGED <<gatesLeft, supportedQubits, gates>>
     \/ /\ ~Throws(Head(todo))
        /\ pc' = "gates"
        /\ gatesLeft' = Head(todo).gates
        /\ supportedQubits' = <<>>
        /\ gates' = <<>>
        /\ UNCHANGED outcome
  /\ UNCHANGED <<query, todo, resources>>

\* One match of gateRegex in extractGates; entries it does not match are skipped.
NextGate ==
  /\ pc = "gates"
  /\ gatesLeft # <<>>
  /\ gatesLeft' = Tail(gatesLeft)
  /\ LET e == Head(gatesLeft)
         v == supportedQubits \o TuplesOf(e)
     IN \/ /\ ~e.braces
           /\ UNCHANGED <<pc, supportedQubits, gates, outcome>>
        \/ /\ e.braces
           /\ (\E i \in DOMAIN v : ~Stoi(v[i])) \/ e.name \notin DOMAIN GateProperties
           /\ Return("throw")
           /\ UNCHANGED <<supportedQubits, gates>>
        \/ /\ e.braces
           /\ \A i \in DOMAIN v : Stoi(v[i])
           /\ e.name \in DOMAIN GateProperties
           /\ gates' = Append(gates, Gate(e.name, v))
           /\ supportedQubits' = MovedFrom(v)
           /\ UNCHANGED <<pc, outcome>>
  /\ UNCHANGED <<query, todo, resources>>

EndItem ==
  /\ pc = "gates"
  /\ gatesLeft = <<>>
  /\ pc' = "items"
  /\ resources' = Append(resources, Resource(Head(todo), gates))
  /\ todo' = Tail(todo)
  /\ UNCHANGED <<query, gatesLeft, supportedQubits, gates, outcome>>

EndQuery ==
  /\ pc = "items"
  /\ todo = <<>>
  /\ Return(IF query.op = "all" THEN "list" ELSE "resource")
  /\ UNCHANGED <<query, todo, gatesLeft, supportedQubits, gates, resources>>

Next ==
  \/ GetAllResources
  \/ GetResourceInfo
  \/ GetNumberPendingJobs
  \/ BeginItem
  \/ NextGate
  \/ EndItem
  \/ EndQuery

Spec == Init /\ [][Next]_vars

----------------------------------------------------------------------------
(* Properties *)

\* The gates that the first n entries of an instructions string list, in order.
ListedIn(entries, n) ==
  LET matched == InOrder({i \in 1..n : entries[i].braces})
  IN [k \in DOMAIN matched |->
        LET e == entries[matched[k]]
        IN [name |-> e.name, supported |-> TuplesOf(e), properties |-> GateProperties[e.name]]]

Listed(entries) == ListedIn(entries, Len(entries))

\* Every resource that is built has exactly the gates its own string lists, each
\* with its own qubits and none of the gates before it: extractGates reuses
\* one vector for all of them and relies on it being empty after the move.
GatesAsListed ==
  \A i \in DOMAIN resources : resources[i].gates = Listed(query.values[i].gates)

\* getAllResources returns one resource for every value of the answer, in
\* order, and getResourceInfo one for its answer: a value that cannot be read
\* makes the query throw, it is never left out.
CompleteOrThrow ==
  outcome \in {"list", "resource"} =>
    \/ query.op = "all" /\ query.body = "text" /\ resources = <<>>
    \/ /\ Len(resources) = Len(query.values)
       /\ \A i \in DOMAIN resources :
            resources[i].coupling = query.values[i].coupling
=============================================================================

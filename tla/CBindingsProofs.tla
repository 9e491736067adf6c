-------------------------- MODULE CBindingsProofs --------------------------
(***************************************************************************)
(* The C functions that hand out memory are clean for results of any       *)
(* size, whichever of their allocations fails.                             *)
(***************************************************************************)
EXTENDS CBindings, TLAPS

\* The blocks a function holds when its first k allocation steps succeeded.
Held(f, k) == UNION {Asked(f, i) : i \in 0..(k - 1)}

----------------------------------------------------------------------------
(* What the functions ask for and give back *)

\* One more step adds what it asked for.
LEMMA HeldNext ==
  ASSUME NEW f \in Fn, NEW k \in Nat
  PROVE  Held(f, k + 1) = Held(f, k) \cup Asked(f, k)
<1>1. 0..((k + 1) - 1) = (0..(k - 1)) \cup {k}
  OBVIOUS
<1> QED
  BY <1>1 DEF Held

\* Nothing is held before the first step.
LEMMA HeldZero == ASSUME NEW f \in Fn PROVE Held(f, 0) = {}
<1>1. 0..(0 - 1) = {}
  OBVIOUS
<1> QED
  BY <1>1 DEF Held

\* A function's steps are a natural number, one at least unless nothing is to
\* be handed out.
LEMMA StepsType ==
  ASSUME NEW f \in Fn, NEW n \in 0..MaxItems
  PROVE  /\ Steps(f, n) \in 0..(MaxItems + 3)
         /\ Steps(f, n) = 0 <=> f = "counts" /\ n = 0
BY MaxItemsAssumption DEF Steps, Fn

\* Members of Held(f, k), function by function.
LEMMA HeldMembers ==
  ASSUME NEW k \in Nat, NEW b
  PROVE  /\ b \in Held("counts", k) <=>
              \/ k > 0 /\ b \in {Array("counts"), Array("bitstreams")}
              \/ \E i \in 1..(k - 1) : b = <<"bitstreams", i>>
         /\ b \in Held("info", k) <=>
              \/ k > 0 /\ b = Array("name")
              \/ k > 1 /\ b = Array("couplingMap")
              \/ \E i \in 0..(k - 3) : b = <<"nativeGateset", i>>
         /\ b \in Held("gate", k) <=>
              \/ k > 0 /\ b = Array("name")
              \/ k > 1 /\ b = Array("supportedQubits")
         /\ b \in Held("resources", k) <=> \E i \in 0..(k - 1) : b = <<"result", i>>
<1>1. \A f : b \in Held(f, k) <=> \E i \in 0..(k - 1) : b \in Asked(f, i)
  BY DEF Held
<1>2. b \in Held("counts", k) <=>
        \/ k > 0 /\ b \in {Array("counts"), Array("bitstreams")}
        \/ \E i \in 1..(k - 1) : b = <<"bitstreams", i>>
  BY <1>1 DEF Asked
<1>3. b \in Held("info", k) <=>
        \/ k > 0 /\ b = Array("name")
        \/ k > 1 /\ b = Array("couplingMap")
        \/ \E i \in 0..(k - 3) : b = <<"nativeGateset", i>>
  <2>1. ASSUME NEW i \in 0..(k - 3)
        PROVE  i + 2 \in 0..(k - 1) /\ Asked("info", i + 2) = {<<"nativeGateset", i>>}
    BY DEF Asked
  <2>2. ASSUME NEW i \in 0..(k - 1), i > 1
        PROVE  i - 2 \in 0..(k - 3) /\ Asked("info", i) = {<<"nativeGateset", i - 2>>}
    BY <2>2 DEF Asked
  <2>3. Asked("info", 0) = {Array("name")} /\ Asked("info", 1) = {Array("couplingMap")}
    BY DEF Asked
  <2>4. ASSUME b \in Held("info", k)
        PROVE  \/ k > 0 /\ b = Array("name")
               \/ k > 1 /\ b = Array("couplingMap")
               \/ \E i \in 0..(k - 3) : b = <<"nativeGateset", i>>
    <3>1. PICK i \in 0..(k - 1) : b \in Asked("info", i)
      BY <2>4, <1>1
    <3>2. CASE i > 1
      BY <3>1, <3>2, <2>2
    <3>3. CASE i = 0 \/ i = 1
      BY <3>1, <3>3, <2>3
    <3> QED
      BY <3>2, <3>3
  <2>5. ASSUME k > 0, b = Array("name") PROVE b \in Held("info", k)
    BY <2>5, <2>3, <1>1
  <2>6. ASSUME k > 1, b = Array("couplingMap") PROVE b \in Held("info", k)
    BY <2>6, <2>3, <1>1
  <2>7. ASSUME NEW i \in 0..(k - 3), b = <<"nativeGateset", i>>
        PROVE  b \in Held("info", k)
    BY <2>7, <2>1, <1>1
  <2> QED
    BY <2>4, <2>5, <2>6, <2>7
<1>4. b \in Held("gate", k) <=>
        \/ k > 0 /\ b = Array("name")
        \/ k > 1 /\ b = Array("supportedQubits")
  BY <1>1 DEF Asked
<1>5. b \in Held("resources", k) <=> \E i \in 0..(k - 1) : b = <<"result", i>>
  BY <1>1 DEF Asked
<1> QED
  BY <1>2, <1>3, <1>4, <1>5

\* What is asked for in one step: one block, except that counts begins with two.
LEMMA AskedOne ==
  ASSUME NEW f \in Fn, NEW k \in Nat, f # "counts"
  PROVE  \E b : Asked(f, k) = {b}
BY DEF Asked, Fn

\* The blocks of a call fit its size.
LEMMA HeldTypes ==
  ASSUME NEW f \in Fn, NEW n \in 0..MaxItems, NEW k \in 0..Steps(f, n)
  PROVE  Held(f, k) \subseteq Block
<1>1. k \in Nat /\ k <= Steps(f, n)
  BY StepsType
<1>2. \A p, i : (\E g \in Fn : p \in Outputs(g)) /\ i \in 0..MaxItems => <<p, i>> \in Block
  BY DEF Block
<1>3. ASSUME NEW b, b \in Held("counts", k), f = "counts" PROVE b \in Block
  <2>1. k <= n + 1
    BY <1>1, <1>3 DEF Steps
  <2>2. "counts" \in Outputs("counts") /\ "bitstreams" \in Outputs("counts")
    BY DEF Outputs
  <2> QED
    BY <1>1, <1>2, <1>3, <2>1, <2>2, HeldMembers, MaxItemsAssumption DEF Array, Fn
<1>4. ASSUME NEW b, b \in Held("info", k), f = "info" PROVE b \in Block
  <2>1. k <= n + 3
    BY <1>1, <1>4 DEF Steps
  <2>2. {"name", "couplingMap", "nativeGateset"} = Outputs("info")
    BY DEF Outputs
  <2> QED
    BY <1>1, <1>2, <1>4, <2>1, <2>2, HeldMembers, MaxItemsAssumption DEF Array, Fn
<1>5. ASSUME NEW b, b \in Held("gate", k), f = "gate" PROVE b \in Block
  <2>1. {"name", "supportedQubits"} = Outputs("gate")
    BY DEF Outputs
  <2> QED
    BY <1>1, <1>2, <1>5, <2>1, HeldMembers, MaxItemsAssumption DEF Array, Fn
<1>6. ASSUME NEW b, b \in Held("resources", k), f = "resources" PROVE b \in Block
  <2>1. k <= n + 1
    BY <1>1, <1>6 DEF Steps
  <2>2. "result" \in Outputs("resources")
    BY DEF Outputs
  <2> QED
    BY <1>1, <1>2, <1>6, <2>1, <2>2, HeldMembers, MaxItemsAssumption DEF Fn
<1> QED
  BY <1>3, <1>4, <1>5, <1>6 DEF Fn

\* The elements behind a pointer.
LEMMA ElementMembers ==
  ASSUME NEW p, NEW n, NEW b
  PROVE  b \in {p} \X (1..n) <=> \E i \in 1..n : b = <<p, i>>
OBVIOUS

\* A function that ran to its end holds what it promises.
LEMMA HeldAtEnd ==
  ASSUME NEW f \in Fn, NEW n \in 0..MaxItems, Steps(f, n) # 0
  PROVE  Held(f, Steps(f, n)) = Promised(f, n)
<1>1. n \in Nat /\ Steps(f, n) \in Nat
  BY StepsType, MaxItemsAssumption
<1>2. CASE f = "counts"
  <2>1. Steps(f, n) = n + 1 /\ n > 0
    BY <1>1, <1>2, StepsType DEF Steps
  <2>2. Promised(f, n) = {Array("counts"), Array("bitstreams")} \cup ({"bitstreams"} \X (1..n))
    BY <1>2 DEF Promised, Outputs
  <2>3. ASSUME NEW b PROVE b \in Held(f, Steps(f, n)) <=> b \in Promised(f, n)
    BY <1>1, <1>2, <2>1, <2>2, HeldMembers, ElementMembers DEF Array
  <2> QED
    BY <2>3
<1>3. CASE f = "info"
  <2>1. Steps(f, n) = n + 3
    BY <1>3 DEF Steps
  <2>2. Promised(f, n) = {Array("name"), Array("couplingMap"), Array("nativeGateset")}
                           \cup ({"nativeGateset"} \X (1..n))
    BY <1>3 DEF Promised, Outputs
  <2>3. ASSUME NEW b PROVE b \in Held(f, Steps(f, n)) <=> b \in Promised(f, n)
    BY <1>1, <1>3, <2>1, <2>2, HeldMembers, ElementMembers DEF Array
  <2> QED
    BY <2>3
<1>4. CASE f = "gate"
  <2>1. Steps(f, n) = 2
    BY <1>4 DEF Steps
  <2>2. Promised(f, n) = {Array("name"), Array("supportedQubits")} \cup ({} \X (1..n))
    BY <1>4 DEF Promised, Outputs
  <2>3. ASSUME NEW b PROVE b \in Held(f, Steps(f, n)) <=> b \in Promised(f, n)
    BY <1>1, <1>4, <2>1, <2>2, HeldMembers, ElementMembers DEF Array
  <2> QED
    BY <2>3
<1>5. CASE f = "resources"
  <2>1. Steps(f, n) = n + 1
    BY <1>5 DEF Steps
  <2>2. Promised(f, n) = {Array("result")} \cup ({"result"} \X (1..n))
    BY <1>5 DEF Promised, Outputs
  <2>3. ASSUME NEW b PROVE b \in Held(f, Steps(f, n)) <=> b \in Promised(f, n)
    BY <1>1, <1>5, <2>1, <2>2, HeldMembers, ElementMembers DEF Array
  <2> QED
    BY <2>3
<1> QED
  BY <1>2, <1>3, <1>4, <1>5 DEF Fn

\* An error branch frees exactly what the function holds: nothing of it is left,
\* and nothing else is freed.
LEMMA FreedIsHeld ==
  ASSUME NEW f \in Fn, NEW n \in 0..MaxItems, NEW k \in Nat, k < Steps(f, n),
         ~ByNew(f, k), NEW got \in SUBSET Asked(f, k), got # Asked(f, k)
  PROVE  /\ (Held(f, k) \cup got) \ GivenBack(f, k) = {}
         /\ GivenBack(f, k) \subseteq Held(f, k) \cup Asked(f, k)
<1>1. CASE f = "counts" /\ k = 0
  <2>1. GivenBack(f, k) = {Array("counts"), Array("bitstreams")} \cup {<<"bitstreams", i>> : i \in 1..(0 - 1)}
    BY <1>1 DEF GivenBack
  <2>2. Asked(f, k) = {Array("counts"), Array("bitstreams")}
    BY <1>1 DEF Asked
  <2>3. 1..(0 - 1) = {}
    OBVIOUS
  <2> QED
    BY <1>1, <2>1, <2>2, <2>3, HeldZero
<1>2. CASE f = "counts" /\ k > 0
  <2>1. GivenBack(f, k) = {Array("counts"), Array("bitstreams")} \cup {<<"bitstreams", i>> : i \in 1..(k - 1)}
    BY <1>2 DEF GivenBack
  <2>2. Asked(f, k) = {<<"bitstreams", k>>}
    BY <1>2 DEF Asked
  <2>3. ASSUME NEW b PROVE b \in GivenBack(f, k) <=> b \in Held(f, k)
    BY <1>2, <2>1, HeldMembers
  <2> QED
    BY <2>2, <2>3
<1>3. CASE f \in {"info", "gate", "resources"}
  <2>1. got = {}
    BY <1>3, AskedOne
  <2>2. ASSUME NEW b PROVE b \in GivenBack(f, k) <=> b \in Held(f, k)
    <3>1. CASE f = "info"
      <4>1. k \in 0..2
        BY <3>1 DEF ByNew
      <4>2. GivenBack(f, k) = {Array(p) : p \in IF k = 0 THEN {} ELSE
                                 IF k = 1 THEN {"name"} ELSE {"name", "couplingMap"}}
        BY <3>1 DEF GivenBack
      <4> QED
        BY <3>1, <4>1, <4>2, HeldMembers
    <3>2. CASE f = "gate"
      <4>1. k \in 0..1
        BY <3>2 DEF Steps
      <4>2. GivenBack(f, k) = IF k = 0 THEN {} ELSE {Array("name")}
        BY <3>2 DEF GivenBack
      <4> QED
        BY <3>2, <4>1, <4>2, HeldMembers
    <3>3. CASE f = "resources"
      <4>1. k = 0
        BY <3>3 DEF ByNew
      <4>2. GivenBack(f, k) = {}
        BY <3>3 DEF GivenBack
      <4> QED
        BY <3>3, <4>1, <4>2, HeldZero
    <3> QED
      BY <1>3, <3>1, <3>2, <3>3
  <2> QED
    BY <2>1, <2>2
<1> QED
  BY <1>1, <1>2, <1>3 DEF Fn

\* The resource functions reset every pointer whose array they free.
LEMMA FreedIsReset ==
  ASSUME NEW f \in Fn, f # "counts", NEW n \in 0..MaxItems, NEW k \in Nat,
         k < Steps(f, n), ~ByNew(f, k), NEW p \in Outputs(f), Array(p) \in Held(f, k)
  PROVE  p \in Reset(f, k)
<1>1. CASE f = "info"
  <2>1. k \in 0..2
    BY <1>1 DEF ByNew
  <2>2. Reset(f, k) = IF k = 0 THEN {} ELSE IF k = 1 THEN {"name"} ELSE {"name", "couplingMap"}
    BY <1>1 DEF Reset
  <2> QED
    BY <1>1, <2>1, <2>2, HeldMembers DEF Array
<1>2. CASE f = "gate"
  <2>1. k \in 0..1
    BY <1>2 DEF Steps
  <2>2. Reset(f, k) = IF k = 0 THEN {} ELSE {"name"}
    BY <1>2 DEF Reset
  <2> QED
    BY <1>2, <2>1, <2>2, HeldMembers DEF Array
<1>3. CASE f = "resources"
  <2>1. k = 0
    BY <1>3 DEF ByNew
  <2> QED
    BY <1>3, <2>1, HeldZero
<1> QED
  BY <1>1, <1>2, <1>3 DEF Fn

----------------------------------------------------------------------------
(* The inductive invariant *)

\* What an output is inside a call: it points to its array once there is one, but
\* the array of resources is not handed out before the return.
Pointer(p) == IF Array(p) \in live /\ fn # "resources" THEN "block" ELSE "unset"

\* Inside a call, and when operator new ends it, the function holds what its
\* steps so far have asked for, and its outputs point to the arrays among it.
CleanInv ==
  /\ TypeOK
  /\ ~faulty
  /\ ret \in {"running", "throw"} =>
       /\ step < Steps(fn, size)
       /\ live = Held(fn, step)
       /\ \A p \in Outputs(fn) : out[p] = Pointer(p)
  /\ ret = "throw" => ByNew(fn, step)
  /\ ret = "error" =>
       /\ live = {}
       /\ fn # "counts" => \A p \in Outputs(fn) : out[p] # "block"
  /\ SuccessHandsOutAll

\* Every call of the four functions keeps it, whatever fails.
THEOREM CleanInvariant == Spec => []CleanInv
<1>1. ASSUME Init PROVE CleanInv
  <2>1. TypeOK
    <3>1. out \in [Outputs(fn) -> {"unset", "null", "block"}]
      BY <1>1 DEF Init
    <3>2. size \in 0..MaxItems /\ step \in 0..(MaxItems + 3)
      BY <1>1, MaxItemsAssumption DEF Init
    <3> QED
      BY <1>1, <3>1, <3>2, Zenon DEF Init, TypeOK, Fn
  <2>2. SuccessHandsOutAll
    BY <1>1 DEF Init, SuccessHandsOutAll, MayHold
  <2> QED
    BY <1>1, <2>1, <2>2 DEF Init, CleanInv
<1>2. ASSUME CleanInv, [Next]_vars PROVE CleanInv'
  <2> USE MaxItemsAssumption
  <2>0. /\ TypeOK /\ ~faulty /\ step \in Nat /\ fn \in Fn /\ size \in 0..MaxItems
        /\ DOMAIN out = Outputs(fn)
    BY <1>2 DEF CleanInv, TypeOK
  <2>1. ASSUME NEW f \in Fn, NEW n \in 0..MaxItems, BeginCall(f, n) PROVE CleanInv'
    <3>1. /\ fn' = f /\ size' = n /\ step' = 0 /\ live' = {} /\ faulty' = faulty
          /\ ret' = IF Steps(f, n) = 0 THEN "ok" ELSE "running"
          /\ out' = [p \in Outputs(f) |-> IF Steps(f, n) = 0 THEN "null" ELSE "unset"]
      BY <2>1 DEF BeginCall, Call
    <3>2. TypeOK'
      BY <2>0, <3>1 DEF TypeOK
    <3>3. CASE Steps(f, n) = 0
      <4>1. f = "counts" /\ n = 0
        BY <3>3, StepsType
      <4>2. SuccessHandsOutAll'
        BY <3>1, <3>3, <4>1 DEF SuccessHandsOutAll, MayHold
      <4> QED
        BY <2>0, <3>1, <3>2, <3>3, <4>2 DEF CleanInv
    <3>4. CASE Steps(f, n) # 0
      <4>1. Held(f, 0) = {} /\ 0 < Steps(f, n)
        BY <3>4, HeldZero, StepsType
      <4> QED
        BY <2>0, <3>1, <3>2, <3>4, <4>1 DEF CleanInv, Pointer, SuccessHandsOutAll
    <3> QED
      BY <3>3, <3>4
  <2>2. CASE AllocationSucceeds
    <3> DEFINE got == Asked(fn, step)
    <3>1. /\ fn' = fn /\ size' = size /\ step' = step + 1 /\ live' = live \cup got
          /\ faulty' = faulty /\ out' = Stored(got)
          /\ ret' = IF step + 1 = Steps(fn, size) THEN "ok" ELSE "running"
          /\ ret = "running"
      BY <2>2 DEF AllocationSucceeds
    <3>2. /\ step < Steps(fn, size) /\ live = Held(fn, step)
          /\ \A p \in Outputs(fn) : out[p] = Pointer(p)
      BY <1>2, <3>1 DEF CleanInv
    <3>3. Steps(fn, size) \in 0..(MaxItems + 3)
      BY <2>0, StepsType
    <3>4. live' = Held(fn, step + 1)
      BY <2>0, <3>1, <3>2, HeldNext
    <3>5. live' \subseteq Block
      BY <2>0, <3>2, <3>3, <3>4, HeldTypes
    <3>6. \A p \in Outputs(fn) :
            out'[p] = IF Array(p) \in live' /\ (fn = "resources" => ret' = "ok")
                      THEN "block" ELSE "unset"
      <4>1. CASE fn # "resources"
        BY <2>0, <3>1, <3>2, <4>1 DEF Stored, Shown, Pointer
      <4>2. CASE fn = "resources"
        BY <2>0, <3>1, <3>2, <4>2 DEF Stored, Shown, Pointer
      <4> QED
        BY <4>1, <4>2
    <3>7. out' \in [Outputs(fn) -> {"unset", "null", "block"}]
      BY <2>0, <3>1, <3>6 DEF Stored
    <3>8. TypeOK'
      BY <2>0, <3>1, <3>2, <3>3, <3>5, <3>7 DEF TypeOK
    <3>9. SuccessHandsOutAll'
      <4> SUFFICES ASSUME step + 1 = Steps(fn, size) PROVE SuccessHandsOutAll'
        BY <3>1 DEF SuccessHandsOutAll
      <4>1. live' = Promised(fn, size) /\ ~(fn = "counts" /\ size = 0)
        BY <2>0, <3>3, <3>4, HeldAtEnd, StepsType
      <4> QED
        BY <3>1, <3>6, <3>7, <4>1 DEF SuccessHandsOutAll, MayHold
    <3> QED
      BY <2>0, <3>1, <3>2, <3>3, <3>4, <3>6, <3>8, <3>9 DEF CleanInv, Pointer
  <2>5. CASE EmptyArrayIsNull
    <3>1. /\ fn' = fn /\ size' = size /\ step' = step + 1 /\ live' = live /\ faulty' = faulty
          /\ ret = "running" /\ ret' = "ok" /\ fn = "resources" /\ size = 0
          /\ out' = [p \in DOMAIN out |-> "null"]
      BY <2>5 DEF EmptyArrayIsNull
    <3>2. step < 1 /\ live = Held(fn, step)
      BY <1>2, <3>1 DEF CleanInv, Steps
    <3>3. step = 0 /\ live = {}
      BY <2>0, <3>2, HeldZero
    <3>4. TypeOK'
      BY <2>0, <3>1, <3>3 DEF TypeOK
    <3>5. SuccessHandsOutAll'
      BY <2>0, <3>1, <3>3 DEF SuccessHandsOutAll, MayHold
    <3> QED
      BY <2>0, <3>1, <3>4, <3>5 DEF CleanInv
  <2>3. ASSUME NEW got \in SUBSET Asked(fn, step), AllocationFails(got) PROVE CleanInv'
    <3>1. /\ fn' = fn /\ size' = size /\ step' = step /\ ret = "running"
          /\ got # Asked(fn, step)
      BY <2>3 DEF AllocationFails
    <3>2. /\ step < Steps(fn, size) /\ live = Held(fn, step)
          /\ \A p \in Outputs(fn) : out[p] = Pointer(p)
      BY <1>2, <3>1 DEF CleanInv
    <3>3. CASE ByNew(fn, step)
      <4>1. ret' = "throw" /\ live' = live /\ out' = out /\ faulty' = faulty
        BY <2>3, <3>3 DEF AllocationFails
      <4> QED
        BY <2>0, <3>1, <3>2, <3>3, <4>1 DEF CleanInv, Pointer, TypeOK, SuccessHandsOutAll
    <3>4. CASE ~ByNew(fn, step)
      <4> DEFINE freed == GivenBack(fn, step)
      <4>1. /\ ret' = "error" /\ live' = (live \cup got) \ freed
            /\ faulty' = (faulty \/ ~(freed \subseteq live \cup Asked(fn, step)))
            /\ out' = [p \in DOMAIN out |->
                          IF p \in Reset(fn, step) THEN "null" ELSE Stored(got)[p]]
        BY <2>3, <3>4 DEF AllocationFails
      <4>2. live' = {} /\ freed \subseteq live \cup Asked(fn, step)
        BY <2>0, <3>1, <3>2, <3>4, <4>1, FreedIsHeld
      <4>3. faulty' = FALSE
        BY <2>0, <4>1, <4>2
      <4>4. out' \in [Outputs(fn) -> {"unset", "null", "block"}]
        BY <2>0, <4>1 DEF Stored, TypeOK
      <4>5. ASSUME fn # "counts", NEW p \in Outputs(fn) PROVE out'[p] # "block"
        <5>1. got = {}
          BY <2>0, <3>1, <4>5, AskedOne
        <5>2. CASE Array(p) \in live
          BY <2>0, <3>2, <3>4, <4>1, <4>5, <5>2, FreedIsReset
        <5>3. CASE Array(p) \notin live
          <6>1. Array(p) \notin Shown(got)
            BY <5>1, <5>3 DEF Shown
          <6>2. out[p] = "unset"
            BY <3>2, <5>3 DEF Pointer
          <6> QED
            BY <2>0, <4>1, <6>1, <6>2 DEF Stored
        <5> QED
          BY <5>2, <5>3
      <4>6. TypeOK'
        BY <2>0, <3>1, <4>1, <4>2, <4>3, <4>4 DEF TypeOK
      <4> QED
        BY <3>1, <4>1, <4>2, <4>3, <4>5, <4>6 DEF CleanInv, SuccessHandsOutAll
    <3> QED
      BY <3>3, <3>4
  <2>4. CASE UNCHANGED vars
    BY <1>2, <2>4 DEF vars, CleanInv, Pointer, TypeOK, SuccessHandsOutAll
  <2> QED
    BY <1>2, <2>1, <2>2, <2>3, <2>4, <2>5 DEF Next
<1> QED
  BY <1>1, <1>2, PTL DEF Spec

\* The four functions: outputs, blocks and counters keep their types.
THEOREM MemoryTyped == Spec => []TypeOK
<1>1. CleanInv => TypeOK
  BY DEF CleanInv
<1> QED
  BY <1>1, CleanInvariant, PTL

\* The error branches: all that was allocated is freed, once, at any size.
THEOREM ErrorClean == Spec => []ErrorFreesAll
<1>1. CleanInv => ErrorFreesAll
  BY DEF CleanInv, ErrorFreesAll
<1> QED
  BY <1>1, CleanInvariant, PTL

\* What a throwing operator new leaves behind in MQSSClientResourceGetInfo hangs
\* on pointers the caller has.
LEMMA InfoReachable ==
  ASSUME CleanInv, ret = "throw", fn = "info", NEW b \in live
  PROVE  out[b[1]] = "block"
<1>1. /\ step \in Nat /\ step > 2 /\ live = Held("info", step)
      /\ \A p \in Outputs("info") : out[p] = Pointer(p)
  BY MaxItemsAssumption DEF CleanInv, TypeOK, ByNew
<1>2. PICK p \in {"name", "couplingMap", "nativeGateset"}, i \in Int : b = <<p, i>>
  BY <1>1, HeldMembers DEF Array
<1>3. Array(p) \in live
  <2>1. 0 \in 0..(step - 3)
    BY <1>1
  <2> QED
    BY <1>1, <1>2, <2>1, HeldMembers DEF Array
<1>4. p \in Outputs("info") /\ b[1] = p
  BY <1>2 DEF Outputs
<1> QED
  BY <1>1, <1>3, <1>4 DEF Pointer

\* The error branches and what operator new interrupts: after a failure at any
\* allocation, of results of any size, the caller can reach what is allocated and
\* nothing else, but for the two functions that do not see to it.
THEOREM FailureClean == Spec => []CleanAfterFailure
<1>1. CleanInv => CleanAfterFailure
  <2> SUFFICES ASSUME CleanInv, ret \in {"error", "throw"} PROVE CleanAfterFailure
    BY DEF CleanAfterFailure
  <2>1. DOMAIN out = Outputs(fn) /\ fn \in Fn
    BY DEF CleanInv, TypeOK
  <2>2. CASE ret = "error"
    <3>1. live = {} /\ (fn # "counts" => \A p \in Outputs(fn) : out[p] # "block")
      BY <2>2 DEF CleanInv
    <3> QED
      BY <2>1, <2>2, <3>1 DEF CleanAfterFailure, Dangling, Leaked
  <2>3. CASE ret = "throw"
    <3>1. /\ \A p \in Outputs(fn) : out[p] = Pointer(p)
          /\ fn \in {"info", "resources"}
      BY <2>3 DEF CleanInv, ByNew
    <3>2. Dangling = {}
      BY <2>1, <3>1 DEF Dangling, Pointer
    <3>3. CASE fn = "info"
      <4>1. Leaked = {}
        BY <2>3, <3>3, InfoReachable DEF Leaked
      <4> QED
        BY <2>3, <3>2, <3>3, <4>1 DEF CleanAfterFailure
    <3>4. CASE fn = "resources"
      <4>1. \A b \in live : b[1] = "result"
        <5>1. live = Held("resources", step) /\ step \in Nat
          BY <2>3, <3>4 DEF CleanInv, TypeOK
        <5> QED
          BY <5>1, HeldMembers
      <4>2. out["result"] = "unset"
        BY <3>1, <3>4 DEF Outputs, Pointer
      <4>3. Leaked = live
        BY <4>1, <4>2 DEF Leaked
      <4> QED
        BY <2>3, <3>2, <3>4, <4>3 DEF CleanAfterFailure
    <3> QED
      BY <3>1, <3>3, <3>4
  <2> QED
    BY <2>2, <2>3
<1> QED
  BY <1>1, CleanInvariant, PTL

\* The success returns: the blocks handed out are those the size promises.
THEOREM SuccessComplete == Spec => []SuccessHandsOutAll
<1>1. CleanInv => SuccessHandsOutAll
  BY DEF CleanInv
<1> QED
  BY <1>1, CleanInvariant, PTL
=============================================================================

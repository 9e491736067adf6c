----------------------- MODULE RestConstructionProofs -----------------------
(***************************************************************************)
(* What holds of the construction of a REST client for URLs with any       *)
(* number of slashes.                                                      *)
(***************************************************************************)
EXTENDS RestConstruction, TLAPS

\* The parts of a URL have their types.
LEMMA UrlTypes ==
  ASSUME NEW u \in Url
  PROVE  /\ u.host \in Host /\ u.path \in Path
         /\ u.flaw \in Flaw \cup {"none"}
         /\ u.scheme \in {"http", "https", "ftp"}
         /\ u.port \in {"none", "p4000", "p8080"}
         /\ u.path.segment \in {"none", "v1", "other"}
         /\ u.path.slashes \in Nat
<1>1. u.host \in Host /\ u.path \in Path
  BY DEF Url
<1>2. u.path.segment \in {"none", "v1", "other"} /\ u.path.slashes \in 0..MaxSlashes
  BY <1>1 DEF Path
<1>3. u.path.slashes \in Nat
  BY <1>2, MaxSlashesAssumption
<1> QED
  BY <1>1, <1>2, <1>3 DEF Url

\* Appending the missing slash gives a path that has one, and is done once.
LEMMA WithSlashFacts ==
  ASSUME NEW p \in Path
  PROVE  /\ WithSlash(p) \in Path
         /\ WithSlash(p).segment = p.segment
         /\ WithSlash(p).slashes = IF p.slashes = 0 THEN 1 ELSE p.slashes
         /\ WithSlash(WithSlash(p)) = WithSlash(p)
<1>0. p.slashes \in 0..MaxSlashes
  BY DEF Path
<1>1. 1 \in 0..MaxSlashes
  BY MaxSlashesAssumption
<1>2. CASE p.slashes = 0
  <2> DEFINE q == [p EXCEPT !.slashes = 1]
  <2>1. q \in Path /\ q.segment = p.segment /\ q.slashes = 1
    BY <1>1 DEF Path
  <2>2. WithSlash(p) = q /\ WithSlash(q) = q
    BY <1>2, <2>1 DEF WithSlash
  <2> QED
    BY <1>2, <2>1, <2>2
<1>3. CASE p.slashes # 0
  BY <1>3 DEF WithSlash
<1> QED
  BY <1>2, <1>3

\* Whether normalizeUrl rewrites a URL to a portal's endpoint, and to which.
Portal(u) == u.scheme = "https" /\ PortalPath(u.path) /\ Subdomain(u)

PortalForm(u) ==
  [u EXCEPT !.letters = "small", !.port = "p4000",
            !.path = [segment |-> "v1", slashes |-> 1]]

SlashedForm(u) == [u EXCEPT !.path = WithSlash(@)]

\* The two forms normalizeUrl returns.
LEMMA NormalizedCases ==
  ASSUME NEW u
  PROVE  Normalized(u) = IF Portal(u) THEN PortalForm(u) ELSE SlashedForm(u)
BY DEF Normalized, Portal, PortalForm, SlashedForm

\* The parts of a portal's normal form.
LEMMA PortalFormFacts ==
  ASSUME NEW u \in Url
  PROVE  LET n == PortalForm(u)
         IN /\ n \in Url
            /\ n.flaw = u.flaw /\ n.scheme = u.scheme /\ n.host = u.host
            /\ n.letters = "small" /\ n.port = "p4000"
            /\ n.path = [segment |-> "v1", slashes |-> 1]
            /\ PortalForm(n) = n
<1> DEFINE p == [segment |-> "v1", slashes |-> 1]
           n == PortalForm(u)
<1>1. p \in Path
  BY MaxSlashesAssumption DEF Path
<1> HIDE DEF p
<1>2. n = [u EXCEPT !.letters = "small", !.port = "p4000", !.path = p]
  BY DEF PortalForm, p
<1>3. /\ n \in Url
      /\ n.flaw = u.flaw /\ n.scheme = u.scheme /\ n.host = u.host
      /\ n.letters = "small" /\ n.port = "p4000" /\ n.path = p
  BY <1>1, <1>2 DEF Url
<1>4. PortalForm(n) = [n EXCEPT !.letters = "small", !.port = "p4000", !.path = p]
  BY DEF PortalForm, p
<1> HIDE DEF n
<1>5. n = [flaw |-> n.flaw, scheme |-> n.scheme, letters |-> "small",
           host |-> n.host, port |-> "p4000", path |-> p]
  BY <1>3 DEF Url
<1>6. PortalForm(n) = n
  BY <1>4, <1>5
<1> QED
  BY <1>3, <1>6 DEF n, p

\* The parts of any other normal form.
LEMMA SlashedFormFacts ==
  ASSUME NEW u \in Url
  PROVE  LET n == SlashedForm(u)
         IN /\ n \in Url
            /\ n.flaw = u.flaw /\ n.scheme = u.scheme /\ n.host = u.host
            /\ n.port = u.port
            /\ n.path = WithSlash(u.path)
            /\ SlashedForm(n) = n
<1> DEFINE p == WithSlash(u.path)
           n == SlashedForm(u)
<1>1. p \in Path /\ WithSlash(p) = p
  BY UrlTypes, WithSlashFacts
<1> HIDE DEF p
<1>2. n = [u EXCEPT !.path = p]
  BY DEF SlashedForm, p
<1>3. /\ n \in Url
      /\ n.flaw = u.flaw /\ n.scheme = u.scheme /\ n.host = u.host
      /\ n.port = u.port /\ n.path = p
  BY <1>1, <1>2 DEF Url
<1>4. SlashedForm(n) = [n EXCEPT !.path = WithSlash(n.path)]
  BY DEF SlashedForm
<1> HIDE DEF n
<1>5. SlashedForm(n) = n
  BY <1>1, <1>3, <1>4 DEF Url
<1> QED
  BY <1>3, <1>5 DEF n, p

\* A valid URL's normal form is a valid URL.
LEMMA NormalizedTypes ==
  ASSUME NEW u \in Url
  PROVE  Normalized(u) \in Url /\ (Invalid(Normalized(u)) <=> Invalid(u))
BY NormalizedCases, PortalFormFacts, SlashedFormFacts DEF Invalid

\* normalizeUrl applied to its own result changes nothing.
LEMMA NormalizedTwice ==
  ASSUME NEW u \in Url
  PROVE  Normalized(Normalized(u)) = Normalized(u)
<1>1. CASE Portal(u)
  <2> DEFINE n == PortalForm(u)
  <2>0. /\ n.scheme = u.scheme /\ n.host = u.host /\ n.port = "p4000"
        /\ n.path.segment = "v1" /\ n.path.slashes = 1
    BY PortalFormFacts
  <2> HIDE DEF n
  <2>1. Portal(n)
    BY <1>1, <2>0 DEF Portal, PortalPath, Subdomain
  <2> USE DEF n
  <2> QED
    BY <1>1, <2>1, PortalFormFacts, NormalizedCases
<1>2. CASE ~Portal(u)
  <2> DEFINE n == SlashedForm(u)
  <2>1. /\ n.scheme = u.scheme /\ n.host = u.host /\ n.port = u.port
        /\ n.path.segment = u.path.segment
        /\ n.path.slashes = IF u.path.slashes = 0 THEN 1 ELSE u.path.slashes
    <3>1. u.path \in Path /\ u.path.slashes \in Nat
      BY UrlTypes
    <3>2. n.path = WithSlash(u.path)
      BY SlashedFormFacts
    <3>3. /\ n.path.segment = u.path.segment
          /\ n.path.slashes = IF u.path.slashes = 0 THEN 1 ELSE u.path.slashes
      BY <3>1, <3>2, WithSlashFacts
    <3> QED
      BY <3>1, <3>3, SlashedFormFacts
  <2> HIDE DEF n
  <2>2. ~Portal(n)
    BY <1>2, <2>1, UrlTypes DEF Portal, PortalPath, Subdomain
  <2> QED
    BY <1>2, <2>2, SlashedFormFacts, NormalizedCases DEF n
<1> QED
  BY <1>1, <1>2

\* What normalizeUrl may change of a URL, independently of how it decides.
Kept(u, m) ==
  LET h == u.host
      portal == /\ u.scheme = "https"
                /\ h.domain # "elsewhere" /\ h.dot = "dot" /\ h.label = "some"
                /\ u.port # "p8080"
                /\ u.path.segment # "other" /\ u.path.slashes < 2
  IN /\ m.scheme = u.scheme
     /\ m.host = h
     /\ m.path.slashes >= 1
     /\ portal => m.port = "p4000" /\ m.path.segment = "v1" /\ m.path.slashes = 1
     /\ ~portal => m.port = u.port /\ m.path.segment = u.path.segment

\* A normal form keeps the endpoint, but for the portals' port and path.
LEMMA NormalizedKeeps ==
  ASSUME NEW u \in Url
  PROVE  Kept(u, Normalized(u))
<1>1. /\ u.host.label \in {"none", "some"} /\ u.host.dot \in {"none", "dot"}
      /\ u.host.domain \in {"lrz", "pathway", "elsewhere"}
  BY UrlTypes DEF Host
<1>2. CASE Portal(u)
  <2> DEFINE n == PortalForm(u)
  <2>1. /\ n.scheme = u.scheme /\ n.host = u.host /\ n.port = "p4000"
        /\ n.path.segment = "v1" /\ n.path.slashes = 1
    BY PortalFormFacts
  <2> HIDE DEF n
  <2>2. /\ u.scheme = "https" /\ u.host.domain # "elsewhere" /\ u.host.dot = "dot"
        /\ u.host.label = "some" /\ u.port # "p8080"
        /\ u.path.segment # "other" /\ u.path.slashes < 2
    BY <1>1, <1>2, UrlTypes DEF Portal, PortalPath, Subdomain
  <2>3. Kept(u, n)
    BY <2>1, <2>2 DEF Kept
  <2> QED
    BY <1>2, <2>3, NormalizedCases DEF n
<1>3. CASE ~Portal(u)
  <2> DEFINE n == SlashedForm(u)
  <2>1. /\ n.scheme = u.scheme /\ n.host = u.host /\ n.port = u.port
        /\ n.path.segment = u.path.segment /\ n.path.slashes >= 1
    <3>1. u.path \in Path /\ u.path.slashes \in Nat
      BY UrlTypes
    <3>2. n.path = WithSlash(u.path)
      BY SlashedFormFacts
    <3>3. /\ n.path.segment = u.path.segment
          /\ n.path.slashes = IF u.path.slashes = 0 THEN 1 ELSE u.path.slashes
      BY <3>1, <3>2, WithSlashFacts
    <3> QED
      BY <3>1, <3>3, SlashedFormFacts
  <2> HIDE DEF n
  <2>2. ~(/\ u.scheme = "https" /\ u.host.domain # "elsewhere" /\ u.host.dot = "dot"
          /\ u.host.label = "some" /\ u.port # "p8080"
          /\ u.path.segment # "other" /\ u.path.slashes < 2)
    BY <1>1, <1>3, UrlTypes DEF Portal, PortalPath, Subdomain
  <2>3. Kept(u, n)
    BY <2>1, <2>2 DEF Kept
  <2> QED
    BY <1>3, <2>3, NormalizedCases DEF n
<1> QED
  BY <1>2, <1>3

\* As long as a construction has not failed its URL is the caller's, in normal
\* form once the first step is done.
UrlInv ==
  /\ TypeOK
  /\ pc = "normalize" => out = "pending"
  /\ Normal => ~Invalid(url) /\ mUrl = Normalized(url)

\* The list at each step of a construction: as many nodes as headers were
\* appended, from the first of which pHeaders owns them all, and none before
\* the first append, after a failure and after the end.
HeaderInv ==
  /\ pc \in {"normalize", "Authorization"} => slist = {} /\ pHeaders = "nullptr"
  /\ pc = "Content-Type" => slist = {"Authorization"} /\ pHeaders = "Authorization"
  /\ pc = "probe" \/ out = "client" => slist = Header /\ pHeaders = "Authorization"
  /\ pc = "done" /\ out # "client" => slist = {} /\ pHeaders = "nullptr"
  /\ pc # "done" => out = "pending"
  /\ pc = "done" => out # "pending"

\* What a failing step gives the caller is no client.
LEMMA CaughtFacts ==
  ASSUME NEW e \in Error
  PROVE  Caught(e) \in Error \cup {"NULL"}
BY DEF Caught

\* The invariant from which the properties of construction follow.
THEOREM ConstructionInvariant == Spec => [](UrlInv /\ HeaderInv)
<1> USE MaxSlashesAssumption DEF Error, Header
<1>1. Init => UrlInv /\ HeaderInv
  BY DEF Init, UrlInv, HeaderInv, TypeOK, Normal
<1>2. ASSUME UrlInv, HeaderInv, [Next]_vars PROVE UrlInv' /\ HeaderInv'
  <2> USE <1>2 DEF UrlInv, HeaderInv, TypeOK, Normal
  <2>1. CASE NormalizeUrl
    <3>1. CASE ~Invalid(url) /\ pc' = "Authorization"
      BY <2>1, <3>1, NormalizedTypes DEF NormalizeUrl, Throw
    <3>2. CASE pc' = "done"
      BY <2>1, <3>2, CaughtFacts DEF NormalizeUrl, Throw
    <3> QED
      BY <2>1, <3>1, <3>2 DEF NormalizeUrl, Throw
  <2>2. ASSUME NEW h \in Header, NEW next \in {"Content-Type", "probe"},
               AppendHeader(h, next),
               h = "Authorization" <=> next = "Content-Type"
        PROVE  UrlInv' /\ HeaderInv'
    <3>1. CASE Throw("bad_alloc") /\ DestroyHeaders
      BY <2>2, <3>1, CaughtFacts DEF AppendHeader, Throw, DestroyHeaders, FreedBy
    <3>2. CASE ~(Throw("bad_alloc") /\ DestroyHeaders)
      <4>1. /\ pc = h /\ pc' = next
            /\ UNCHANGED <<language, url, mUrl, out>>
            /\ slist' = slist \cup {h}
            /\ pHeaders' = IF pHeaders = "nullptr" THEN h ELSE pHeaders
        BY <2>2, <3>2 DEF AppendHeader, Release, FreedBy
      <4> QED
        BY <2>2, <4>1
    <3> QED
      BY <3>1, <3>2
  <2>3. CASE AppendHeaders
    BY <2>2, <2>3 DEF AppendHeaders
  <2>4. CASE Probe
    <3>1. CASE Throw("runtime_error") /\ DestroyHeaders
      BY <2>4, <3>1, CaughtFacts DEF Probe, Throw, DestroyHeaders, FreedBy
    <3>2. CASE ~(Throw("runtime_error") /\ DestroyHeaders)
      BY <2>4, <3>2 DEF Probe
    <3> QED
      BY <3>1, <3>2
  <2>5. CASE Delete
    BY <2>5 DEF Delete, DestroyHeaders, FreedBy
  <2>6. CASE UNCHANGED vars
    BY <2>6 DEF vars
  <2> QED
    BY <1>2, <2>1, <2>3, <2>4, <2>5, <2>6 DEF Next
<1> QED
  BY <1>1, <1>2, PTL DEF Spec

\* normalizeUrl: the URL of a client is a fixed point of the normalisation.
THEOREM UrlIdempotent == Spec => []Idempotent
<1>1. UrlInv => Idempotent
  BY NormalizedTwice, NormalizedTypes DEF UrlInv, TypeOK, Idempotent
<1> QED
  BY <1>1, ConstructionInvariant, PTL

\* normalizeUrl: only a portal's default endpoint is ever rewritten.
THEOREM UrlEndpointKept == Spec => []EndpointKept
<1>1. UrlInv => EndpointKept
  BY NormalizedKeeps DEF UrlInv, TypeOK, EndpointKept, Kept
<1> QED
  BY <1>1, ConstructionInvariant, PTL

\* MQSSRestClient: types.
THEOREM ConstructionTyped == Spec => []TypeOK
<1>1. UrlInv => TypeOK
  BY DEF UrlInv
<1> QED
  BY <1>1, ConstructionInvariant, PTL

\* MQSSRestClient: whichever step fails, and when the client is deleted, every
\* header node is freed once, and every request has both.
THEOREM HeadersSafe == Spec => []HeadersOwned
<1>1. HeaderInv /\ TypeOK => HeadersOwned
  BY DEF HeaderInv, TypeOK, HeadersOwned, Header
<1> QED
  BY <1>1, ConstructionInvariant, PTL DEF UrlInv
=============================================================================

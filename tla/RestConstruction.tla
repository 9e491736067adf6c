-------------------------- MODULE RestConstruction --------------------------
(***************************************************************************)
(* The construction and the end of a REST client: MQSSRestClient's         *)
(* normalizeUrl, constructor and destructor (src/clients/rest_client.cpp), *)
(* reached from C++ by MQSSClient's constructor or from C by               *)
(* MQSSClientCreateClient.                                                 *)
(*                                                                         *)
(* A URL is modelled by the parts normalizeUrl and libcurl find in it, the *)
(* header list by its nodes that are allocated, and pHeaders by the node   *)
(* it points to.                                                           *)
(***************************************************************************)
EXTENDS Integers

CONSTANT MaxSlashes   \* bound: slashes at the end of a URL's path

ASSUME MaxSlashesAssumption == MaxSlashes \in Nat /\ MaxSlashes > 1

VARIABLES
  pc,        \* "normalize", a header to append, "probe" or "done"
  language,  \* the interface used, "cpp" or "c"
  url,       \* the URL the caller gave
  mUrl,      \* MQSSRestClient::mUrl
  slist,     \* the nodes of the curl_slist that are allocated
  pHeaders,  \* its owner: the first node of the list, or "nullptr"
  out        \* what the caller gets

vars == <<pc, language, url, mUrl, slist, pHeaders, out>>

\* A host reads label, dot, domain, where label and dot may be missing; lrz is
\* quantum.lrz.de, pathway is quantumpathway.eu.
Host == [label : {"none", "some"}, dot : {"none", "dot"},
         domain : {"lrz", "pathway", "elsewhere"}]

\* A path is what follows the port: an optional segment, then slashes.  The
\* path / is one slash after no segment.
Path == [segment : {"none", "v1", "other"}, slashes : 0..MaxSlashes]

\* Why the first condition of normalizeUrl turns a text down (empty or with
\* blanks or control characters; no ://; nothing or a slash after it; a ? or
\* a #), and why curl_url_set does (credentials; anything it cannot parse).
TextFlaw == {"blank", "noSeparator", "noHost", "query"}
Flaw == TextFlaw \cup {"credentials", "unparsable"}

\* letters: are all letters of scheme and host small ones?
Url == [flaw : Flaw \cup {"none"}, scheme : {"http", "https", "ftp"},
        letters : {"small", "mixed"}, host : Host,
        port : {"none", "p4000", "p8080"}, path : Path]

Error == {"invalid_argument", "runtime_error", "bad_alloc"}

\* The two headers every request carries; each is one node of the list.
Header == {"Authorization", "Content-Type"}

TypeOK ==
  /\ pc \in Header \cup {"normalize", "probe", "done"}
  /\ language \in {"cpp", "c"}
  /\ url \in Url
  /\ mUrl \in Url
  /\ slist \subseteq Header
  /\ pHeaders \in Header \cup {"nullptr"}
  /\ out \in Error \cup {"pending", "client", "NULL", "deleted"}

----------------------------------------------------------------------------
(* normalizeUrl *)

Invalid(u) == u.flaw # "none" \/ u.scheme \notin {"http", "https"}

\* The host without :4000 ends in one of the domains, each with its leading
\* dot, and is longer.
SubdomainAnyText(u) ==
  /\ u.port \in {"none", "p4000"}
  /\ u.host.domain \in {"lrz", "pathway"}
Subdomain(u) ==
  /\ u.port \in {"none", "p4000"}
  /\ u.host.domain \in {"lrz", "pathway"}
  /\ u.host.dot = "dot"
  /\ u.host.label # "none"

PortalPath(p) ==
  \/ p.segment = "none" /\ p.slashes <= 1
  \/ p.segment = "v1" /\ p.slashes <= 1

WithSlashAlways(p) == [p EXCEPT !.slashes = @ + 1]
WithSlash(p) == IF p.slashes = 0 THEN [p EXCEPT !.slashes = 1] ELSE p

Normalized(u) ==
  IF u.scheme = "https" /\ PortalPath(u.path) /\ Subdomain(u)
  THEN [u EXCEPT !.letters = "small", !.port = "p4000",
                 !.path = [segment |-> "v1", slashes |-> 1]]
  ELSE [u EXCEPT !.path = WithSlash(@)]

----------------------------------------------------------------------------
(* Construction *)

\* MQSSClientCreateClient catches what derives from std::exception.
StdException == {"invalid_argument", "runtime_error", "bad_alloc"}
Caught(e) == IF language = "c" /\ e \in StdException THEN "NULL" ELSE e

Throw(e) ==
  /\ pc' = "done"
  /\ out' = Caught(e)

\* What curl_slist_free_all frees when it is called by the unique_ptr's reset or
\* destructor: with a pointer to the first node all nodes there are.
FreedBy(pointer, nodes) == IF pointer = "nullptr" THEN {} ELSE nodes

\* What pHeaders owns after release.
KeptByRelease(pointer) == pointer
Release(pointer) == "nullptr"

\* An exception from the constructor's body, and the end of the object, destroy
\* pHeaders.
DestroyHeaders ==
  /\ slist' = slist \ FreedBy(pHeaders, slist)
  /\ pHeaders' = "nullptr"

\* The constructor is called, from either language, with any URL.
Init ==
  /\ pc = "normalize"
  /\ language \in {"cpp", "c"}
  /\ url \in Url
  /\ mUrl = url
  /\ slist = {}
  /\ pHeaders = "nullptr"
  /\ out = "pending"

\* curl_url may fail for want of memory.
NormalizeUrl ==
  /\ pc = "normalize"
  /\ \/ /\ Invalid(url)
        /\ Throw("invalid_argument")
        /\ UNCHANGED mUrl
     \/ /\ url.flaw \notin TextFlaw
        /\ Throw("runtime_error")
        /\ UNCHANGED mUrl
     \/ /\ ~Invalid(url)
        /\ mUrl' = Normalized(url)
        /\ pc' = "Authorization"
        /\ UNCHANGED out
  /\ UNCHANGED <<language, url, slist, pHeaders>>

\* curl_slist_append adds a node and returns the first one, or returns NULL and
\* leaves the list as it is.  reset stores the pointer it is given and frees
\* what the unique_ptr still owned.
AppendHeader(header, next) ==
  /\ pc = header
  /\ \/ /\ Throw("bad_alloc")
        /\ DestroyHeaders
     \/ LET headers == IF pHeaders = "nullptr" THEN header ELSE pHeaders
            nodes   == slist \cup {header}
        IN /\ slist' = nodes \ FreedBy(Release(pHeaders), nodes)
           /\ pHeaders' = headers
           /\ pc' = next
           /\ UNCHANGED out
  /\ UNCHANGED <<language, url, mUrl>>

AppendHeaders ==
  \/ AppendHeader("Authorization", "Content-Type")
  \/ AppendHeader("Content-Type", "probe")

\* request("GET", "resources") returns or throws; its body is not looked at.
Probe ==
  /\ pc = "probe"
  /\ \/ /\ Throw("runtime_error")
        /\ DestroyHeaders
     \/ /\ pc' = "done"
        /\ out' = "client"
        /\ UNCHANGED <<slist, pHeaders>>
  /\ UNCHANGED <<language, url, mUrl>>

\* The client is deleted, from C by MQSSClientFreeClient; through the virtual
\* destructor of MQSSBaseClient the transport is too.
Delete ==
  /\ out = "client"
  /\ out' = "deleted"
  /\ DestroyHeaders
  /\ UNCHANGED <<pc, language, url, mUrl>>

Next == NormalizeUrl \/ AppendHeaders \/ Probe \/ Delete

Spec == Init /\ [][Next]_vars

----------------------------------------------------------------------------
(* Properties *)

Normal == pc \in Header \cup {"probe"} \/ out \in {"client", "deleted"}

\* The URL a client works with is a fixed point of normalizeUrl: giving it to
\* another client, or storing and reusing it, changes nothing.
Idempotent == Normal => ~Invalid(mUrl) /\ Normalized(mUrl) = mUrl

\* normalizeUrl never moves a client to another host or scheme, and to another
\* port or path only for the portals: https, a proper subdomain on a complete
\* label, the default port or 4000, and no path of its own.  All of these end
\* at port 4000 and /v1/, and every other URL at its own port and path.
EndpointKept ==
  LET h == url.host
      portal == /\ url.scheme = "https"
                /\ h.domain # "elsewhere" /\ h.dot = "dot" /\ h.label = "some"
                /\ url.port # "p8080"
                /\ url.path.segment # "other" /\ url.path.slashes < 2
  IN Normal =>
       /\ mUrl.scheme = url.scheme
       /\ mUrl.host = h
       /\ mUrl.path.slashes >= 1
       /\ portal => mUrl.port = "p4000" /\ mUrl.path.segment = "v1"
                      /\ mUrl.path.slashes = 1
       /\ ~portal => mUrl.port = url.port /\ mUrl.path.segment = url.path.segment

\* pHeaders and curl_slist_append share the list without ever sharing its end:
\* a list that was freed is never kept, and so neither sent nor freed again;
\* requests, the probe first, carry both headers; and no node outlives a
\* construction that fails at any step, or the client.
HeadersOwned ==
  /\ pHeaders # "nullptr" => pHeaders \in slist
  /\ pc = "probe" \/ out = "client" => pHeaders # "nullptr" /\ slist = Header
  /\ pc = "done" /\ out # "client" => slist = {}
=============================================================================

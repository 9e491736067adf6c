------------------------- MODULE MCResourceParser -------------------------
(* Replies of up to two resources with up to two instructions each. *)
EXTENDS ResourceParser

Tuple(qs) == [qubits |-> qs, none |-> TRUE, numbers |-> <<>>]

Tuples == {<<>>,
           <<Tuple(<<0>>), Tuple(<<1>>)>>,
           <<[qubits |-> <<1, 0>>, none |-> FALSE, numbers |-> <<5>>], Tuple(<<0, 1>>)>>,
           <<Tuple(<<IntMax + 1>>)>>}

Entries == {[name |-> "rx", braces |-> TRUE, tuples |-> t] : t \in Tuples}
           \cup {[name |-> "cz", braces |-> b, tuples |-> <<Tuple(<<0, 1>>)>>] : b \in BOOLEAN}
           \cup {[name |-> "delay", braces |-> b, tuples |-> <<>>] : b \in BOOLEAN}

Texts == {<<>>} \cup {<<e>> : e \in Entries} \cup {<<e, f>> : e, f \in Entries}

Values ==
  {[kind |-> "object", coupling |-> c, gates |-> g] :
     c \in {<<>>, <<<<0, 1>>, <<1, 0>>>>}, g \in Texts}
  \cup {[kind |-> k, coupling |-> <<>>, gates |-> <<>>] : k \in {"mistyped", "other"}}
  \cup {[kind |-> "object", coupling |-> <<<<0, IntMax + 1>>>>, gates |-> <<>>]}

OneValue == {v \in Values : v.kind # "object" \/ Len(v.gates) < 2}

MCQuery ==
  {[op |-> o, body |-> "text", values |-> <<>>] : o \in {"all", "info", "pending"}}
  \cup {[op |-> o, body |-> "json", values |-> <<v>>] :
          o \in {"all", "info", "pending"}, v \in Values}
  \cup {[op |-> "all", body |-> "json", values |-> <<v, w>>] : v, w \in OneValue}
  \cup {[op |-> o, body |-> b, values |-> <<[kind |-> "object", coupling |-> <<>>, gates |-> <<>>]>>] :
          o \in {"info", "pending"}, b \in {"missing", "error"}}
  \cup {[op |-> "all", body |-> b, values |-> <<[kind |-> "other", coupling |-> <<>>, gates |-> <<>>]>>] :
          b \in {"missing", "error"}}
=============================================================================

----------------------------- MODULE MCJobData -----------------------------
(* A small instance of JobData for TLC. *)
EXTENDS JobData

Stamp(r, s, p, ds) ==
  [kind |-> "text", read |-> r, sec |-> s, point |-> p, digits |-> ds]
Odd(k) == [EmptyText EXCEPT !.kind = k]

\* With and without a fraction, of as many digits as MicroDigits says, of fewer,
\* of more, of more than int can hold, and with none behind the point.
Fractions ==
  {Stamp("all", s, TRUE, ds) :
     s \in 0..1,
     ds \in {<<>>, <<5>>, <<0, 5>>, <<5, 0>>, <<9, 9>>, <<0, 5, 0>>, <<9, 9, 9, 9>>}}
Stamps ==
  Fractions \cup {Stamp("all", s, FALSE, <<>>) : s \in 0..1}
            \cup {Stamp("date", 3, TRUE, <<0, 5>>), EmptyText}

Entry(k, n) == [key |-> k, number |-> TRUE, count |-> n]
Maps ==
  {<<>>, <<<<>>>>, <<<<Entry("00", 0)>>>>,
   <<<<Entry("00", 3), Entry("11", IntHalf)>>>>,
   <<<<Entry("0", 2 * IntHalf - 1)>>, <<>>, <<Entry("0", 2 * IntHalf + 3)>>>>,
   <<<<Entry("0", -1)>>, <<Entry("0", IntHalf - 1), Entry("1", 1)>>>>,
   <<<<[Entry("0", 0) EXCEPT !.number = FALSE]>>>>}

\* Results vary with plain timestamps, timestamps with a plain result.
MCJson ==
  LET plain == [w \in Which |-> Stamp("all", 0, FALSE, <<>>)]
  IN [result : {"maps"}, maps : Maps, stamps : {plain}]
     \cup [result : {"absent", "mistyped", "notJson"}, maps : {<<>>}, stamps : {plain}]
     \cup [result : {"maps"}, maps : {<<>>}, stamps : [Which -> Stamps]]
     \cup {[result |-> "maps", maps |-> <<>>, stamps |-> [plain EXCEPT ![w] = Odd(k)]] :
             w \in Which, k \in {"absent", "mistyped"}}
=============================================================================

---------------------------- MODULE MCOperators ----------------------------
(* Instances of Operators for TLC: which sources of which operator are late. *)
EXTENDS Operators

\* The base of Prefetch, both streams of Concat, the base and two continuations
\* of FlatMap.
MCAnswersLate == [k \in Kinds |-> CASE k = "prefetch" -> {1}
                                    [] k = "concat"   -> {1, 2}
                                    [] k = "flatmap"  -> {1, 2, 3}]

\* The second stream of Concat and the continuations of FlatMap do not.
MCSubscribesLate == [k \in Kinds |-> {1}]

=============================================================================

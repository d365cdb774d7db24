---------------------------- MODULE MCConfidential ----------------------------
(* A group of order 13, two-bit messages, one to four values per range proof. *)
(* The answers of the tapes include zero; for a sigma protocol they do not,  *)
(* where a wrong witness passes with the probability of a zero challenge.    *)
EXTENDS Confidential

Interval(lower, upper) == [lower |-> lower, upper |-> upper]

MCClaims ==
  [kind : {"dlog", "equality", "many", "inner"}, off : {0, 1}]
    \cup [kind : {"range"}, beside : {<< >>, <<2>>, <<3, 0, 1>>}]
    \cup [kind : {"plaintext", "key"},
          interval : {Interval(0, 4), Interval(0, 1), Interval(1, 3), Interval(3, 4), Interval(3, 3)}]

Drawn(seed) ==
  [n \in {"a", "b", "w", "r", "alpha", "rho", "tau1", "tau2"} |->
     (seed * (CASE n = "a" -> 3 [] n = "b" -> 5 [] n = "w" -> 6 [] n = "r" -> 7
              [] n = "alpha" -> 2 [] n = "rho" -> 9 [] n = "tau1" -> 4 [] n = "tau2" -> 11)) % Q]
  @@ ("s_left"  :> Vec([i \in 1..VectorLength |-> (seed * i * i + 3) % Q]))
  @@ ("s_right" :> Vec([i \in 1..VectorLength |-> (seed + 5 * i) % Q]))

MCMasks == {Drawn(1), Drawn(8)}
MCTapes == {<<2, 3, 7, 9, 5, 2, 11, 6, 3>>, <<5, 1, 0, 2, 0, 12, 3, 0, 8>>, <<4, 6, 3, 7, 8, 0, 0, 4, 2>>}
MCNewAnswers == <<3, 8, 9, 1, 10, 4, 6, 7, 2, 5>>
=============================================================================

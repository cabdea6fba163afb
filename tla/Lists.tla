-------------------------------- MODULE Lists ---------------------------------
(***************************************************************************)
(* Choosing from a list: the members at some of its places, in their       *)
(* order.  The places are a set, which can be counted and compared.  And   *)
(* one function over another.                                              *)
(***************************************************************************)
EXTENDS Naturals, Sequences, FiniteSets

(* The n-th of a set of numbers.                                           *)
Nth(numbers, n) == CHOOSE k \in numbers : Cardinality({j \in numbers : j <= k}) = n

Selected(list, places) == [n \in 1 .. Cardinality(places) |-> list[Nth(places, n)]]

(* Each member of a list once, at its first place.                         *)
Distinct(list) == Selected(list, {i \in DOMAIN list : \A j \in DOMAIN list : j < i => list[j] # list[i]})

(* What f has, and the rest of g.                                          *)
f ++ g == [x \in DOMAIN f \cup DOMAIN g |-> IF x \in DOMAIN f THEN f[x] ELSE g[x]]
===============================================================================

-------------------------- MODULE MCErrorCollector --------------------------
(* ErrorCollector for TLC: addresses and collectors are interchangeable.   *)
EXTENDS ErrorCollector, TLC

Symmetric == Permutations(Messages) \cup Permutations(Collectors)

=============================================================================

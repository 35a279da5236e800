--------------------------- MODULE MCConfigStore ---------------------------
(* TLC instances of ConfigStore. *)
EXTENDS ConfigStoreDurable, TLC

Interchangeable ==
    Permutations(Writers) \cup Permutations(Ids) \cup Permutations(Keys)
=============================================================================

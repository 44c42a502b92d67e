----------------------------- MODULE MCStorage -----------------------------
(* TLC instances of Storage. *)
EXTENDS Storage, TLC

Exclusive == {"R", "W", "META"}
Shared == {"R", "SR"}
OpenedWith == {Exclusive, Shared}
CreatedWith == {Exclusive}

Symmetry == Permutations(Clients) \cup Permutations(Data) \cup Permutations(Names)
=============================================================================

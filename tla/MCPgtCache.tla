----------------------------- MODULE MCPgtCache -----------------------------
(* TLC instance of PgtCache. *)
EXTENDS PgtCache

\* A paged region from table 0 to the middle of table 1, and an unpaged one in
\* the rest of table 1.
RegionSet == {[lo |-> 0, hi |-> 2, paged |-> TRUE], [lo |-> 3, hi |-> 3, paged |-> FALSE]}
=============================================================================

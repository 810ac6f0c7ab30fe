-------------------------- MODULE MCSalesPipeline --------------------------
(* One project with two quotes, and two requests at a time.                *)
EXTENDS SalesPipeline, TLC

CONSTANTS prj, q1, q2, r1, r2

MCHomeOf == [q \in Quotes |-> prj]
Symmetry == Permutations(Quotes) \cup Permutations(Requests)
=============================================================================

----------------------------- MODULE MCPayments -----------------------------
(* One project with a contract and a quote, and two clients paying.        *)
EXTENDS Payments

CONSTANTS prj, ctr, quo

MCHomeOf == [s \in Sources |-> prj]
=============================================================================

------------------------- MODULE MCDocumentNumbers -------------------------
(* Issues (numbered by creation) and receipts (by number), both beyond the *)
(* padding, which is one digit.                                            *)
EXTENDS DocumentNumbers, TLC

MCSymmetry == Permutations(Requests)
=============================================================================

---------------------------- MODULE MCFifoSuggest ----------------------------
(* Two lines of a BOM; the lot that is received last has the earlier invoice. *)
EXTENDS FifoSuggest

MCDemand == <<1, 2>>
MCLotDate == <<2, 1>>
MCLotSize == <<1, 4>>

\* One lot that is enough for both lines.
MCOneLotDate == <<1>>
MCOneLotSize == <<4>>
=============================================================================

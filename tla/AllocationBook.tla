--------------------------- MODULE AllocationBook ---------------------------
(***************************************************************************)
(* What the allocation endpoints promise, without transactions and locks:  *)
(* a draft may be edited, and is then either cancelled or confirmed, once  *)
(* and for good; confirming takes exactly the items of the draft from      *)
(* stock, in the same instant.                                             *)
(***************************************************************************)
EXTENDS Integers

CONSTANTS Allocs, Cells, Taken(_, _)   \* what a body takes from a cell
VARIABLES stock, book

Init == /\ \A c \in Cells : stock[c] >= 0
        /\ book = [a \in Allocs |-> [status |-> "none", body |-> book[a].body]]

Edit(a) ==
  /\ book[a].status \in {"none", "DRAFT"}
  /\ book'[a].status = "DRAFT"
  /\ UNCHANGED stock

Cancel(a) ==
  /\ book[a].status = "DRAFT"
  /\ book' = [book EXCEPT ![a].status = "CANCELLED"]
  /\ UNCHANGED stock

Confirm(a) ==
  /\ book[a].status = "DRAFT"
  /\ book' = [book EXCEPT ![a].status = "CONFIRMED"]
  /\ stock' = [c \in Cells |-> stock[c] - Taken(book[a].body, c)]
  /\ \A c \in Cells : stock'[c] >= 0

\* Stock documents move the stock, not the allocations.
Move == /\ \A c \in Cells : stock'[c] >= 0
        /\ UNCHANGED book

Next == Move \/ \E a \in Allocs :
  /\ \A b \in Allocs \ {a} : book'[b] = book[b]
  /\ Edit(a) \/ Cancel(a) \/ Confirm(a)

Spec == Init /\ [][Next]_<<stock, book>>
=============================================================================

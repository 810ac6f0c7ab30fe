-------------------------- MODULE DocumentNumbers --------------------------
(***************************************************************************)
(* The numbers PN-2026-001, PX-.., PCT-.., KK-.., BG-.., HD-.., BOM-..: the *)
(* generateNext.. functions.  Under the advisory lock of the series, and   *)
(* inside the transaction that creates the row, the latest number of the   *)
(* year is read and incremented.  PX and BOM find it by createdAt, all     *)
(* others by sorting the number column, a text column.  The column is      *)
(* unique.  createdAt is a default, now(): the source leaves open whether  *)
(* the client library fills it in at the insert or PostgreSQL, with the    *)
(* time the transaction began, so a row has either, in milliseconds.       *)
(***************************************************************************)
EXTENDS Integers, Sequences, FiniteSets

CONSTANTS
  Series,         \* the numbered tables, for one year
  ByNumber,       \* those that sort by the number column
  Requests,
  Base, Width,    \* digits: padStart(Width) in base Base; 10 and 3 in the code
  MaxRows,        \* bound: rows per series
  MaxBatch,       \* rows one transaction creates; an allocation makes several issues
  MaxTime         \* bound: milliseconds that tell transactions apart

ASSUME DigitsAssumption == Base \in Nat \ {0, 1} /\ Width \in Nat \ {0}
ASSUME SeriesAssumption == ByNumber \subseteq Series
ASSUME BoundsAssumption == MaxRows \in Nat /\ MaxBatch \in Nat /\ MaxTime \in Nat

VARIABLES
  rows,           \* committed rows of each series, in the order of the inserts
  own,            \* numbers each open transaction has inserted
  lock,           \* holder of each series' advisory lock
  req,            \* progress of each request
  clock           \* the time of day

vars == <<rows, own, lock, req, clock>>
Free == "free"
ASSUME FreeIsNoRequest == Free \notin Requests
Idle == [pc |-> "idle", s |-> Free, next |-> 0, left |-> 0, began |-> 0]

Init ==
  /\ rows = [s \in Series |-> <<>>]
  /\ own = [p \in Requests |-> <<>>]
  /\ lock = [s \in Series |-> Free]
  /\ req = [p \in Requests |-> Idle]
  /\ clock = 0

-----------------------------------------------------------------------------
(* The text order of numbers.                                              *)

power[d \in Nat] == IF d = 0 THEN 1 ELSE Base * power[d - 1]   \* of Base

\* The digits of padStart(Width, "0").
LengthOf(n) ==
  IF n < power[Width] THEN Width
  ELSE CHOOSE d \in 1..(n + 1) : power[d - 1] <= n /\ n < power[d]

\* Compared character by character.
SortsBefore(a, b) ==
  LET d == LengthOf(a) + LengthOf(b)
      x == a * power[d - LengthOf(a)]
      y == b * power[d - LengthOf(b)]
  IN  x < y \/ (x = y /\ LengthOf(a) < LengthOf(b))

NumbersOf(table) == {table[i].no : i \in DOMAIN table}
LastByNumber(table) ==
  CHOOSE n \in NumbersOf(table) : \A k \in NumbersOf(table) : k = n \/ SortsBefore(k, n)
\* Of rows with the same createdAt, the query may return any.
LastByCreation(table) ==
  {table[i].no : i \in {j \in DOMAIN table : \A k \in DOMAIN table : table[k].at <= table[j].at}}

\* Faulty variant: soft-deleted rows are filtered out.
LatestUndeleted(s, table) ==
  LET kept == SelectSeq(table, LAMBDA r : ~r.deleted) IN
  IF kept = <<>> THEN {0}
  ELSE IF s \in ByNumber THEN {LastByNumber(kept)} ELSE LastByCreation(kept)

\* What findFirst of the series may return, latest first; deletedAt is not looked at.
Latest(s, table) ==
  IF table = <<>> THEN {0}
  ELSE IF s \in ByNumber THEN {LastByNumber(table)} ELSE LastByCreation(table)

-----------------------------------------------------------------------------
SeriesOf(p) == req[p].s
Seen(p) == rows[SeriesOf(p)] \o own[p]
Taken(p) == NumbersOf(Seen(p))

Begin(p, s, n) ==
  /\ req[p].pc = "idle" /\ Len(rows[s]) + n <= MaxRows
  /\ req' = [req EXCEPT ![p] = [pc |-> "lock", s |-> s, next |-> 0, left |-> n,
                                 began |-> clock]]
  /\ UNCHANGED <<rows, own, lock, clock>>

\* pg_advisory_xact_lock; the holder may take it again.
TakeLock(p) ==
  /\ req[p].pc = "lock"
  /\ lock[SeriesOf(p)] \in {Free, p}
  /\ lock' = [lock EXCEPT ![SeriesOf(p)] = p]
  /\ req' = [req EXCEPT ![p].pc = "read"]
  /\ UNCHANGED <<rows, own, clock>>

ReadLatest(p) ==
  /\ req[p].pc = "read"
  /\ \E n \in Latest(SeriesOf(p), Seen(p)) :
       req' = [req EXCEPT ![p].pc = "insert", ![p].next = n + 1]
  /\ UNCHANGED <<rows, own, lock, clock>>

\* The unique index lets an insert wait for an equal number not yet committed.
Waits(p) == \E q \in Requests \ {p} : /\ SeriesOf(q) = SeriesOf(p)
                                      /\ req[p].next \in NumbersOf(own[q])

Insert(p) ==
  /\ req[p].pc = "insert" /\ ~Waits(p)
  /\ req[p].next \notin Taken(p)
  /\ \E at \in {req[p].began, clock} :
       own' = [own EXCEPT ![p] = Append(@, [no |-> req[p].next, deleted |-> FALSE, at |-> at])]
  /\ req' = [req EXCEPT ![p].left = @ - 1,
                        ![p].pc = IF req[p].left > 1 THEN "lock" ELSE "commit"]
  /\ UNCHANGED <<rows, lock, clock>>

\* The end of a transaction releases its lock.
End(p) ==
  /\ own' = [own EXCEPT ![p] = <<>>]
  /\ lock' = [s \in Series |-> IF lock[s] = p THEN Free ELSE lock[s]]
  /\ req' = [req EXCEPT ![p] = Idle]
  /\ UNCHANGED clock

Commit(p) ==
  /\ req[p].pc = "commit"
  /\ rows' = [rows EXCEPT ![SeriesOf(p)] = Seen(p)]
  /\ End(p)

\* A unique violation, or any other failure of the creating transaction.
Collide(p) ==
  /\ req[p].pc = "insert" /\ ~Waits(p) /\ req[p].next \in Taken(p)
  /\ End(p) /\ UNCHANGED rows
Abort(p) == req[p].pc # "idle" /\ End(p) /\ UNCHANGED rows

\* A soft delete keeps the row and its number.
Delete(s, i) ==
  /\ i \in DOMAIN rows[s] /\ ~rows[s][i].deleted
  /\ rows' = [rows EXCEPT ![s][i].deleted = TRUE]
  /\ UNCHANGED <<own, lock, req, clock>>

Tick == clock < MaxTime /\ clock' = clock + 1 /\ UNCHANGED <<rows, own, lock, req>>

Step(p) ==
  \/ \E s \in Series, n \in 1..MaxBatch : Begin(p, s, n)
  \/ TakeLock(p) \/ ReadLatest(p) \/ Insert(p) \/ Commit(p) \/ Collide(p) \/ Abort(p)
Next ==
  \/ \E p \in Requests : Step(p)
  \/ \E s \in Series, i \in 1..MaxRows : Delete(s, i)
  \/ Tick
Spec == Init /\ [][Next]_vars

-----------------------------------------------------------------------------
\* Every generated number is new: neither a committed row, deleted or not, nor
\* a row another transaction is about to commit has it.
NumbersAreNew ==
  \A p \in Requests : req[p].pc = "insert" => req[p].next \notin Taken(p) /\ ~Waits(p)

\* What the two orders allow: numbers are new until the padding is used up, or
\* while no earlier row is dated as late as the last one.  Dates do that when a
\* transaction that began first takes the lock last, or creates several rows.
Exhausted(p) == SeriesOf(p) \in ByNumber /\ Len(Seen(p)) >= power[Width]
DatedLast(table) == \A i \in 1..(Len(table) - 1) : table[i].at < table[Len(table)].at
Misled(p) == SeriesOf(p) \notin ByNumber /\ ~DatedLast(Seen(p))
NumbersAreNewUnlessMisled ==
  \A p \in Requests : req[p].pc = "insert" /\ ~Exhausted(p) /\ ~Misled(p) =>
                        req[p].next \notin Taken(p) /\ ~Waits(p)
=============================================================================

------------------------------ MODULE Payments ------------------------------
(***************************************************************************)
(* Payments of projects, contracts and quotes.  There are two endpoints:   *)
(* POST projects/:id/payments (ProjectsService.createPayment) pays a       *)
(* project directly, its contract or one of its quotes; POST               *)
(* contracts/:id/payments (ContractsService.createPayment) pays a          *)
(* contract.  Both add up the payment rows of what is paid, compare the    *)
(* total with its value and insert a row, behind advisory locks.  What a   *)
(* source is worth may be revised at any time, and revisions take no lock. *)
(***************************************************************************)
EXTENDS Integers, FiniteSets

CONSTANTS
  Projects, Contracts, Quotes,
  HomeOf,         \* the project of each contract and quote
  Requests,
  Amounts,        \* what clients pay
  Values,         \* what sources may be worth
  MaxPaid         \* bound: no request starts on a project with more paid

Accounts == Projects \cup Contracts \cup Quotes
Sources == Contracts \cup Quotes

ASSUME AccountsAssumption ==
  /\ Projects \cap Sources = {}
  /\ HomeOf \in [Sources -> Projects]
ASSUME MoneyAssumption == Amounts \subseteq Nat \ {0} /\ Values \subseteq Nat
ASSUME NobodyIsNoRequest == "nobody" \notin Requests

VARIABLES
  phase,          \* none, live or (soft-)deleted
  value,          \* Project.estimatedValue (0 if null), Contract.value, Quote.total
  paid,           \* sum of the payment rows of a project, a contract, a quote
  key,            \* holder of each advisory key <model>_payment_<id>
  pay,            \* progress of each request
  peak,           \* history: the most each account was ever worth
  overtaken       \* history: requests whose project the contracts endpoint paid
                  \* after they had read its total

vars == <<phase, value, paid, key, pay, peak, overtaken>>
Idle == [pc |-> "idle", via |-> "projects", s |-> "none", amount |-> 0,
         limit |-> 0, seen |-> 0]

Init ==
  /\ phase = [s \in Accounts |-> IF s \in Contracts THEN "none" ELSE "live"]
  /\ value \in [Accounts -> Values] /\ peak = value
  /\ paid = [s \in Accounts |-> 0]
  /\ key = [s \in Accounts |-> "nobody"]
  /\ pay = [p \in Requests |-> Idle]
  /\ overtaken = {}

Live(s) == phase[s] = "live"
ProjectOf(s) == IF s \in Projects THEN s ELSE HomeOf[s]

-----------------------------------------------------------------------------
(* What a source is worth.                                                 *)

Worth(new) ==
  /\ value' = new
  /\ peak' = [s \in Accounts |-> IF new[s] > peak[s] THEN new[s] ELSE peak[s]]

\* contracts.create: one contract per project, ever; syncProjectStatusFor-
\* Contract makes its value the project's.
CreateContract(c) ==
  /\ Live(HomeOf[c])
  /\ \A d \in Contracts : HomeOf[d] = HomeOf[c] => phase[d] = "none"
  /\ phase' = [phase EXCEPT ![c] = "live"]
  /\ \E v \in Values \ {0} : Worth([value EXCEPT ![c] = v, ![HomeOf[c]] = v])
  /\ UNCHANGED <<paid, key, pay, overtaken>>

\* contracts.update: the same, whether or not the value is part of the update.
ReviseContract(c) ==
  /\ Live(c) /\ Live(HomeOf[c])
  /\ \E v \in (Values \ {0}) \cup {value[c]} :
       Worth([value EXCEPT ![c] = v, ![HomeOf[c]] = v])
  /\ UNCHANGED <<phase, paid, key, pay, overtaken>>

\* quotes.update of the items; with the status ACCEPTED the total becomes the
\* project's estimate (syncProjectStatusForQuote).
ReviseQuote(q) ==
  /\ Live(q) /\ Live(HomeOf[q])
  /\ \E v \in Values : \E estimate \in {v, value[HomeOf[q]]} :
       Worth([value EXCEPT ![q] = v, ![HomeOf[q]] = estimate])
  /\ UNCHANGED <<phase, paid, key, pay, overtaken>>

\* projects.update, and the accepted items of a quote (quotes.updateStatus).
ReviseProject(j) ==
  /\ Live(j)
  /\ \E v \in Values : Worth([value EXCEPT ![j] = v])
  /\ UNCHANGED <<phase, paid, key, pay, overtaken>>

\* remove, of a project only while it has had no contract; and restore.
Delete(s) ==
  /\ Live(s)
  /\ s \in Projects => \A c \in Contracts : HomeOf[c] = s => phase[c] = "none"
  /\ phase' = [phase EXCEPT ![s] = "deleted"]
  /\ UNCHANGED <<value, paid, key, pay, peak, overtaken>>
Restore(j) ==
  /\ phase[j] = "deleted"
  /\ phase' = [phase EXCEPT ![j] = "live"]
  /\ UNCHANGED <<value, paid, key, pay, peak, overtaken>>

-----------------------------------------------------------------------------
(* createPayment.                                                          *)

Sets(p, r) == pay' = [pay EXCEPT ![p] = r]
Begin(p, via, s, amount) ==
  /\ pay[p].pc = "idle"
  /\ via = "contracts" => s \in Contracts
  /\ paid[ProjectOf(s)] <= MaxPaid
  /\ Sets(p, [Idle EXCEPT !.via = via, !.s = s, !.amount = amount,
                          !.pc = IF via = "projects" THEN "project" ELSE "source"])
  /\ UNCHANGED <<phase, value, paid, key, peak, overtaken>>

TakeKey(p, s) == key[s] \in {"nobody", p} /\ key' = [key EXCEPT ![s] = p]

\* project_payment_<id>, taken by every branch of the projects endpoint ...
TakeProjectKey(p) ==
  /\ pay[p].pc = "project"
  /\ TakeKey(p, ProjectOf(pay[p].s))
  /\ Sets(p, [pay[p] EXCEPT !.pc = IF pay[p].s \in Projects THEN "limit" ELSE "source"])
  /\ UNCHANGED <<phase, value, paid, peak, overtaken>>

\* Faulty variant: contract_payment_<id> is only taken by the contracts endpoint.
TakeSourceKeyUnlessProject(p) ==
  /\ pay[p].pc = "source"
  /\ IF pay[p].via = "contracts" THEN TakeKey(p, pay[p].s) ELSE UNCHANGED key
  /\ Sets(p, [pay[p] EXCEPT !.pc = "limit"])
  /\ UNCHANGED <<phase, value, paid, peak, overtaken>>

\* ... then contract_payment_<id> or quote_payment_<id>; the contracts endpoint
\* takes only this one.
TakeSourceKey(p) ==
  /\ pay[p].pc = "source"
  /\ TakeKey(p, pay[p].s)
  /\ Sets(p, [pay[p] EXCEPT !.pc = "limit"])
  /\ UNCHANGED <<phase, value, paid, peak, overtaken>>

Found(s) == Live(s) /\ Live(ProjectOf(s))

\* findFirst of the row ...
ReadLimit(p) ==
  /\ pay[p].pc = "limit" /\ Found(pay[p].s)
  /\ Sets(p, [pay[p] EXCEPT !.pc = "paid", !.limit = value[pay[p].s]])
  /\ UNCHANGED <<phase, value, paid, key, peak, overtaken>>

\* ... and of its payments, a query of its own.
ReadPaid(p) ==
  /\ pay[p].pc = "paid"
  /\ Sets(p, [pay[p] EXCEPT !.pc = "post", !.seen = paid[pay[p].s]])
  /\ UNCHANGED <<phase, value, paid, key, peak, overtaken>>

\* Faulty variant: the limit is compared with what is paid so far.
FitsUntilReached(r) == r.seen < r.limit \/ (r.s \in Projects /\ r.limit = 0)

\* assertPaymentLimit; a project without an estimate has no limit.
Fits(r) == r.seen + r.amount <= r.limit \/ (r.s \in Projects /\ r.limit = 0)

\* The end of the transaction: its keys are released.
Released(p) == [s \in Accounts |-> IF key[s] = p THEN "nobody" ELSE key[s]]

End(p) == key' = Released(p) /\ Sets(p, Idle)

\* Requests on the same project that have read its total already.
Overtakes(p) ==
  {q \in Requests \ {p} : /\ pay[p].via = "contracts" /\ pay[q].pc = "post"
                          /\ pay[q].s = ProjectOf(pay[p].s)}

\* The payment row is inserted and committed.
Post(p) ==
  LET s == pay[p].s IN
  /\ pay[p].pc = "post" /\ Fits(pay[p])
  /\ paid' = [a \in Accounts |->
                IF a \in {s, ProjectOf(s)} THEN paid[a] + pay[p].amount ELSE paid[a]]
  /\ overtaken' = (overtaken \cup Overtakes(p)) \ {p}
  /\ End(p)
  /\ UNCHANGED <<phase, value, peak>>

\* Faulty variant: a row that is gone is waited for, with the keys held.
RefuseOverpaid(p) ==
  /\ pay[p].pc = "post" /\ ~Fits(pay[p])
  /\ End(p) /\ overtaken' = overtaken \ {p}
  /\ UNCHANGED <<phase, value, paid, peak>>

\* NotFoundException, BadRequestException.
Refuse(p) ==
  /\ \/ pay[p].pc = "limit" /\ ~Found(pay[p].s)
     \/ pay[p].pc = "post" /\ ~Fits(pay[p])
  /\ End(p) /\ overtaken' = overtaken \ {p}
  /\ UNCHANGED <<phase, value, paid, peak>>

\* Timeout of the interactive transaction, lost connection, crash.
Abort(p) ==
  /\ pay[p].pc # "idle"
  /\ End(p) /\ overtaken' = overtaken \ {p}
  /\ UNCHANGED <<phase, value, paid, peak>>

-----------------------------------------------------------------------------
Revise ==
  \/ \E c \in Contracts : CreateContract(c) \/ ReviseContract(c)
  \/ \E q \in Quotes : ReviseQuote(q)
  \/ \E j \in Projects : ReviseProject(j) \/ Restore(j)
  \/ \E s \in Accounts : Delete(s)

BeginAny(p) ==
  \E via \in {"projects", "contracts"}, s \in Accounts, amount \in Amounts :
    Begin(p, via, s, amount)
Proceed(p) ==
  \/ TakeProjectKey(p) \/ TakeSourceKey(p)
  \/ ReadLimit(p) \/ ReadPaid(p) \/ Post(p) \/ Refuse(p)

Next == Revise \/ \E p \in Requests : BeginAny(p) \/ Proceed(p) \/ Abort(p)
Spec == Init /\ [][Next]_vars

\* A handler goes on; PostgreSQL grants an advisory key to those that wait for
\* it in turn.  Nobody has to abort.
FairSpec == Spec /\ \A p \in Requests : SF_vars(Proceed(p))

-----------------------------------------------------------------------------
\* "Two concurrent requests both read the same paid total and can jointly
\* overpay": whatever the endpoints, a contract or quote is never paid more
\* than the most it was ever worth.
PaidWithinPeak == \A s \in Sources : paid[s] <= peak[s]

\* A direct payment of a project with an estimate leaves the total of the
\* project, its contract's and quotes' payments included, within the estimate ...
PaysDirectly(p) ==
  /\ pay[p].pc = "post" /\ pay[p].s \in Projects /\ pay[p].limit > 0
  /\ paid'[pay[p].s] # paid[pay[p].s] /\ pay'[p].pc = "idle"
DirectPaymentsFit ==
  [][\A p \in Requests : PaysDirectly(p) => paid'[pay[p].s] <= pay[p].limit]_vars

\* ... unless the contracts endpoint, which does not take the project's key,
\* has paid the contract in the meantime.
DirectPaymentsFitUnlessOvertaken ==
  [][\A p \in Requests :
       PaysDirectly(p) /\ p \notin overtaken => paid'[pay[p].s] <= pay[p].limit]_vars

\* The order project before contract or quote leaves no cycle of waits, and
\* every key is given back: every request ends.
PaymentsEnd == \A p \in Requests : pay[p].pc # "idle" ~> pay[p].pc = "idle"
=============================================================================

--------------------------- MODULE PaymentsProofs ---------------------------
(***************************************************************************)
(* The advisory keys of createPayment suffice, for any number of projects, *)
(* contracts, quotes and requests: a contract or quote is never overpaid,  *)
(* and a direct payment fits unless the contracts endpoint overtook it.    *)
(* The invariant says what a request knows once it holds its keys: nobody  *)
(* else can change the total it has read.                                  *)
(***************************************************************************)
EXTENDS Payments, TLAPS

Waiting == {"project", "source"}
Reading == {"limit", "paid", "post"}
PayRequest == [pc : {"idle"} \cup Waiting \cup Reading,
               via : {"projects", "contracts"}, s : Accounts \cup {"none"},
               amount : Nat, limit : Nat, seen : Nat]

RowsInv ==
  /\ value \in [Accounts -> Nat] /\ peak \in [Accounts -> Nat]
  /\ paid \in [Accounts -> Nat]
  /\ \A s \in Accounts : value[s] <= peak[s]
  /\ key \in [Accounts -> Requests \cup {"nobody"}]

OnAnAccount(r) ==
  r.pc # "idle" => r.s \in Accounts /\ (r.via = "contracts" => r.s \in Contracts)

HoldsKeys(p) ==
  /\ pay[p].pc \in Reading /\ pay[p].s \in Sources => key[pay[p].s] = p
  /\ pay[p].pc \in Reading \cup {"source"} /\ pay[p].via = "projects" =>
       key[ProjectOf(pay[p].s)] = p

KnowsTotal(p) ==
  /\ pay[p].pc \in {"paid", "post"} => pay[p].limit <= peak[pay[p].s]
  /\ pay[p].pc = "post" /\ pay[p].s \in Sources => pay[p].seen = paid[pay[p].s]
  /\ pay[p].pc = "post" /\ pay[p].s \in Projects =>
       pay[p].seen = paid[pay[p].s] \/ p \in overtaken

RequestsInv ==
  /\ pay \in [Requests -> PayRequest]
  /\ \A p \in Requests : OnAnAccount(pay[p]) /\ HoldsKeys(p) /\ KnowsTotal(p)

PaymentsInv == RowsInv /\ RequestsInv /\ PaidWithinPeak
-----------------------------------------------------------------------------
\* Whatever is paid belongs to one project.
LEMMA ProjectOfAccount ==
  ASSUME NEW s \in Accounts
  PROVE  /\ ProjectOf(s) \in Projects /\ ProjectOf(s) \in Accounts
         /\ s \notin Projects => s \in Sources
  BY AccountsAssumption DEF ProjectOf, Accounts, Sources

\* A request between two calls.
LEMMA IdleIsRequest == Idle \in PayRequest /\ Idle.pc = "idle" /\ OnAnAccount(Idle)
  BY DEF Idle, PayRequest, OnAnAccount

\* At the start nothing is paid and nobody holds a key.
LEMMA InitEstablishesInv == Init => PaymentsInv
<1> SUFFICES ASSUME Init PROVE PaymentsInv
  OBVIOUS
<1>1. RowsInv
  <2>1. value \in [Accounts -> Nat]
    BY MoneyAssumption DEF Init
  <2> QED BY <2>1 DEF Init, RowsInv
<1>2. PaidWithinPeak
  BY <1>1 DEF RowsInv, Init, PaidWithinPeak, Accounts, Sources
<1>3. RequestsInv
  BY IdleIsRequest DEF Init, RequestsInv, HoldsKeys, KnowsTotal, Waiting, Reading
<1> QED BY <1>1, <1>2, <1>3 DEF PaymentsInv

\* Revisions move values and never lower a peak.
LEMMA ReviseKeepsInv ==
  ASSUME PaymentsInv, Revise
  PROVE  PaymentsInv'
<1>1. UNCHANGED <<paid, key, pay, overtaken>>
  BY DEF Revise, CreateContract, ReviseContract, ReviseQuote, ReviseProject, Delete, Restore
<1>2. \/ UNCHANGED <<value, peak>>
      \/ \E new \in [Accounts -> Nat] : Worth(new)
  <2>1. ASSUME NEW c \in Contracts, CreateContract(c) \/ ReviseContract(c)
        PROVE  \E new \in [Accounts -> Nat] : Worth(new)
    <3>1. c \in Accounts
      BY DEF Accounts
    <3>2. PICK v \in Values \cup {value[c]} : Worth([value EXCEPT ![c] = v, ![HomeOf[c]] = v])
      BY <2>1 DEF CreateContract, ReviseContract
    <3>3. v \in Nat
      BY <3>1, MoneyAssumption DEF PaymentsInv, RowsInv
    <3>4. [value EXCEPT ![c] = v, ![HomeOf[c]] = v] \in [Accounts -> Nat]
      BY <3>3 DEF PaymentsInv, RowsInv
    <3> QED BY <3>2, <3>4
  <2>2. ASSUME NEW q \in Quotes, ReviseQuote(q)
        PROVE  \E new \in [Accounts -> Nat] : Worth(new)
    <3>1. HomeOf[q] \in Accounts
      BY AccountsAssumption DEF Accounts, Sources
    <3>2. PICK v \in Values : \E estimate \in {v, value[HomeOf[q]]} :
            Worth([value EXCEPT ![q] = v, ![HomeOf[q]] = estimate])
      BY <2>2 DEF ReviseQuote
    <3> PICK estimate \in {v, value[HomeOf[q]]} :
            Worth([value EXCEPT ![q] = v, ![HomeOf[q]] = estimate])
      BY <3>2
    <3>3. v \in Nat /\ estimate \in Nat
      BY <3>1, MoneyAssumption DEF PaymentsInv, RowsInv
    <3>4. [value EXCEPT ![q] = v, ![HomeOf[q]] = estimate] \in [Accounts -> Nat]
      BY <3>3 DEF PaymentsInv, RowsInv
    <3> QED BY <3>4
  <2>3. ASSUME NEW j \in Projects, ReviseProject(j)
        PROVE  \E new \in [Accounts -> Nat] : Worth(new)
    <3>1. PICK v \in Values : Worth([value EXCEPT ![j] = v])
      BY <2>3 DEF ReviseProject
    <3>2. [value EXCEPT ![j] = v] \in [Accounts -> Nat]
      BY MoneyAssumption DEF PaymentsInv, RowsInv
    <3> QED BY <3>1, <3>2
  <2> QED BY <2>1, <2>2, <2>3 DEF Revise, Delete, Restore
<1>3. RowsInv' /\ \A s \in Accounts : peak[s] <= peak'[s]
  <2>1. CASE UNCHANGED <<value, peak>>
    BY <1>1, <2>1 DEF PaymentsInv, RowsInv
  <2>2. CASE \E new \in [Accounts -> Nat] : Worth(new)
    BY <1>1, <2>2 DEF PaymentsInv, RowsInv, Worth
  <2> QED BY <1>2, <2>1, <2>2
<1>4. PaidWithinPeak'
  BY <1>1, <1>3 DEF PaymentsInv, RowsInv, PaidWithinPeak, Accounts, Sources
<1>5. RequestsInv'
  <2> SUFFICES ASSUME NEW p \in Requests
               PROVE  OnAnAccount(pay[p])' /\ HoldsKeys(p)' /\ KnowsTotal(p)'
    BY <1>1 DEF PaymentsInv, RequestsInv
  <2>1. pay[p] \in PayRequest /\ OnAnAccount(pay[p]) /\ HoldsKeys(p) /\ KnowsTotal(p)
    BY DEF PaymentsInv, RequestsInv
  <2>2. OnAnAccount(pay[p])' /\ HoldsKeys(p)'
    BY <1>1, <2>1 DEF OnAnAccount, HoldsKeys, ProjectOf
  <2>3. KnowsTotal(p)'
    BY <1>1, <1>3, <2>1 DEF KnowsTotal, OnAnAccount, PayRequest, PaymentsInv, RowsInv
  <2> QED BY <2>2, <2>3
<1> QED BY <1>3, <1>4, <1>5 DEF PaymentsInv

\* A step in which request p becomes r, takes free keys at most, and nobody is
\* paid, keeps what the other requests know.
LEMMA RequestMoves ==
  ASSUME PaymentsInv, NEW p \in Requests, NEW r \in PayRequest, OnAnAccount(r),
         pay' = [pay EXCEPT ![p] = r],
         key' \in [Accounts -> Requests \cup {"nobody"}],
         \A s \in Accounts, q \in Requests \ {p} : key[s] = q => key'[s] = q,
         UNCHANGED <<value, paid, peak>>,
         \A q \in Requests \ {p} : q \in overtaken => q \in overtaken',
         HoldsKeys(p)', KnowsTotal(p)'
  PROVE  PaymentsInv'
<1>1. RowsInv' /\ PaidWithinPeak'
  BY DEF PaymentsInv, RowsInv, PaidWithinPeak
<1>2. pay' \in [Requests -> PayRequest] /\ pay'[p] = r
      /\ \A q \in Requests \ {p} : pay'[q] = pay[q]
  BY DEF PaymentsInv, RequestsInv
<1>3. ASSUME NEW q \in Requests \ {p}
      PROVE  OnAnAccount(pay[q])' /\ HoldsKeys(q)' /\ KnowsTotal(q)'
  <2>1. /\ pay[q] \in PayRequest /\ OnAnAccount(pay[q]) /\ HoldsKeys(q) /\ KnowsTotal(q)
        /\ pay'[q] = pay[q]
    BY <1>2 DEF PaymentsInv, RequestsInv
  <2>2. pay[q].pc # "idle" => pay[q].s \in Accounts /\ ProjectOf(pay[q].s) \in Accounts
    BY <2>1, ProjectOfAccount DEF OnAnAccount
  <2>3. HoldsKeys(q)'
    BY <2>1, <2>2 DEF HoldsKeys, ProjectOf, Reading
  <2>4. OnAnAccount(pay[q])' /\ KnowsTotal(q)'
    BY <2>1 DEF OnAnAccount, KnowsTotal
  <2> QED BY <2>3, <2>4
<1>4. OnAnAccount(pay[p])'
  BY <1>2 DEF OnAnAccount
<1>5. RequestsInv'
  BY <1>2, <1>3, <1>4 DEF RequestsInv
<1> QED BY <1>1, <1>5 DEF PaymentsInv

\* A request takes a key that is free, or that it has.
LEMMA KeyIsTaken ==
  ASSUME PaymentsInv, NEW p \in Requests, NEW s \in Accounts, TakeKey(p, s)
  PROVE  /\ key' \in [Accounts -> Requests \cup {"nobody"}] /\ key'[s] = p
         /\ \A a \in Accounts, q \in Requests \ {p} : key[a] = q => key'[a] = q
         /\ \A a \in Accounts : key[a] = p => key'[a] = p
  BY NobodyIsNoRequest DEF TakeKey, PaymentsInv, RowsInv

\* A new request holds no key and has read nothing.
LEMMA BeginKeepsInv ==
  ASSUME PaymentsInv, NEW p \in Requests, NEW via \in {"projects", "contracts"},
         NEW s \in Accounts, NEW amount \in Amounts, Begin(p, via, s, amount)
  PROVE  PaymentsInv'
<1> DEFINE r == [Idle EXCEPT !.via = via, !.s = s, !.amount = amount,
                             !.pc = IF via = "projects" THEN "project" ELSE "source"]
<1>1. r \in PayRequest /\ OnAnAccount(r) /\ r.pc \in Waiting
        /\ (r.pc = "source" => r.via = "contracts")
  BY MoneyAssumption DEF Idle, PayRequest, OnAnAccount, Waiting, Begin
<1>2. pay' = [pay EXCEPT ![p] = r] /\ UNCHANGED <<value, paid, peak, key, overtaken>>
  BY DEF Begin, Sets
<1> HIDE DEF r
<1>3. pay'[p] = r
  BY <1>2 DEF PaymentsInv, RequestsInv
<1>4. HoldsKeys(p)' /\ KnowsTotal(p)'
  BY <1>1, <1>3 DEF HoldsKeys, KnowsTotal, Waiting, Reading
<1> QED BY <1>1, <1>2, <1>4, RequestMoves DEF PaymentsInv, RowsInv

\* The keys, in their order; and the two reads.
LEMMA TakeProjectKeyKeepsInv ==
  ASSUME PaymentsInv, NEW p \in Requests, TakeProjectKey(p)
  PROVE  PaymentsInv'
<1> DEFINE r == [pay[p] EXCEPT !.pc = IF pay[p].s \in Projects THEN "limit" ELSE "source"]
<1>1. pay[p] \in PayRequest /\ OnAnAccount(pay[p]) /\ pay[p].s \in Accounts
  BY DEF PaymentsInv, RequestsInv, OnAnAccount, TakeProjectKey
<1>2. r \in PayRequest /\ OnAnAccount(r) /\ r.s = pay[p].s
        /\ r.pc = IF pay[p].s \in Projects THEN "limit" ELSE "source"
  <2>1. /\ r \in PayRequest /\ r.s = pay[p].s /\ r.via = pay[p].via
        /\ r.pc = IF pay[p].s \in Projects THEN "limit" ELSE "source"
    BY <1>1 DEF PayRequest, Waiting, Reading
  <2>2. pay[p].via = "contracts" => pay[p].s \in Contracts
    BY <1>1 DEF OnAnAccount, TakeProjectKey
  <2> QED BY <1>1, <2>1, <2>2 DEF OnAnAccount
<1>3. pay' = [pay EXCEPT ![p] = r] /\ UNCHANGED <<value, paid, peak, overtaken>>
  BY DEF TakeProjectKey, Sets
<1> HIDE DEF r
<1>4. pay'[p] = r
  BY <1>3 DEF PaymentsInv, RequestsInv
<1>5. /\ key' \in [Accounts -> Requests \cup {"nobody"}] /\ key'[ProjectOf(r.s)] = p
      /\ \A a \in Accounts, q \in Requests \ {p} : key[a] = q => key'[a] = q
  BY <1>1, <1>2, ProjectOfAccount, KeyIsTaken DEF TakeProjectKey
<1>6. r.pc = "limit" => r.s \notin Sources
  BY <1>2, AccountsAssumption
<1>7. HoldsKeys(p)'
  BY <1>2, <1>4, <1>5, <1>6 DEF HoldsKeys, ProjectOf, Reading
<1>8. KnowsTotal(p)'
  BY <1>2, <1>4 DEF KnowsTotal
<1> QED BY <1>2, <1>3, <1>5, <1>7, <1>8, RequestMoves

\* The key of a contract or quote.
LEMMA TakeSourceKeyKeepsInv ==
  ASSUME PaymentsInv, NEW p \in Requests, TakeSourceKey(p)
  PROVE  PaymentsInv'
<1> DEFINE r == [pay[p] EXCEPT !.pc = "limit"]
<1>1. pay[p] \in PayRequest /\ OnAnAccount(pay[p]) /\ pay[p].s \in Accounts /\ HoldsKeys(p)
  BY DEF PaymentsInv, RequestsInv, OnAnAccount, TakeSourceKey
<1>2. r \in PayRequest /\ OnAnAccount(r) /\ r.s = pay[p].s /\ r.pc = "limit"
        /\ r.via = pay[p].via
  <2>1. r \in PayRequest /\ r.s = pay[p].s /\ r.pc = "limit" /\ r.via = pay[p].via
    BY <1>1 DEF PayRequest, Reading
  <2>2. pay[p].via = "contracts" => pay[p].s \in Contracts
    BY <1>1 DEF OnAnAccount, TakeSourceKey
  <2> QED BY <1>1, <2>1, <2>2 DEF OnAnAccount
<1>3. pay' = [pay EXCEPT ![p] = r] /\ UNCHANGED <<value, paid, peak, overtaken>>
  BY DEF TakeSourceKey, Sets
<1> HIDE DEF r
<1>4. pay'[p] = r
  BY <1>3 DEF PaymentsInv, RequestsInv
<1>5. /\ key' \in [Accounts -> Requests \cup {"nobody"}] /\ key'[r.s] = p
      /\ \A a \in Accounts, q \in Requests \ {p} : key[a] = q => key'[a] = q
      /\ \A a \in Accounts : key[a] = p => key'[a] = p
  BY <1>1, <1>2, KeyIsTaken DEF TakeSourceKey
<1>6. HoldsKeys(p)'
  <2>1. ProjectOf(r.s) \in Accounts
    BY <1>1, <1>2, ProjectOfAccount
  <2>2. r.via = "projects" => key[ProjectOf(r.s)] = p
    BY <1>1, <1>2 DEF HoldsKeys, TakeSourceKey
  <2> QED BY <1>2, <1>4, <1>5, <2>1, <2>2 DEF HoldsKeys, ProjectOf
<1>7. KnowsTotal(p)'
  BY <1>2, <1>4 DEF KnowsTotal
<1> QED BY <1>2, <1>3, <1>5, <1>6, <1>7, RequestMoves

\* The reads: nobody pays what p has read while p holds the key.
LEMMA ReadsKeepInv ==
  ASSUME PaymentsInv, NEW p \in Requests, ReadLimit(p) \/ ReadPaid(p)
  PROVE  PaymentsInv'
<1>1. /\ pay[p] \in PayRequest /\ OnAnAccount(pay[p]) /\ pay[p].s \in Accounts
      /\ HoldsKeys(p) /\ KnowsTotal(p) /\ pay[p].pc \in {"limit", "paid"}
  BY DEF PaymentsInv, RequestsInv, OnAnAccount, ReadLimit, ReadPaid
<1>2. value[pay[p].s] \in Nat /\ paid[pay[p].s] \in Nat /\ value[pay[p].s] <= peak[pay[p].s]
  BY <1>1 DEF PaymentsInv, RowsInv
<1>3. UNCHANGED <<value, paid, peak, key, overtaken>>
  BY DEF ReadLimit, ReadPaid
<1>4. ASSUME NEW r \in PayRequest, pay' = [pay EXCEPT ![p] = r],
             r.s = pay[p].s, r.via = pay[p].via, r.pc \in {"paid", "post"},
             r.limit <= peak[r.s], r.pc = "post" => r.seen = paid[r.s]
      PROVE  PaymentsInv'
  <2>1. pay'[p] = r
    BY <1>4 DEF PaymentsInv, RequestsInv
  <2>2. OnAnAccount(r)
    BY <1>1, <1>4 DEF OnAnAccount
  <2>3. HoldsKeys(p)'
    BY <1>1, <1>3, <1>4, <2>1 DEF HoldsKeys, ProjectOf, Reading
  <2>4. KnowsTotal(p)'
    BY <1>3, <1>4, <2>1 DEF KnowsTotal
  <2> QED BY <1>3, <1>4, <2>2, <2>3, <2>4, RequestMoves DEF PaymentsInv, RowsInv
<1>5. CASE ReadLimit(p)
  <2> DEFINE r == [pay[p] EXCEPT !.pc = "paid", !.limit = value[pay[p].s]]
  <2>1. /\ r \in PayRequest /\ r.s = pay[p].s /\ r.via = pay[p].via /\ r.pc = "paid"
        /\ r.limit = value[pay[p].s]
    BY <1>1, <1>2 DEF PayRequest, Reading
  <2>2. pay' = [pay EXCEPT ![p] = r]
    BY <1>5 DEF ReadLimit, Sets
  <2> HIDE DEF r
  <2> QED BY <1>2, <1>4, <2>1, <2>2
<1>6. CASE ReadPaid(p)
  <2> DEFINE r == [pay[p] EXCEPT !.pc = "post", !.seen = paid[pay[p].s]]
  <2>1. /\ r \in PayRequest /\ r.s = pay[p].s /\ r.via = pay[p].via /\ r.pc = "post"
        /\ r.limit = pay[p].limit /\ r.seen = paid[pay[p].s]
    BY <1>1, <1>2 DEF PayRequest, Reading
  <2>2. pay' = [pay EXCEPT ![p] = r]
    BY <1>6 DEF ReadPaid, Sets
  <2>3. pay[p].limit <= peak[pay[p].s]
    BY <1>1, <1>6 DEF ReadPaid, KnowsTotal
  <2> HIDE DEF r
  <2> QED BY <1>4, <2>1, <2>2, <2>3
<1> QED BY <1>5, <1>6

\* A request that ends gives back its keys and knows nothing any more.
LEMMA EndFreesKeys ==
  ASSUME PaymentsInv, NEW p \in Requests, End(p)
  PROVE  /\ key' \in [Accounts -> Requests \cup {"nobody"}]
         /\ \A s \in Accounts, q \in Requests \ {p} : key[s] = q => key'[s] = q
         /\ pay' = [pay EXCEPT ![p] = Idle]
         /\ HoldsKeys(p)' /\ KnowsTotal(p)'
<1>1. /\ key' \in [Accounts -> Requests \cup {"nobody"}]
      /\ \A s \in Accounts, q \in Requests \ {p} : key[s] = q => key'[s] = q
  BY DEF End, Released, PaymentsInv, RowsInv
<1>2. pay' = [pay EXCEPT ![p] = Idle] /\ pay'[p] = Idle
  BY DEF End, Sets, PaymentsInv, RequestsInv
<1>3. HoldsKeys(p)' /\ KnowsTotal(p)'
  BY <1>2 DEF HoldsKeys, KnowsTotal, Idle, Reading
<1> QED BY <1>1, <1>2, <1>3

\* Refused and aborted requests pay nothing.
LEMMA RefusalsKeepInv ==
  ASSUME PaymentsInv, NEW p \in Requests, Refuse(p) \/ Abort(p)
  PROVE  PaymentsInv'
<1>1. End(p) /\ UNCHANGED <<value, paid, peak>> /\ overtaken' = overtaken \ {p}
  BY DEF Refuse, Abort
<1> QED BY <1>1, EndFreesKeys, IdleIsRequest, RequestMoves

\* Who inserts a payment holds the keys of all totals it changes, except that
\* of a project whose contract it pays through the contracts endpoint; then
\* those who know the project's total are overtaken.
LEMMA PostedTotals ==
  ASSUME PaymentsInv, NEW p \in Requests, Post(p)
  PROVE  /\ paid' \in [Accounts -> Nat]
         /\ pay[p].s \in Sources => paid'[pay[p].s] <= peak[pay[p].s]
         /\ \A s \in Sources \ {pay[p].s} : paid'[s] = paid[s]
         /\ \A j \in Projects \ {ProjectOf(pay[p].s)} : paid'[j] = paid[j]
<1> DEFINE s == pay[p].s
<1>1. /\ pay[p] \in PayRequest /\ s \in Accounts /\ KnowsTotal(p) /\ pay[p].pc = "post"
      /\ paid' = [a \in Accounts |->
                    IF a \in {s, ProjectOf(s)} THEN paid[a] + pay[p].amount ELSE paid[a]]
  BY DEF Post, PaymentsInv, RequestsInv, OnAnAccount
<1>2. pay[p].amount \in Nat /\ paid \in [Accounts -> Nat]
  BY <1>1 DEF PayRequest, PaymentsInv, RowsInv
<1>3. paid' \in [Accounts -> Nat]
  BY <1>1, <1>2
<1>4. ProjectOf(s) \in Projects
  BY <1>1, ProjectOfAccount
<1>5. \A a \in Sources \ {s} : paid'[a] = paid[a]
  BY <1>1, <1>4, AccountsAssumption DEF Accounts, Sources
<1>6. \A j \in Projects \ {ProjectOf(s)} : paid'[j] = paid[j]
  BY <1>1 DEF Accounts, ProjectOf
<1>7. ASSUME s \in Sources
      PROVE  paid'[s] <= peak[s]
  <2>1. s \notin Projects
    BY <1>7, AccountsAssumption
  <2>2. pay[p].seen = paid[s] /\ pay[p].limit <= peak[s]
    BY <1>1, <1>7 DEF KnowsTotal
  <2>3. pay[p].seen + pay[p].amount <= pay[p].limit
    BY <2>1 DEF Post, Fits
  <2>4. paid'[s] = paid[s] + pay[p].amount
    BY <1>1
  <2>5. peak[s] \in Nat /\ pay[p].limit \in Nat /\ paid[s] \in Nat
    <3>1. peak[s] \in Nat /\ paid[s] \in Nat
      BY <1>1 DEF PaymentsInv, RowsInv
    <3>2. pay[p].limit \in Nat
      BY <1>1 DEF PayRequest
    <3> QED BY <3>1, <3>2
  <2> QED BY <1>2, <2>2, <2>3, <2>4, <2>5
<1> QED BY <1>3, <1>5, <1>6, <1>7

\* The other requests still know their totals, or have been overtaken.
LEMMA PostKeepsInv ==
  ASSUME PaymentsInv, NEW p \in Requests, Post(p)
  PROVE  PaymentsInv'
<1> DEFINE s == pay[p].s
<1>1. /\ End(p) /\ UNCHANGED <<value, peak>>
      /\ overtaken' = (overtaken \cup Overtakes(p)) \ {p}
      /\ pay[p] \in PayRequest /\ s \in Accounts /\ HoldsKeys(p) /\ pay[p].pc = "post"
  BY DEF Post, PaymentsInv, RequestsInv, OnAnAccount
<1>2. /\ key' \in [Accounts -> Requests \cup {"nobody"}]
      /\ \A a \in Accounts, q \in Requests \ {p} : key[a] = q => key'[a] = q
      /\ pay' = [pay EXCEPT ![p] = Idle] /\ HoldsKeys(p)' /\ KnowsTotal(p)'
  BY <1>1, EndFreesKeys
<1>3. /\ pay' \in [Requests -> PayRequest] /\ pay'[p] = Idle
      /\ \A q \in Requests \ {p} : pay'[q] = pay[q]
  BY <1>2, IdleIsRequest DEF PaymentsInv, RequestsInv
<1>4. RowsInv'
  BY <1>1, <1>2, PostedTotals DEF PaymentsInv, RowsInv
<1>5. PaidWithinPeak'
  BY <1>1, PostedTotals DEF PaymentsInv, PaidWithinPeak
<1>6. ASSUME NEW q \in Requests \ {p}
      PROVE  OnAnAccount(pay[q])' /\ HoldsKeys(q)' /\ KnowsTotal(q)'
  <2>1. /\ pay[q] \in PayRequest /\ OnAnAccount(pay[q]) /\ HoldsKeys(q) /\ KnowsTotal(q)
        /\ pay'[q] = pay[q]
    BY <1>3 DEF PaymentsInv, RequestsInv
  <2>2. pay[q].pc # "idle" => pay[q].s \in Accounts /\ ProjectOf(pay[q].s) \in Accounts
    BY <2>1, ProjectOfAccount DEF OnAnAccount
  <2>3. OnAnAccount(pay[q])' /\ HoldsKeys(q)'
    BY <1>2, <2>1, <2>2 DEF OnAnAccount, HoldsKeys, ProjectOf, Reading
  <2>4. ASSUME pay[q].pc = "post", pay[q].s \in Sources
        PROVE  paid'[pay[q].s] = paid[pay[q].s]
    <3>1. key[pay[q].s] = q
      BY <2>1, <2>4 DEF HoldsKeys, Reading
    <3>2. s \in Sources => key[s] = p
      BY <1>1 DEF HoldsKeys, Reading
    <3>3. pay[q].s # s
      BY <2>4, <3>1, <3>2
    <3> QED BY <2>4, <3>3, PostedTotals
  <2>5. ASSUME pay[q].pc = "post", pay[q].s \in Projects, q \notin overtaken'
        PROVE  paid'[pay[q].s] = paid[pay[q].s] /\ q \notin overtaken
    <3>1. q \notin overtaken /\ q \notin Overtakes(p)
      BY <1>1, <2>5
    <3>2. pay[q].via = "projects"
      BY <2>1, <2>5, AccountsAssumption DEF OnAnAccount, PayRequest, Sources
    <3>3. key[pay[q].s] = q
      BY <2>1, <2>5, <3>2 DEF HoldsKeys, ProjectOf, Reading
    <3>4. CASE pay[q].s = ProjectOf(s)
      <4>1. pay[p].via # "contracts"
        BY <2>5, <3>1, <3>4 DEF Overtakes
      <4>2. pay[p].via = "projects"
        BY <1>1, <4>1 DEF PayRequest
      <4>3. key[ProjectOf(s)] = p
        BY <1>1, <4>2 DEF HoldsKeys, Reading
      <4> QED BY <3>3, <3>4, <4>3
    <3>5. CASE pay[q].s # ProjectOf(s)
      BY <2>5, <3>1, <3>5, PostedTotals
    <3> QED BY <3>4, <3>5
  <2>6. KnowsTotal(q)'
    BY <1>1, <2>1, <2>4, <2>5 DEF KnowsTotal
  <2> QED BY <2>3, <2>6
<1>7. RequestsInv'
  <2>1. OnAnAccount(pay[p])'
    BY <1>3, IdleIsRequest
  <2> QED BY <1>2, <1>3, <1>6, <2>1 DEF RequestsInv
<1> QED BY <1>4, <1>5, <1>7 DEF PaymentsInv
-----------------------------------------------------------------------------
\* Every step of createPayment and every revision keeps the invariant.
LEMMA NextKeepsInv == PaymentsInv /\ [Next]_vars => PaymentsInv'
<1> SUFFICES ASSUME PaymentsInv, [Next]_vars PROVE PaymentsInv'
  OBVIOUS
<1>1. CASE Revise
  BY <1>1, ReviseKeepsInv
<1>2. ASSUME NEW p \in Requests, BeginAny(p) \/ Proceed(p) \/ Abort(p)
      PROVE  PaymentsInv'
  <2>1. CASE BeginAny(p)
    BY <2>1, BeginKeepsInv DEF BeginAny
  <2>2. CASE Proceed(p)
    BY <2>2, TakeProjectKeyKeepsInv, TakeSourceKeyKeepsInv, ReadsKeepInv, PostKeepsInv,
       RefusalsKeepInv DEF Proceed
  <2>3. CASE Abort(p)
    BY <2>3, RefusalsKeepInv
  <2> QED BY <1>2, <2>1, <2>2, <2>3
<1>3. CASE UNCHANGED vars
  BY <1>3 DEF vars, PaymentsInv, RowsInv, RequestsInv, PaidWithinPeak, OnAnAccount,
              HoldsKeys, KnowsTotal, ProjectOf
<1> QED BY <1>1, <1>2, <1>3 DEF Next

\* The invariant holds throughout.
THEOREM PaymentsInvariant == Spec => []PaymentsInv
<1>1. Init => PaymentsInv
  BY InitEstablishesInv
<1>2. PaymentsInv /\ [Next]_vars => PaymentsInv'
  BY NextKeepsInv
<1> QED BY <1>1, <1>2, PTL DEF Spec

\* No contract or quote is paid more than it was ever worth, by either endpoint
\* and however their requests interleave with each other and with revisions.
THEOREM NeverOverpaid == Spec => []PaidWithinPeak
<1>1. PaymentsInv => PaidWithinPeak
  BY DEF PaymentsInv
<1> QED BY <1>1, PaymentsInvariant, PTL

\* A request that pays a project directly is the one that takes the step.
LEMMA PayerPosts ==
  ASSUME PaymentsInv, Next, NEW p \in Requests, PaysDirectly(p)
  PROVE  Post(p)
<1>1. pay[p].pc = "post" /\ pay'[p].pc = "idle" /\ paid' # paid
  BY DEF PaysDirectly
<1>2. ~Revise
  BY <1>1 DEF Revise, CreateContract, ReviseContract, ReviseQuote, ReviseProject, Delete,
              Restore
<1>3. PICK q \in Requests : Post(q)
  <2>1. PICK q \in Requests : BeginAny(q) \/ Proceed(q) \/ Abort(q)
    BY <1>2 DEF Next
  <2>2. Post(q)
    BY <1>1, <2>1 DEF BeginAny, Begin, Proceed, TakeProjectKey, TakeSourceKey, ReadLimit,
                      ReadPaid, Refuse, Abort
  <2> QED BY <2>2
<1>4. CASE q # p
  <2>1. pay'[p] = pay[p]
    BY <1>3, <1>4 DEF Post, End, Sets, PaymentsInv, RequestsInv
  <2> QED BY <1>1, <2>1
<1> QED BY <1>3, <1>4

\* Behind the project's key a direct payment has seen every payment, unless the
\* contracts endpoint made one after the total was read: it fits the estimate.
THEOREM DirectPaymentsFitTheEstimate == Spec => DirectPaymentsFitUnlessOvertaken
<1> DEFINE Fitting(p) == PaysDirectly(p) /\ p \notin overtaken =>
                           paid'[pay[p].s] <= pay[p].limit
<1>1. ASSUME PaymentsInv, Next, NEW p \in Requests
      PROVE  Fitting(p)
  <2> SUFFICES ASSUME PaysDirectly(p), p \notin overtaken
               PROVE  paid'[pay[p].s] <= pay[p].limit
    OBVIOUS
  <2>1. Post(p)
    BY <1>1, PayerPosts
  <2>2. pay[p].s \in Projects /\ pay[p].s \in Accounts /\ pay[p].limit > 0
    BY DEF PaysDirectly, Accounts
  <2>3. /\ pay[p].seen = paid[pay[p].s]
        /\ pay[p] \in PayRequest
    BY <1>1, <2>1, <2>2 DEF PaymentsInv, RequestsInv, KnowsTotal, Post
  <2>4. pay[p].limit \in Nat
    BY <2>3 DEF PayRequest
  <2>5. pay[p].seen + pay[p].amount <= pay[p].limit
    BY <2>1, <2>2, <2>4 DEF Post, Fits
  <2>6. paid'[pay[p].s] = paid[pay[p].s] + pay[p].amount
    BY <2>1, <2>2 DEF Post
  <2> QED BY <2>3, <2>5, <2>6
<1>2. PaymentsInv /\ [Next]_vars => [\A p \in Requests : Fitting(p)]_vars
  BY <1>1
<1>3. Spec => [][\A p \in Requests : Fitting(p)]_vars
  BY <1>2, PaymentsInvariant, PTL DEF Spec
<1> QED BY <1>3 DEF DirectPaymentsFitUnlessOvertaken
=============================================================================

--------------------------- MODULE SalesPipeline ---------------------------
(***************************************************************************)
(* Quotes, contracts and the stage of the project they belong to           *)
(* (quotes.service.ts, contracts.service.ts, projects.service.ts).  Every  *)
(* endpoint reads rows without a lock, decides on what it read, and later  *)
(* writes by id: a transaction at READ COMMITTED does not notice that the  *)
(* rows have changed in between.  A bulk status change is a request per    *)
(* quote, all running at once.  The estimate the same statements write is  *)
(* in module Payments, and so is the removal of projects.                  *)
(***************************************************************************)
EXTENDS Integers, FiniteSets

CONSTANTS
  Projects, Quotes, HomeOf,  \* HomeOf: the project of each quote
  Requests,
  QuoteWishes, ContractWishes, StageWishes, \* the statuses clients ask for
  MaxOvertaken,   \* bound: no request starts once more rows than this are overtaken
  MaxRemoved      \* bound on rows that are soft-deleted

QuoteStatus == {"DRAFT", "SENT", "ACCEPTED", "REJECTED", "EXPIRED"}
ContractStatus == {"ACTIVE", "SUSPENDED", "COMPLETED", "CANCELLED"}
PreSale == {"SURVEY", "QUOTING", "NEGOTIATING"}
Stage == PreSale \cup {"WON", "LOST", "DELIVERING", "COMPLETED"}

ASSUME SalesAssumption ==
  /\ HomeOf \in [Quotes -> Projects]
  /\ QuoteWishes \subseteq QuoteStatus
  /\ ContractWishes \subseteq ContractStatus
  /\ StageWishes \subseteq Stage
ASSUME NoTargetIsNoRow == "nothing" \notin Projects \cup Quotes

VARIABLES
  project,    \* Project rows; stamped: stageChangedAt is the time of the last
              \* change of status; steered: a client has moved it since a contract did
  quote,      \* Quote rows; chosen: acceptedItemIds are none, rows, or rows gone
  contract,   \* the Contract row of each project, and the quote it came from
  req,        \* what each request has read and is going to write
  overtaken   \* history: rows written by a request that had read an older row

vars == <<project, quote, contract, req, overtaken>>

Resting == [op |-> "idle", p |-> "nothing", q |-> "nothing", want |-> "none",
            stage |-> "none", sent |-> FALSE, top |-> 0, read |-> "same"]
NoQuote == [status |-> "none", version |-> 0, sent |-> FALSE, accepted |-> FALSE,
            chosen |-> "none", live |-> TRUE]

Ops == {"idle", "create", "copy", "edit", "send", "status", "sign", "revise", "stage"}

\* Every row and every request has the fields the code gives it.
SalesTypeOK ==
  /\ project \in [Projects -> [status : Stage, stamped : BOOLEAN,
                               steered : BOOLEAN]]
  /\ quote \in [Quotes -> [status : QuoteStatus \cup {"none"}, version : Nat,
                           sent : BOOLEAN, accepted : BOOLEAN,
                           chosen : {"none", "rows", "gone"}, live : BOOLEAN]]
  /\ contract \in [Projects -> [status : ContractStatus \cup {"none"},
                                live : BOOLEAN, source : Quotes \cup {"nothing"}]]
  /\ req \in [Requests -> [op : Ops, p : Projects \cup {"nothing"},
                           q : Quotes \cup {"nothing"},
                           want : QuoteStatus \cup ContractStatus \cup Stage \cup {"none"},
                           stage : Stage \cup {"none"}, sent : BOOLEAN, top : Nat,
                           read : {"same", "written", "edited"}]]
  /\ overtaken \subseteq Projects \cup Quotes

Init ==
  /\ project \in [Projects -> [status : StageWishes, stamped : {TRUE},
                               steered : {FALSE}]]
  /\ quote = [q \in Quotes |-> NoQuote]
  /\ contract = [p \in Projects |->
                   [status |-> "none", live |-> TRUE, source |-> "nothing"]]
  /\ req = [r \in Requests |-> Resting]
  /\ overtaken = {}

-----------------------------------------------------------------------------
(* What the endpoints read, and what they refuse.                          *)

LatestVersion(p) ==
  LET versions == {quote[q].version : q \in {k \in Quotes : HomeOf[k] = p}} \cup {0}
  IN CHOOSE v \in versions : \A w \in versions : w <= v

\* Only what the rest of the request uses is kept.
Reads(r, op, p, q, want) ==
  /\ req[r] = Resting /\ Cardinality(overtaken) <= MaxOvertaken
  /\ req' = [req EXCEPT ![r] = [Resting EXCEPT
       !.op = op, !.p = p, !.q = q, !.want = want,
       !.stage = IF op = "send" THEN "none" ELSE project[p].status,
       !.sent = op \in {"edit", "status"} /\ want # "DRAFT" /\ quote[q].sent,
       !.top = IF op \in {"create", "copy"} THEN LatestVersion(p) ELSE 0]]
  /\ UNCHANGED <<project, quote, contract, overtaken>>

Visible(q) == quote[q].status # "none" /\ quote[q].live

\* quotes.create; the version is read before the advisory lock on the number.
StartCreate(r, p, want) ==
  want \in QuoteWishes /\ Reads(r, "create", p, "nothing", want)

\* quotes.duplicate; a soft-deleted contract refuses it too.
StartCopy(r, q) ==
  /\ Visible(q) /\ contract[HomeOf[q]].status = "none"
  /\ Reads(r, "copy", HomeOf[q], "nothing", "DRAFT")

\* Faulty variant: an accepted quote may be edited as long as it stays accepted.
EditableOrAccepted == {"DRAFT", "REJECTED", "ACCEPTED"}
\* quotes.update.
Editable == {"DRAFT", "REJECTED"}
StartEdit(r, q, want) ==
  /\ Visible(q) /\ quote[q].status \in Editable /\ want \in QuoteWishes
  /\ Reads(r, "edit", HomeOf[q], q, want)

\* quotes.send: the status it will write is settled here, before the PDF and
\* the e-mail.
StartSend(r, q) ==
  /\ Visible(q)
  /\ Reads(r, "send", HomeOf[q], q,
           IF quote[q].status = "DRAFT" THEN "SENT" ELSE quote[q].status)

\* Faulty variant: an accepted quote may be taken back while there is no contract.
MayBecomeAnything(q, want) ==
  contract[HomeOf[q]].status # "none" => want = "ACCEPTED"
\* quotes.updateStatus; asking for the present status does nothing.
MayBecome(q, want) ==
  /\ quote[q].status = "ACCEPTED" => want = "ACCEPTED"
  /\ contract[HomeOf[q]].status # "none" => want = "ACCEPTED"
  /\ quote[q].status = "REJECTED" => want = "DRAFT"
StartStatus(r, q, want) ==
  /\ Visible(q) /\ want \in QuoteWishes \ {quote[q].status}
  /\ MayBecome(q, want)
  /\ Reads(r, "status", HomeOf[q], q, want)

\* Faulty variant: any quote of the project may be the source.
SourcesOffered(p) ==
  {"nothing"} \cup {q \in Quotes : HomeOf[q] = p /\ quote[q].status # "none"}
\* contracts.create; the source is an accepted quote, deleted or not.
SourcesAllowed(p) ==
  {"nothing"} \cup {q \in Quotes : HomeOf[q] = p /\ quote[q].status = "ACCEPTED"}
StartSign(r, p, q, want) ==
  /\ contract[p].status = "none" /\ want \in ContractWishes
  /\ q \in SourcesAllowed(p)
  /\ Reads(r, "sign", p, q, want)

\* contracts.update, with or without a status.
StartRevise(r, p, want) ==
  /\ contract[p].live /\ contract[p].status # "none"
  /\ want \in ContractWishes \cup {"none"}
  /\ Reads(r, "revise", p, "nothing", want)

\* projects.updateStatus, and projects.update with a status.
StartStage(r, p, want) ==
  want \in StageWishes /\ Reads(r, "stage", p, "nothing", want)

-----------------------------------------------------------------------------
(* What they write.                                                        *)

\* The request ends; others that have read quote q hold an old copy of it,
\* of its items too when these were replaced.
Ends(r, q, how) ==
  req' = [o \in Requests |->
            IF o = r THEN Resting
            ELSE IF q # "nothing" /\ req[o].q = q /\ req[o].read # "edited"
                 THEN [req[o] EXCEPT !.read = how] ELSE req[o]]

\* Project.status := to, with or without stageChangedAt := now.
Moved(row, to, stamp) ==
  [row EXCEPT !.status = to, !.stamped = IF to = row.status THEN @ \/ stamp ELSE stamp]
Moves(p, to, stamp) == project' = [project EXCEPT ![p] = Moved(@, to, stamp)]

Late(r) == {k \in {req[r].p} : project[k].status # req[r].stage}

\* Faulty variant: an acceptance makes the project WON whatever its stage.
QuoteStageEager(seen, status) ==
  IF status = "ACCEPTED" THEN "WON"
  ELSE IF seen = "SURVEY" THEN "QUOTING" ELSE seen
\* syncProjectStatusForQuote, on the status that was read.
QuoteStage(seen, status) ==
  IF status = "ACCEPTED" /\ seen \in PreSale THEN "WON"
  ELSE IF status # "ACCEPTED" /\ seen = "SURVEY" THEN "QUOTING" ELSE seen
SyncQuote(r, status) ==
  LET to == QuoteStage(req[r].stage, status) IN
  IF to = req[r].stage THEN UNCHANGED project ELSE Moves(req[r].p, to, TRUE)

\* syncProjectStatusForContract, the same.
ContractStage(status) ==
  CASE status = "COMPLETED" -> "COMPLETED"
    [] status = "CANCELLED" -> "LOST"
    [] status \in {"ACTIVE", "SUSPENDED"} -> "DELIVERING"
SyncContract(r, status) ==
  LET p == req[r].p
      to == ContractStage(status) IN
  project' = [project EXCEPT ![p] =
    [IF to = req[r].stage THEN @ ELSE Moved(@, to, TRUE) EXCEPT !.steered = FALSE]]

\* Faulty variant: a draft that is accepted without being sent gets no acceptedAt.
DatedIfSent(row, status, wasSent) ==
  [row EXCEPT !.status = status,
              !.sent = status \in {"SENT", "ACCEPTED"} \/ (status # "DRAFT" /\ wasSent),
              !.accepted = status = "ACCEPTED" /\ wasSent]
\* resolveQuoteStatusPayload: sentAt and acceptedAt next to a new status.
Dated(row, status, wasSent) ==
  [row EXCEPT !.status = status,
              !.sent = status \in {"SENT", "ACCEPTED"} \/ (status # "DRAFT" /\ wasSent),
              !.accepted = status = "ACCEPTED"]
\* Faulty variant: a copy repeats the version it has read.
SameVersion(r) == IF req[r].op = "copy" THEN req[r].top ELSE req[r].top + 1
\* The row of a new quote, one version after the latest that was read.
NextVersion(r) == req[r].top + 1
WriteNew(r) ==
  /\ req[r].op \in {"create", "copy"}
  /\ \E q \in Quotes :
       /\ quote[q].status = "none" /\ HomeOf[q] = req[r].p
       /\ quote' = [quote EXCEPT ![q] =
            [Dated(NoQuote, req[r].want, FALSE) EXCEPT !.version = NextVersion(r)]]
       /\ overtaken' = overtaken \cup Late(r) \cup
            {k \in {q} : \E o \in Quotes : /\ HomeOf[o] = req[r].p
                                           /\ quote[o].version > req[r].top}
  /\ SyncQuote(r, req[r].want)
  /\ Ends(r, "nothing", "same")
  /\ UNCHANGED contract

StaleQuote(r) == {q \in {req[r].q} : req[r].read # "same"}
LateFor(r) == Late(r) \cup StaleQuote(r)

\* quotes.update replaces the items: acceptedItemIds are not written.
ItemsReplaced(row) == [row EXCEPT !.chosen = IF @ = "rows" THEN "gone" ELSE @]
WriteEdit(r) ==
  /\ req[r].op = "edit"
  /\ quote' = [quote EXCEPT ![req[r].q] =
       ItemsReplaced(Dated(@, req[r].want, req[r].sent))]
  /\ SyncQuote(r, req[r].want)
  /\ Ends(r, req[r].q, "edited")
  /\ overtaken' = overtaken \cup LateFor(r)
  /\ UNCHANGED contract

\* quotes.send: acceptedAt is not written, nor is the project.
WriteSend(r) ==
  /\ req[r].op = "send"
  /\ quote' = [quote EXCEPT ![req[r].q].status = req[r].want, ![req[r].q].sent = TRUE]
  /\ Ends(r, req[r].q, "written")
  /\ overtaken' = overtaken \cup StaleQuote(r)
  /\ UNCHANGED <<project, contract>>

\* quotes.updateStatus names the items of the copy it read.
Chosen(r) ==
  IF req[r].want # "ACCEPTED" THEN "none"
  ELSE IF req[r].read = "edited" THEN "gone" ELSE "rows"
WriteStatus(r) ==
  /\ req[r].op = "status"
  /\ quote' = [quote EXCEPT ![req[r].q] =
       [Dated(@, req[r].want, req[r].sent) EXCEPT !.chosen = Chosen(r)]]
  /\ SyncQuote(r, req[r].want)
  /\ Ends(r, req[r].q, "written")
  /\ overtaken' = overtaken \cup LateFor(r)
  /\ UNCHANGED contract

\* contracts.create: projectId is unique, and the items it copies must exist.
WriteSign(r) ==
  /\ req[r].op = "sign"
  /\ contract[req[r].p].status = "none" /\ req[r].read # "edited"
  /\ contract' = [contract EXCEPT ![req[r].p] =
       [status |-> req[r].want, live |-> TRUE, source |-> req[r].q]]
  /\ SyncContract(r, req[r].want)
  /\ Ends(r, "nothing", "same")
  /\ overtaken' = overtaken \cup Late(r)
  /\ UNCHANGED quote

\* contracts.update: without a status the rule applies to that of the row.
WriteRevise(r) ==
  /\ req[r].op = "revise"
  /\ LET c == contract[req[r].p]
         status == IF req[r].want = "none" THEN c.status ELSE req[r].want IN
     /\ contract' = [contract EXCEPT ![req[r].p].status = status]
     /\ SyncContract(r, status)
  /\ Ends(r, "nothing", "same")
  /\ overtaken' = overtaken \cup Late(r)
  /\ UNCHANGED quote

\* Faulty variant: starting a project over does not stamp it.
StampOnward(r) == req[r].want # req[r].stage /\ req[r].want # "SURVEY"
\* projects.updateStatus: stageChangedAt only if the status differs from that read.
StampFor(r) == req[r].want # req[r].stage
WriteStage(r) ==
  /\ req[r].op = "stage"
  /\ project' = [project EXCEPT ![req[r].p] =
       [Moved(@, req[r].want, StampFor(r)) EXCEPT !.steered = TRUE]]
  /\ Ends(r, "nothing", "same")
  /\ overtaken' = overtaken \cup Late(r)
  /\ UNCHANGED <<quote, contract>>

\* An e-mail that cannot be sent, a unique or foreign key, a lost connection:
\* nothing is written.
Fails(r) ==
  /\ req[r].op # "idle"
  /\ req' = [req EXCEPT ![r] = Resting]
  /\ UNCHANGED <<project, quote, contract, overtaken>>

\* quotes.remove, contracts.remove: one field.
Removed == {q \in Quotes : ~quote[q].live} \cup {p \in Projects : ~contract[p].live}
RemoveQuote(q) ==
  /\ Visible(q) /\ Cardinality(Removed) < MaxRemoved
  /\ quote' = [quote EXCEPT ![q].live = FALSE]
  /\ UNCHANGED <<project, contract, req, overtaken>>
RemoveContract(p) ==
  /\ contract[p].live /\ contract[p].status # "none"
  /\ Cardinality(Removed) < MaxRemoved
  /\ contract' = [contract EXCEPT ![p].live = FALSE]
  /\ UNCHANGED <<project, quote, req, overtaken>>

Starts(r) ==
  \/ \E p \in Projects, want \in QuoteWishes : StartCreate(r, p, want)
  \/ \E q \in Quotes : StartCopy(r, q) \/ StartSend(r, q)
  \/ \E q \in Quotes, want \in QuoteWishes : StartEdit(r, q, want) \/ StartStatus(r, q, want)
  \/ \E p \in Projects, q \in Quotes \cup {"nothing"}, want \in ContractWishes :
       StartSign(r, p, q, want)
  \/ \E p \in Projects, want \in ContractWishes \cup {"none"} : StartRevise(r, p, want)
  \/ \E p \in Projects, want \in StageWishes : StartStage(r, p, want)
Writes(r) ==
  \/ WriteNew(r) \/ WriteEdit(r) \/ WriteSend(r) \/ WriteStatus(r) \/ WriteSign(r)
  \/ WriteRevise(r) \/ WriteStage(r) \/ Fails(r)
Next ==
  \/ \E r \in Requests : Starts(r) \/ Writes(r)
  \/ \E q \in Quotes : RemoveQuote(q)
  \/ \E p \in Projects : RemoveContract(p)

Spec == Init /\ [][Next]_vars

-----------------------------------------------------------------------------
\* A quote that was accepted stays accepted (the refusal of updateStatus,
\* quotes.service.ts:525), whatever else is sent, edited or changed in bulk,
\* except by a request that had read the quote before it was accepted.
AcceptedStaysUnlessOvertaken ==
  [][\A q \in Quotes : quote[q].status = "ACCEPTED" /\ quote'[q].status # "ACCEPTED"
                         => q \in overtaken']_vars

\* The same without the exception.
AcceptedStays ==
  [][\A q \in Quotes : quote[q].status = "ACCEPTED" => quote'[q].status = "ACCEPTED"]_vars

\* sentAt and acceptedAt, which the code writes apart from the status in some
\* endpoints, agree with it: what was sent or accepted has sentAt, and acceptedAt
\* is set exactly while the quote is accepted (the latter unless overtaken).
DatesMatchStatus ==
  \A q \in Quotes :
    /\ quote[q].status \in {"SENT", "ACCEPTED"} => quote[q].sent
    /\ q \in overtaken \/ (quote[q].accepted <=> quote[q].status = "ACCEPTED")

\* acceptedItemIds of an accepted quote name items it still has, although an
\* edit replaces all of them.
ChosenItemsExist ==
  \A q \in Quotes \ overtaken : quote[q].status = "ACCEPTED" => quote[q].chosen # "gone"

\* Two quotes of a project have different versions, unless one was numbered
\* while the other was being inserted.
VersionsDistinct ==
  \A q, k \in Quotes :
    q # k /\ HomeOf[q] = HomeOf[k] /\ quote[q].version = quote[k].version
      => quote[q].version = 0 \/ q \in overtaken \/ k \in overtaken

\* The quote a contract was made from is accepted for good.
ContractFromAcceptedQuote ==
  \A p \in Projects : LET q == contract[p].source IN
    q # "nothing" => quote[q].status = "ACCEPTED" \/ q \in overtaken

\* A project whose contract put it in delivery, completion or loss is where the
\* contract's status says, whatever happens to its quotes, until a client moves
\* it or a request acts on an old stage.
StageFollowsContract ==
  \A p \in Projects \ overtaken :
    contract[p].status # "none" /\ ~project[p].steered
      => project[p].status = ContractStage(contract[p].status)

\* Every change of Project.status comes with stageChangedAt
\* (docs/PROJECT_STRUCTURE.md:108), whichever endpoint makes it, unless the
\* request compared the new status with an old one.
StampedUnlessOvertaken == \A p \in Projects \ overtaken : project[p].stamped
=============================================================================

------------------------ MODULE SalesPipelineProofs ------------------------
(***************************************************************************)
(* Quotes, contracts and stages stay consistent, but for rows that an      *)
(* overtaken request wrote, for any number of projects, quotes, requests   *)
(* and wishes of clients.  The invariant says what a request that has not  *)
(* been overtaken still knows of the quote it read.                        *)
(***************************************************************************)
EXTENDS SalesPipeline, Sums, TLAPS

\* Requests ask for a status of the row they are about.
WantsFit ==
  \A r \in Requests :
    /\ req[r].op \in {"create", "copy", "edit", "send", "status"} => req[r].want \in QuoteStatus
    /\ req[r].op = "sign" => req[r].want \in ContractStatus
    /\ req[r].op = "revise" => req[r].want \in ContractStatus \cup {"none"}
    /\ req[r].op = "stage" => req[r].want \in Stage
    /\ req[r].op # "idle" => req[r].p \in Projects
    /\ req[r].op \notin {"idle", "send"} => req[r].stage \in Stage
    /\ req[r].op \in {"edit", "send", "status"} => req[r].q \in Quotes

\* What they checked still holds, unless the quote has been written since.
StillKnows(r) ==
  LET q == req[r].q IN
  /\ req[r].op \in {"edit", "send", "status"} => quote[q].status # "none"
  /\ req[r].op = "edit" /\ req[r].read = "same" => quote[q].status \in Editable
  /\ req[r].op = "send" /\ req[r].read = "same" =>
       req[r].want = IF quote[q].status = "DRAFT" THEN "SENT" ELSE quote[q].status
  /\ req[r].op = "status" /\ req[r].read = "same" =>
       (quote[q].status = "ACCEPTED" => req[r].want = "ACCEPTED")
  /\ req[r].op = "sign" =>
       q = "nothing" \/ (q \in Quotes /\ (quote[q].status = "ACCEPTED" \/ q \in overtaken))
  /\ req[r].op = "revise" => contract[req[r].p].status # "none"
ChecksHold == \A r \in Requests : StillKnows(r)

\* Items are chosen while a quote is accepted, and only then.
ChosenWhileAccepted ==
  \A q \in Quotes \ overtaken : quote[q].status # "ACCEPTED" => quote[q].chosen = "none"

\* Versions do not grow beyond all bounds: there is a latest one.
VersionsBounded == \E n \in Nat : \A q \in Quotes : quote[q].version <= n

QuotesInv ==
  /\ DatesMatchStatus /\ ChosenItemsExist /\ ChosenWhileAccepted
  /\ VersionsBounded /\ VersionsDistinct
ProjectsInv == StageFollowsContract /\ StampedUnlessOvertaken
SalesInv ==
  /\ SalesTypeOK /\ WantsFit /\ ChecksHold
  /\ QuotesInv /\ ContractFromAcceptedQuote /\ ProjectsInv

-----------------------------------------------------------------------------
(* The latest version.                                                     *)

\* A bounded set of numbers has a greatest one.
LEMMA GreatestNumber ==
  ASSUME NEW T \in SUBSET Nat, T # {}, NEW n \in Nat, \A y \in T : y <= n
  PROVE  \E x \in T : \A y \in T : y <= x
<1> DEFINE Below == {n - y : y \in T}
<1>1. Below \in SUBSET Nat /\ Below # {}
  <2>1. \A y \in T : n - y \in Nat
    OBVIOUS
  <2> QED
    BY <2>1
<1>2. PICK b \in Below : \A c \in Below : b <= c
  BY <1>1, LeastNumber
<1>3. PICK x \in T : b = n - x
  BY <1>2
<1>4. \A y \in T : n - x <= n - y
  BY <1>2, <1>3
<1> QED
  BY <1>4

\* A project has a latest version, or none.
LEMMA LatestIsNumber ==
  ASSUME SalesTypeOK, VersionsBounded, NEW p \in Projects
  PROVE  LatestVersion(p) \in Nat
<1> DEFINE versions == {quote[q].version : q \in {k \in Quotes : HomeOf[k] = p}} \cup {0}
<1>1. versions \in SUBSET Nat /\ versions # {}
  BY DEF SalesTypeOK
<1>2. PICK n \in Nat : \A q \in Quotes : quote[q].version <= n
  BY DEF VersionsBounded
<1>3. \E v \in versions : \A w \in versions : w <= v
  <2>1. \A v \in versions : v <= n
    BY <1>2
  <2> HIDE DEF versions
  <2> QED
    BY <1>1, <2>1, GreatestNumber
<1>4. LatestVersion(p) = CHOOSE v \in versions : \A w \in versions : w <= v
  BY DEF LatestVersion
<1> HIDE DEF versions
<1> QED
  BY <1>1, <1>3, <1>4

-----------------------------------------------------------------------------
(* Reading.                                                                *)

\* Before the first quote.
LEMMA SalesInitInv == Init => SalesInv
<1> SUFFICES ASSUME Init PROVE SalesInv
  OBVIOUS
<1>1. SalesTypeOK
  <2>1. project \in [Projects -> [status : Stage, stamped : BOOLEAN, steered : BOOLEAN]]
    BY SalesAssumption DEF Init
  <2> QED
    BY <2>1 DEF Init, SalesTypeOK, NoQuote, Resting, Ops
<1>2. WantsFit /\ ChecksHold
  BY DEF Init, WantsFit, ChecksHold, StillKnows, Resting
<1>3. QuotesInv
  BY DEF Init, QuotesInv, DatesMatchStatus, ChosenItemsExist, ChosenWhileAccepted,
     VersionsBounded, VersionsDistinct, NoQuote
<1>4. ContractFromAcceptedQuote
  BY DEF Init, ContractFromAcceptedQuote
<1>5. ProjectsInv
  BY SalesAssumption DEF Init, ProjectsInv, StageFollowsContract, StampedUnlessOvertaken
<1> QED
  BY <1>1, <1>2, <1>3, <1>4, <1>5 DEF SalesInv

\* A request keeps what the later steps use, and changes no row.
LEMMA ReadsKeepInv ==
  ASSUME SalesInv, NEW r \in Requests, NEW op \in Ops \ {"idle"}, NEW p \in Projects,
         NEW q \in Quotes \cup {"nothing"}, NEW want, Reads(r, op, p, q, want),
         op \in {"create", "copy", "edit", "send", "status"} => want \in QuoteStatus,
         op = "sign" => want \in ContractStatus,
         op = "revise" => want \in ContractStatus \cup {"none"} /\ contract[p].status # "none",
         op = "stage" => want \in Stage,
         op \in {"edit", "send", "status"} => q \in Quotes /\ quote[q].status # "none",
         op = "edit" => quote[q].status \in Editable,
         op = "send" => want = IF quote[q].status = "DRAFT" THEN "SENT" ELSE quote[q].status,
         op = "status" => (quote[q].status = "ACCEPTED" => want = "ACCEPTED"),
         op = "sign" => q = "nothing" \/ (q \in Quotes /\ quote[q].status = "ACCEPTED")
  PROVE  SalesInv'
<1>0. SalesTypeOK /\ VersionsBounded
  BY DEF SalesInv, QuotesInv
<1>1. want \in QuoteStatus \cup ContractStatus \cup Stage \cup {"none"}
  BY DEF Ops
<1>2. /\ req'[r].op = op /\ req'[r].p = p /\ req'[r].q = q /\ req'[r].want = want
      /\ req'[r].read = "same"
      /\ op # "send" => req'[r].stage = project[p].status
      /\ \A o \in Requests \ {r} : req'[o] = req[o]
      /\ UNCHANGED <<project, quote, contract, overtaken>>
  BY <1>0 DEF Reads, SalesTypeOK, Resting
<1>3. SalesTypeOK'
  <2>1. (op \in {"edit", "status"} /\ want # "DRAFT" /\ quote[q].sent) \in BOOLEAN
    OBVIOUS
  <2>2. LatestVersion(p) \in Nat /\ project[p].status \in Stage
    BY <1>0, LatestIsNumber DEF SalesTypeOK
  <2> QED
    BY <1>0, <1>1, <2>1, <2>2 DEF Reads, SalesTypeOK, Resting
<1>4. WantsFit'
  BY <1>0, <1>2 DEF SalesInv, WantsFit, SalesTypeOK
<1>5. ChecksHold'
  BY <1>2 DEF SalesInv, ChecksHold, StillKnows
<1>6. QuotesInv' /\ ContractFromAcceptedQuote' /\ ProjectsInv'
  BY <1>2 DEF SalesInv, QuotesInv, DatesMatchStatus, ChosenItemsExist, ChosenWhileAccepted,
     VersionsBounded, VersionsDistinct, ContractFromAcceptedQuote, ProjectsInv,
     StageFollowsContract, StampedUnlessOvertaken
<1> QED
  BY <1>3, <1>4, <1>5, <1>6 DEF SalesInv

\* Every endpoint checks what the invariant records.
LEMMA StartsKeepInv == ASSUME SalesInv, NEW r \in Requests, Starts(r) PROVE SalesInv'
<1>0. SalesTypeOK
  BY DEF SalesInv
<1>1. ASSUME NEW p \in Projects, NEW want \in QuoteWishes, StartCreate(r, p, want)
      PROVE  SalesInv'
  BY <1>1, ReadsKeepInv, SalesAssumption DEF StartCreate, Ops
<1>2. ASSUME NEW q \in Quotes, StartCopy(r, q) PROVE SalesInv'
  BY <1>2, ReadsKeepInv, SalesAssumption DEF StartCopy, Ops, QuoteStatus
<1>3. ASSUME NEW q \in Quotes, StartSend(r, q) PROVE SalesInv'
  BY <1>0, <1>3, ReadsKeepInv, SalesAssumption DEF StartSend, Visible, Ops, QuoteStatus, SalesTypeOK
<1>4. ASSUME NEW q \in Quotes, NEW want \in QuoteWishes, StartEdit(r, q, want)
      PROVE  SalesInv'
  BY <1>4, ReadsKeepInv, SalesAssumption DEF StartEdit, Visible, Ops
<1>5. ASSUME NEW q \in Quotes, NEW want \in QuoteWishes, StartStatus(r, q, want)
      PROVE  SalesInv'
  BY <1>5, ReadsKeepInv, SalesAssumption DEF StartStatus, MayBecome, Visible, Ops
<1>6. ASSUME NEW p \in Projects, NEW q \in Quotes \cup {"nothing"}, NEW want \in ContractWishes,
             StartSign(r, p, q, want)
      PROVE  SalesInv'
  BY <1>6, ReadsKeepInv, SalesAssumption DEF StartSign, SourcesAllowed, Ops
<1>7. ASSUME NEW p \in Projects, NEW want \in ContractWishes \cup {"none"},
             StartRevise(r, p, want)
      PROVE  SalesInv'
  BY <1>7, ReadsKeepInv, SalesAssumption DEF StartRevise, Ops
<1>8. ASSUME NEW p \in Projects, NEW want \in StageWishes, StartStage(r, p, want)
      PROVE  SalesInv'
  BY <1>8, ReadsKeepInv, SalesAssumption DEF StartStage, Ops
<1> QED
  BY <1>1, <1>2, <1>3, <1>4, <1>5, <1>6, <1>7, <1>8 DEF Starts

-----------------------------------------------------------------------------
(* Writing: what the others still know.                                    *)

ReqTypes == [Requests -> [op : Ops, p : Projects \cup {"nothing"},
                          q : Quotes \cup {"nothing"},
                          want : QuoteStatus \cup ContractStatus \cup Stage \cup {"none"},
                          stage : Stage \cup {"none"}, sent : BOOLEAN, top : Nat,
                          read : {"same", "written", "edited"}]]

\* Whoever still has a fresh copy of a quote has a copy of one that the step
\* has not written; and no quote or contract goes back to not being there.
LEMMA OthersStillKnow ==
  ASSUME SalesInv, NEW r \in Requests, NEW q, NEW how \in {"same", "written", "edited"},
         Ends(r, q, how), q # "nothing" => how # "same",
         overtaken \subseteq overtaken',
         \A k \in Quotes : quote[k].status # "none" /\ k # q => quote'[k].status = quote[k].status,
         \A k \in Quotes : quote[k].status # "none" => quote'[k].status # "none",
         \A k \in Quotes : quote[k].status = "ACCEPTED" =>
                             quote'[k].status = "ACCEPTED" \/ k \in overtaken',
         \A p \in Projects : contract[p].status # "none" => contract'[p].status # "none"
  PROVE  req' \in ReqTypes /\ WantsFit' /\ ChecksHold'
<1>0. SalesTypeOK
  BY DEF SalesInv
<1>1. req' \in ReqTypes
  <2> DEFINE kept == [op : Ops, p : Projects \cup {"nothing"}, q : Quotes \cup {"nothing"},
                      want : QuoteStatus \cup ContractStatus \cup Stage \cup {"none"},
                      stage : Stage \cup {"none"}, sent : BOOLEAN, top : Nat,
                      read : {"same", "written", "edited"}]
  <2>1. ASSUME NEW o \in Requests PROVE req[o] \in kept /\ [req[o] EXCEPT !.read = how] \in kept
    <3>1. req[o] \in kept
      BY <1>0 DEF SalesTypeOK
    <3> QED
      BY <3>1
  <2>2. Resting \in kept
    BY DEF Resting, Ops
  <2> HIDE DEF kept
  <2>3. req' \in [Requests -> kept]
    BY <2>1, <2>2 DEF Ends
  <2> QED
    BY <2>3 DEF kept, ReqTypes
<1>2. \A o \in Requests :
        \/ req'[o] = Resting
        \/ /\ req'[o].op = req[o].op /\ req'[o].p = req[o].p /\ req'[o].q = req[o].q
           /\ req'[o].want = req[o].want /\ req'[o].stage = req[o].stage
           /\ req'[o].read = "same" => req[o].read = "same" /\ (q # "nothing" => req[o].q # q)
  BY <1>0 DEF SalesTypeOK, Ends
<1>3. WantsFit'
  BY <1>2 DEF SalesInv, WantsFit, Resting
<1>4. ChecksHold'
  <2> SUFFICES ASSUME NEW o \in Requests, req'[o] # Resting
               PROVE  StillKnows(o)'
    BY DEF ChecksHold, StillKnows, Resting
  <2>1. StillKnows(o)
    BY DEF SalesInv, ChecksHold
  <2>2. /\ req[o].op \in {"edit", "send", "status"} => req[o].q \in Quotes /\ req[o].q # "nothing"
        /\ req[o].op = "revise" => req[o].p \in Projects
    BY NoTargetIsNoRow DEF SalesInv, WantsFit
  <2> QED
    BY <1>2, <2>1, <2>2 DEF StillKnows
<1> QED
  BY <1>1, <1>3, <1>4

\* A contract keeps its source.
LEMMA SourcesStay ==
  ASSUME SalesInv, overtaken \subseteq overtaken',
         \A k \in Quotes : quote[k].status = "ACCEPTED" =>
                             quote'[k].status = "ACCEPTED" \/ k \in overtaken',
         \A p \in Projects : contract'[p].source = contract[p].source
  PROVE  ContractFromAcceptedQuote'
BY DEF SalesInv, SalesTypeOK, ContractFromAcceptedQuote

-----------------------------------------------------------------------------
(* Writing: the stage of the project.                                      *)

ProjectRows == [status : Stage, stamped : BOOLEAN, steered : BOOLEAN]
ProjectTypes == [Projects -> ProjectRows]

\* The row of a project whose stage is set.
LEMMA MovedRow ==
  ASSUME NEW row \in ProjectRows, NEW to \in Stage, NEW stamp \in BOOLEAN
  PROVE  /\ Moved(row, to, stamp) \in ProjectRows
         /\ Moved(row, to, stamp).status = to
         /\ Moved(row, to, stamp).steered = row.steered
         /\ Moved(row, to, stamp).stamped = IF to = row.status THEN row.stamped \/ stamp ELSE stamp
BY DEF Moved, ProjectRows

\* What syncing the stage of a project with a quote does to the projects.
LEMMA QuoteMovesStage ==
  ASSUME SalesInv, NEW r \in Requests, NEW status \in QuoteStatus,
         req[r].op \in {"create", "copy", "edit", "status"},
         SyncQuote(r, status), overtaken \cup Late(r) \subseteq overtaken', contract' = contract
  PROVE  project' \in ProjectTypes /\ ProjectsInv'
<1> DEFINE p == req[r].p
           to == QuoteStage(req[r].stage, status)
<1>0. SalesTypeOK /\ p \in Projects /\ req[r].stage \in Stage
  BY DEF SalesInv, WantsFit
<1>1. to \in Stage
  BY <1>0 DEF QuoteStage, Stage, PreSale
<1>2. CASE to = req[r].stage
  <2>1. project' = project /\ project \in ProjectTypes
    BY <1>0, <1>2 DEF SyncQuote, SalesTypeOK, ProjectTypes, ProjectRows
  <2>2. StageFollowsContract'
    BY <2>1 DEF SalesInv, ProjectsInv, StageFollowsContract
  <2>3. StampedUnlessOvertaken'
    BY <2>1 DEF SalesInv, ProjectsInv, StampedUnlessOvertaken
  <2> QED
    BY <2>1, <2>2, <2>3 DEF ProjectsInv
<1>3. CASE to # req[r].stage
  <2>1. /\ project' \in ProjectTypes
        /\ \A k \in Projects \ {p} : project'[k] = project[k]
        /\ project'[p].steered = project[p].steered
        /\ to # project[p].status => project'[p].stamped
    <3>1. project[p] \in ProjectRows /\ project' = [project EXCEPT ![p] = Moved(project[p], to, TRUE)]
      BY <1>0, <1>3 DEF SyncQuote, Moves, SalesTypeOK, ProjectRows
    <3> DEFINE moved == Moved(project[p], to, TRUE)
    <3>2. /\ moved \in ProjectRows /\ moved.status = to
          /\ moved.steered = project[p].steered
          /\ to # project[p].status => moved.stamped
      <4>1. TRUE \in BOOLEAN
        OBVIOUS
      <4> QED
        BY <1>1, <3>1, <4>1, MovedRow
    <3> HIDE DEF moved
    <3>3. project \in [Projects -> ProjectRows] /\ project' = [project EXCEPT ![p] = moved]
      BY <1>0, <3>1 DEF SalesTypeOK, ProjectRows, moved
    <3> QED
      BY <1>0, <3>2, <3>3 DEF ProjectTypes
  <2>2. p \notin overtaken' => project[p].status = req[r].stage
    BY DEF Late
  <2>3. contract[p].status # "none" /\ project[p].status = ContractStage(contract[p].status) =>
          project[p].status \notin PreSale
    BY <1>0 DEF SalesTypeOK, ContractStatus, ContractStage, PreSale
  <2>4. req[r].stage \notin PreSale => to = req[r].stage
    BY DEF QuoteStage, PreSale
  <2>5. StageFollowsContract'
    BY <1>3, <2>1, <2>2, <2>3, <2>4 DEF SalesInv, ProjectsInv, StageFollowsContract
  <2>6. StampedUnlessOvertaken'
    BY <1>3, <2>1, <2>2 DEF SalesInv, ProjectsInv, StampedUnlessOvertaken
  <2> QED
    BY <2>1, <2>5, <2>6 DEF ProjectsInv
<1> QED
  BY <1>2, <1>3

\* The same with a contract.
LEMMA ContractMovesStage ==
  ASSUME SalesInv, NEW r \in Requests, NEW status \in ContractStatus,
         req[r].op \in {"sign", "revise"},
         SyncContract(r, status), overtaken \cup Late(r) \subseteq overtaken',
         contract'[req[r].p].status = status,
         \A k \in Projects \ {req[r].p} : contract'[k] = contract[k]
  PROVE  project' \in ProjectTypes /\ ProjectsInv'
<1> DEFINE p == req[r].p
           to == ContractStage(status)
<1>0. SalesTypeOK /\ p \in Projects
  BY DEF SalesInv, WantsFit
<1>1. to \in Stage
  BY DEF ContractStage, ContractStatus, Stage
<1>2. /\ project' \in ProjectTypes
      /\ \A k \in Projects \ {p} : project'[k] = project[k]
      /\ project'[p].status = IF to = req[r].stage THEN project[p].status ELSE to
      /\ \/ project'[p].stamped
         \/ project'[p].stamped = project[p].stamped /\ to = req[r].stage
  <2> DEFINE moved == IF to = req[r].stage THEN project[p] ELSE Moved(project[p], to, TRUE)
  <2>1. project[p] \in ProjectRows
    BY <1>0 DEF SalesTypeOK, ProjectRows
  <2>2. /\ moved \in ProjectRows
        /\ moved.status = IF to = req[r].stage THEN project[p].status ELSE to
        /\ moved.stamped \/ (moved.stamped = project[p].stamped /\ to = req[r].stage)
    <3>1. TRUE \in BOOLEAN
      OBVIOUS
    <3>2. /\ Moved(project[p], to, TRUE) \in ProjectRows
          /\ Moved(project[p], to, TRUE).status = to
          /\ Moved(project[p], to, TRUE).stamped
      BY <1>1, <2>1, <3>1, MovedRow
    <3> QED
      BY <2>1, <3>2
  <2>3. project' = [project EXCEPT ![p] = [moved EXCEPT !.steered = FALSE]]
    BY DEF SyncContract
  <2> HIDE DEF moved
  <2>4. [moved EXCEPT !.steered = FALSE] \in ProjectRows
    BY <2>2 DEF ProjectRows
  <2> QED
    BY <1>0, <2>2, <2>3, <2>4 DEF SalesTypeOK, ProjectTypes, ProjectRows
<1>3. p \notin overtaken' => project[p].status = req[r].stage
  BY DEF Late
<1>4. StageFollowsContract'
  BY <1>2, <1>3 DEF SalesInv, ProjectsInv, StageFollowsContract
<1>5. StampedUnlessOvertaken'
  BY <1>0, <1>2, <1>3 DEF SalesInv, ProjectsInv, StampedUnlessOvertaken
<1> QED
  BY <1>2, <1>4, <1>5 DEF ProjectsInv

-----------------------------------------------------------------------------
(* Writing: a row of a quote.                                              *)

QuoteRows == [status : QuoteStatus \cup {"none"}, version : Nat, sent : BOOLEAN,
              accepted : BOOLEAN, chosen : {"none", "rows", "gone"}, live : BOOLEAN]
QuoteTypes == [Quotes -> QuoteRows]

\* What a row has to satisfy is all that has to be shown of the one written.
LEMMA OneRowWritten ==
  ASSUME SalesInv, overtaken \subseteq overtaken', NEW k \in Quotes, NEW row \in QuoteRows,
         quote' = [quote EXCEPT ![k] = row],
         row.status \in {"SENT", "ACCEPTED"} => row.sent,
         \/ k \in overtaken'
         \/ /\ row.accepted <=> row.status = "ACCEPTED"
            /\ row.status = "ACCEPTED" => row.chosen # "gone"
            /\ row.status # "ACCEPTED" => row.chosen = "none",
         \/ row.version = quote[k].version
         \/ k \in overtaken'
         \/ \A o \in Quotes : HomeOf[o] = HomeOf[k] => quote[o].version < row.version
  PROVE  quote' \in QuoteTypes /\ QuotesInv'
<1>0. SalesTypeOK
  BY DEF SalesInv
<1>1. /\ quote'[k] = row /\ quote' \in QuoteTypes
      /\ \A o \in Quotes \ {k} : quote'[o] = quote[o]
  BY <1>0 DEF SalesTypeOK, QuoteTypes, QuoteRows
<1>2. DatesMatchStatus'
  <2> SUFFICES ASSUME NEW o \in Quotes
               PROVE  /\ quote'[o].status \in {"SENT", "ACCEPTED"} => quote'[o].sent
                      /\ \/ o \in overtaken'
                         \/ quote'[o].accepted <=> quote'[o].status = "ACCEPTED"
    BY DEF DatesMatchStatus
  <2>1. CASE o = k
    BY <1>1, <2>1
  <2>2. CASE o # k
    BY <1>1, <2>2 DEF SalesInv, QuotesInv, DatesMatchStatus
  <2> QED
    BY <2>1, <2>2
<1>3. ChosenItemsExist' /\ ChosenWhileAccepted'
  <2> SUFFICES ASSUME NEW o \in Quotes \ overtaken'
               PROVE  /\ quote'[o].status = "ACCEPTED" => quote'[o].chosen # "gone"
                      /\ quote'[o].status # "ACCEPTED" => quote'[o].chosen = "none"
    BY DEF ChosenItemsExist, ChosenWhileAccepted
  <2>1. CASE o = k
    BY <1>1, <2>1
  <2>2. CASE o # k
    BY <1>1, <2>2 DEF SalesInv, QuotesInv, ChosenItemsExist, ChosenWhileAccepted
  <2> QED
    BY <2>1, <2>2
<1>4. VersionsBounded'
  <2>1. PICK n \in Nat : \A o \in Quotes : quote[o].version <= n
    BY DEF SalesInv, QuotesInv, VersionsBounded
  <2>2. PICK m \in Nat : n <= m /\ row.version <= m
    <3>1. n + row.version \in Nat /\ row.version \in Nat
      BY DEF QuoteRows
    <3> QED
      BY <3>1
  <2>3. \A o \in Quotes : quote[o].version \in Nat
    BY <1>0 DEF SalesTypeOK
  <2>4. \A o \in Quotes : quote'[o].version <= m
    BY <1>1, <2>1, <2>2, <2>3
  <2> QED
    BY <2>4 DEF VersionsBounded
<1>5. VersionsDistinct'
  <2>1. \A o \in Quotes : quote[o].version \in Nat
    BY <1>0 DEF SalesTypeOK
  <2>2. row.version \in Nat
    BY DEF QuoteRows
  <2> QED
    BY <1>1, <2>1, <2>2 DEF SalesInv, QuotesInv, VersionsDistinct
<1> QED
  BY <1>1, <1>2, <1>3, <1>4, <1>5 DEF QuotesInv

\* The row of a quote whose status is set.
LEMMA DatedRow ==
  ASSUME NEW row \in QuoteRows, NEW status \in QuoteStatus, NEW wasSent \in BOOLEAN
  PROVE  /\ Dated(row, status, wasSent) \in QuoteRows
         /\ Dated(row, status, wasSent).status = status
         /\ status \in {"SENT", "ACCEPTED"} => Dated(row, status, wasSent).sent
         /\ Dated(row, status, wasSent).accepted <=> status = "ACCEPTED"
         /\ Dated(row, status, wasSent).chosen = row.chosen
         /\ Dated(row, status, wasSent).version = row.version
BY DEF Dated, QuoteRows

-----------------------------------------------------------------------------
(* The endpoints, one by one.                                              *)

\* What they have in common: no row of a quote or a contract goes away, and a
\* quote leaves ACCEPTED only if it counts as overtaken.
LEMMA WriteTogether ==
  ASSUME SalesInv, NEW r \in Requests, NEW q, NEW how \in {"same", "written", "edited"},
         Ends(r, q, how), q # "nothing" => how # "same",
         overtaken \subseteq overtaken', overtaken' \subseteq Projects \cup Quotes,
         quote' \in QuoteTypes, QuotesInv', project' \in ProjectTypes, ProjectsInv',
         contract' \in [Projects -> [status : ContractStatus \cup {"none"},
                                     live : BOOLEAN, source : Quotes \cup {"nothing"}]],
         \A k \in Quotes : quote[k].status # "none" /\ k # q => quote'[k].status = quote[k].status,
         \A k \in Quotes : quote[k].status # "none" => quote'[k].status # "none",
         \A k \in Quotes : quote[k].status = "ACCEPTED" =>
                             quote'[k].status = "ACCEPTED" \/ k \in overtaken',
         \A p \in Projects : contract[p].status # "none" => contract'[p].status # "none",
         ContractFromAcceptedQuote'
  PROVE  SalesInv'
<1>1. req' \in ReqTypes /\ WantsFit' /\ ChecksHold'
  BY OthersStillKnow
<1>2. SalesTypeOK'
  BY <1>1 DEF SalesTypeOK, QuoteTypes, QuoteRows, ProjectTypes, ProjectRows, ReqTypes
<1> QED
  BY <1>1, <1>2 DEF SalesInv

\* Facts of the request that the lemmas below start from.
LEMMA RequestFacts ==
  ASSUME SalesInv, NEW r \in Requests, req[r].op # "idle"
  PROVE  /\ req[r].p \in Projects /\ Late(r) \subseteq Projects
         /\ req[r].sent \in BOOLEAN /\ req[r].top \in Nat
         /\ overtaken \subseteq Projects \cup Quotes
         /\ req[r].op \in {"create", "copy", "edit", "send", "status"} =>
              req[r].want \in QuoteStatus
         /\ req[r].op \in {"edit", "send", "status"} =>
              /\ req[r].q \in Quotes /\ StaleQuote(r) \subseteq Quotes
              /\ quote[req[r].q].status # "none"
         /\ \A k \in Quotes : quote[k] \in QuoteRows
<1>1. req[r].p \in Projects
  BY DEF SalesInv, WantsFit
<1> QED
  BY <1>1 DEF SalesInv, SalesTypeOK, WantsFit, ChecksHold, StillKnows, Late, StaleQuote, QuoteRows

\* A new quote: a row that was not there, with a version above those read.
LEMMA WriteNewKeepsInv ==
  ASSUME SalesInv, NEW r \in Requests, WriteNew(r)
  PROVE  SalesInv' /\ \A k \in Quotes : quote[k].status = "ACCEPTED" => quote'[k].status = "ACCEPTED"
<1>0. SalesTypeOK /\ req[r].op # "idle" /\ req[r].op \in {"create", "copy"}
  BY DEF SalesInv, WriteNew
<1>1. /\ req[r].p \in Projects /\ Late(r) \subseteq Projects /\ req[r].top \in Nat
      /\ overtaken \subseteq Projects \cup Quotes /\ req[r].want \in QuoteStatus
  BY <1>0, RequestFacts
<1>2. PICK k \in Quotes :
        /\ quote[k].status = "none" /\ HomeOf[k] = req[r].p
        /\ quote' = [quote EXCEPT ![k] =
             [Dated(NoQuote, req[r].want, FALSE) EXCEPT !.version = NextVersion(r)]]
        /\ overtaken' = overtaken \cup Late(r) \cup
             {j \in {k} : \E o \in Quotes : /\ HomeOf[o] = req[r].p
                                            /\ quote[o].version > req[r].top}
  BY DEF WriteNew
<1> DEFINE dated == Dated(NoQuote, req[r].want, FALSE)
           row == [dated EXCEPT !.version = NextVersion(r)]
<1>3. /\ dated \in QuoteRows /\ dated.status = req[r].want /\ dated.chosen = "none"
      /\ dated.status \in {"SENT", "ACCEPTED"} => dated.sent
      /\ dated.accepted <=> dated.status = "ACCEPTED"
  BY <1>1 DEF Dated, NoQuote, QuoteRows
<1>4. quote' = [quote EXCEPT ![k] = row]
  BY <1>2
<1> HIDE DEF dated
<1>5. /\ row \in QuoteRows /\ row.status = req[r].want /\ row.chosen = "none"
      /\ row.status \in {"SENT", "ACCEPTED"} => row.sent
      /\ row.accepted <=> row.status = "ACCEPTED"
      /\ row.version = req[r].top + 1
  BY <1>1, <1>3 DEF QuoteRows, NextVersion
<1> HIDE DEF row
<1>6. k \in overtaken' \/ \A o \in Quotes : HomeOf[o] = HomeOf[k] => quote[o].version < row.version
  <2>1. \A o \in Quotes : quote[o].version \in Nat
    BY <1>0 DEF SalesTypeOK
  <2> QED
    BY <1>1, <1>2, <1>5, <2>1
<1>7. quote' \in QuoteTypes /\ QuotesInv'
  BY <1>2, <1>4, <1>5, <1>6, OneRowWritten
<1>8. project' \in ProjectTypes /\ ProjectsInv'
  BY <1>0, <1>1, <1>2, QuoteMovesStage DEF WriteNew
<1>9. /\ overtaken \subseteq overtaken' /\ overtaken' \subseteq Projects \cup Quotes
      /\ Ends(r, "nothing", "same") /\ contract' = contract
  BY <1>1, <1>2 DEF WriteNew
<1>10. /\ \A j \in Quotes : quote[j].status # "none" => quote'[j].status = quote[j].status
       /\ \A j \in Quotes : quote[j].status = "ACCEPTED" => quote'[j].status = "ACCEPTED"
  BY <1>0, <1>2, <1>4 DEF SalesTypeOK
<1>11. ContractFromAcceptedQuote'
  BY <1>9, <1>10, SourcesStay
<1> QED
  BY <1>0, <1>7, <1>8, <1>9, <1>10, <1>11, WriteTogether DEF SalesTypeOK

\* quotes.update: a copy that is still fresh is not of an accepted quote.
LEMMA WriteEditKeepsInv ==
  ASSUME SalesInv, NEW r \in Requests, WriteEdit(r)
  PROVE  SalesInv' /\ \A k \in Quotes : quote[k].status = "ACCEPTED" =>
                                       quote'[k].status = "ACCEPTED" \/ k \in overtaken'
<1> DEFINE k == req[r].q
           dated == Dated(quote[k], req[r].want, req[r].sent)
           row == ItemsReplaced(dated)
<1>0. SalesTypeOK /\ req[r].op = "edit" /\ req[r].op # "idle"
  BY DEF SalesInv, WriteEdit
<1>1. /\ req[r].p \in Projects /\ Late(r) \subseteq Projects /\ StaleQuote(r) \subseteq Quotes
      /\ overtaken \subseteq Projects \cup Quotes /\ req[r].want \in QuoteStatus
      /\ req[r].sent \in BOOLEAN /\ k \in Quotes /\ quote[k] \in QuoteRows
      /\ quote[k].status # "none"
  BY <1>0, RequestFacts
<1>2. /\ overtaken' = overtaken \cup LateFor(r) /\ Ends(r, k, "edited") /\ contract' = contract
      /\ overtaken \cup Late(r) \subseteq overtaken' /\ overtaken' \subseteq Projects \cup Quotes
      /\ k \notin overtaken' => req[r].read = "same" /\ k \notin overtaken
  BY <1>1 DEF WriteEdit, LateFor, StaleQuote
<1>3. quote' = [quote EXCEPT ![k] = row]
  BY DEF WriteEdit
<1>4. /\ dated \in QuoteRows /\ dated.status = req[r].want /\ dated.chosen = quote[k].chosen
      /\ dated.version = quote[k].version
      /\ dated.status \in {"SENT", "ACCEPTED"} => dated.sent
      /\ dated.accepted <=> dated.status = "ACCEPTED"
  BY <1>1, DatedRow
<1> HIDE DEF dated
<1>5. /\ row \in QuoteRows /\ row.status = req[r].want /\ row.version = quote[k].version
      /\ quote[k].chosen = "none" => row.chosen = "none"
      /\ row.status \in {"SENT", "ACCEPTED"} => row.sent
      /\ row.accepted <=> row.status = "ACCEPTED"
  BY <1>4 DEF QuoteRows, ItemsReplaced
<1> HIDE DEF row
<1>6. k \notin overtaken' => quote[k].status # "ACCEPTED" /\ quote[k].chosen = "none"
  <2>1. req[r].read = "same" => quote[k].status # "ACCEPTED"
    BY <1>0 DEF SalesInv, ChecksHold, StillKnows, Editable
  <2> QED
    BY <1>1, <1>2, <2>1 DEF SalesInv, QuotesInv, ChosenWhileAccepted
<1>7. quote' \in QuoteTypes /\ QuotesInv'
  BY <1>1, <1>2, <1>3, <1>5, <1>6, OneRowWritten
<1>8. project' \in ProjectTypes /\ ProjectsInv'
  BY <1>0, <1>1, <1>2, QuoteMovesStage DEF WriteEdit
<1>9. /\ \A j \in Quotes \ {k} : quote'[j] = quote[j]
      /\ quote'[k].status \in QuoteStatus
  BY <1>0, <1>1, <1>3, <1>5 DEF SalesTypeOK
<1>10. \A j \in Quotes : quote[j].status = "ACCEPTED" =>
                           quote'[j].status = "ACCEPTED" \/ j \in overtaken'
  BY <1>6, <1>9
<1>11. ContractFromAcceptedQuote'
  BY <1>2, <1>10, SourcesStay
<1>12. /\ \A j \in Quotes : quote[j].status # "none" /\ j # k => quote'[j].status = quote[j].status
       /\ \A j \in Quotes : quote[j].status # "none" => quote'[j].status # "none"
  BY <1>9 DEF QuoteStatus
<1>13. overtaken \subseteq overtaken' /\ "edited" # "same"
  BY <1>2
<1> HIDE DEF k
<1> QED
  BY <1>0, <1>2, <1>7, <1>8, <1>10, <1>11, <1>12, <1>13, WriteTogether DEF SalesTypeOK

\* quotes.send: a copy that is still fresh tells the status.
LEMMA WriteSendKeepsInv ==
  ASSUME SalesInv, NEW r \in Requests, WriteSend(r)
  PROVE  SalesInv' /\ \A k \in Quotes : quote[k].status = "ACCEPTED" =>
                                       quote'[k].status = "ACCEPTED" \/ k \in overtaken'
<1> DEFINE k == req[r].q
           row == [quote[k] EXCEPT !.status = req[r].want, !.sent = TRUE]
<1>0. SalesTypeOK /\ req[r].op = "send" /\ req[r].op # "idle"
  BY DEF SalesInv, WriteSend
<1>1. /\ StaleQuote(r) \subseteq Quotes /\ overtaken \subseteq Projects \cup Quotes
      /\ req[r].want \in QuoteStatus /\ k \in Quotes /\ quote[k] \in QuoteRows
      /\ quote[k].status # "none"
  BY <1>0, RequestFacts
<1>2. /\ Ends(r, k, "written") /\ UNCHANGED <<project, contract>>
      /\ overtaken \subseteq overtaken' /\ overtaken' \subseteq Projects \cup Quotes
      /\ k \notin overtaken' => req[r].read = "same" /\ k \notin overtaken
  BY <1>1 DEF WriteSend, StaleQuote
<1>3. quote' = [quote EXCEPT ![k] = row]
  BY <1>0, <1>1 DEF WriteSend, SalesTypeOK
<1>4. /\ row \in QuoteRows /\ row.status = req[r].want /\ row.version = quote[k].version
      /\ row.chosen = quote[k].chosen /\ row.sent
      /\ row.accepted <=> quote[k].accepted
  BY <1>1 DEF QuoteRows
<1> HIDE DEF row
<1>5. k \notin overtaken' =>
        /\ (req[r].want = "ACCEPTED") <=> (quote[k].status = "ACCEPTED")
        /\ quote[k].accepted <=> quote[k].status = "ACCEPTED"
        /\ quote[k].status = "ACCEPTED" => quote[k].chosen # "gone"
        /\ quote[k].status # "ACCEPTED" => quote[k].chosen = "none"
  <2>1. req[r].read = "same" => ((req[r].want = "ACCEPTED") <=> (quote[k].status = "ACCEPTED"))
    BY <1>0 DEF SalesInv, ChecksHold, StillKnows
  <2> QED
    BY <1>1, <1>2, <2>1 DEF SalesInv, QuotesInv, DatesMatchStatus, ChosenItemsExist,
       ChosenWhileAccepted
<1>6. quote' \in QuoteTypes /\ QuotesInv'
  BY <1>1, <1>2, <1>3, <1>4, <1>5, OneRowWritten
<1>7. project' \in ProjectTypes /\ ProjectsInv'
  BY <1>0, <1>2 DEF SalesInv, SalesTypeOK, ProjectTypes, ProjectRows, ProjectsInv,
     StageFollowsContract, StampedUnlessOvertaken
<1>8. /\ \A j \in Quotes \ {k} : quote'[j] = quote[j]
      /\ quote'[k].status = req[r].want
  BY <1>0, <1>1, <1>3, <1>4 DEF SalesTypeOK
<1>9. \A j \in Quotes : quote[j].status = "ACCEPTED" =>
                          quote'[j].status = "ACCEPTED" \/ j \in overtaken'
  BY <1>5, <1>8
<1>10. ContractFromAcceptedQuote'
  BY <1>2, <1>9, SourcesStay
<1>11. /\ \A j \in Quotes : quote[j].status # "none" /\ j # k => quote'[j].status = quote[j].status
       /\ \A j \in Quotes : quote[j].status # "none" => quote'[j].status # "none"
  BY <1>1, <1>8 DEF QuoteStatus
<1>12. "written" # "same"
  OBVIOUS
<1> HIDE DEF k
<1> QED
  BY <1>0, <1>2, <1>6, <1>7, <1>9, <1>10, <1>11, <1>12, WriteTogether DEF SalesTypeOK

\* quotes.updateStatus: a copy that is still fresh allowed the change, and its
\* items are there.
LEMMA WriteStatusKeepsInv ==
  ASSUME SalesInv, NEW r \in Requests, WriteStatus(r)
  PROVE  SalesInv' /\ \A k \in Quotes : quote[k].status = "ACCEPTED" =>
                                       quote'[k].status = "ACCEPTED" \/ k \in overtaken'
<1> DEFINE k == req[r].q
           dated == Dated(quote[k], req[r].want, req[r].sent)
           row == [dated EXCEPT !.chosen = Chosen(r)]
<1>0. SalesTypeOK /\ req[r].op = "status" /\ req[r].op # "idle"
  BY DEF SalesInv, WriteStatus
<1>1. /\ req[r].p \in Projects /\ Late(r) \subseteq Projects /\ StaleQuote(r) \subseteq Quotes
      /\ overtaken \subseteq Projects \cup Quotes /\ req[r].want \in QuoteStatus
      /\ req[r].sent \in BOOLEAN /\ k \in Quotes /\ quote[k] \in QuoteRows
      /\ quote[k].status # "none"
  BY <1>0, RequestFacts
<1>2. /\ overtaken' = overtaken \cup LateFor(r) /\ Ends(r, k, "written") /\ contract' = contract
      /\ overtaken \cup Late(r) \subseteq overtaken' /\ overtaken' \subseteq Projects \cup Quotes
      /\ overtaken \subseteq overtaken'
      /\ k \notin overtaken' => req[r].read = "same"
  BY <1>1 DEF WriteStatus, LateFor, StaleQuote
<1>3. quote' = [quote EXCEPT ![k] = row]
  BY DEF WriteStatus
<1>4. /\ dated \in QuoteRows /\ dated.status = req[r].want
      /\ dated.version = quote[k].version
      /\ dated.status \in {"SENT", "ACCEPTED"} => dated.sent
      /\ dated.accepted <=> dated.status = "ACCEPTED"
  BY <1>1, DatedRow
<1> HIDE DEF dated
<1>5. /\ row \in QuoteRows /\ row.status = req[r].want /\ row.version = quote[k].version
      /\ row.status # "ACCEPTED" => row.chosen = "none"
      /\ row.status = "ACCEPTED" /\ req[r].read = "same" => row.chosen # "gone"
      /\ row.status \in {"SENT", "ACCEPTED"} => row.sent
      /\ row.accepted <=> row.status = "ACCEPTED"
  BY <1>4 DEF QuoteRows, Chosen
<1> HIDE DEF row
<1>6. quote' \in QuoteTypes /\ QuotesInv'
  BY <1>1, <1>2, <1>3, <1>5, OneRowWritten
<1>7. project' \in ProjectTypes /\ ProjectsInv'
  BY <1>0, <1>1, <1>2, QuoteMovesStage DEF WriteStatus
<1>8. /\ \A j \in Quotes \ {k} : quote'[j] = quote[j]
      /\ quote'[k].status = req[r].want
  BY <1>0, <1>1, <1>3, <1>5 DEF SalesTypeOK
<1>9. \A j \in Quotes : quote[j].status = "ACCEPTED" =>
                          quote'[j].status = "ACCEPTED" \/ j \in overtaken'
  <2>1. req[r].read = "same" /\ quote[k].status = "ACCEPTED" => req[r].want = "ACCEPTED"
    BY <1>0 DEF SalesInv, ChecksHold, StillKnows
  <2> QED
    BY <1>2, <1>8, <2>1
<1>10. ContractFromAcceptedQuote'
  BY <1>2, <1>9, SourcesStay
<1>11. /\ \A j \in Quotes : quote[j].status # "none" /\ j # k => quote'[j].status = quote[j].status
       /\ \A j \in Quotes : quote[j].status # "none" => quote'[j].status # "none"
  BY <1>1, <1>8 DEF QuoteStatus
<1>12. "written" # "same"
  OBVIOUS
<1> HIDE DEF k
<1> QED
  BY <1>0, <1>2, <1>6, <1>7, <1>9, <1>10, <1>11, <1>12, WriteTogether DEF SalesTypeOK

\* Endpoints that write no quote, and its removal, which writes none of what
\* the properties speak of.
LEMMA QuotesStay ==
  ASSUME SalesInv, overtaken \subseteq overtaken',
         \A k \in Quotes : /\ quote'[k].status = quote[k].status /\ quote'[k].sent = quote[k].sent
                           /\ quote'[k].accepted = quote[k].accepted
                           /\ quote'[k].chosen = quote[k].chosen
                           /\ quote'[k].version = quote[k].version
  PROVE  QuotesInv'
<1>1. DatesMatchStatus'
  BY DEF SalesInv, QuotesInv, DatesMatchStatus
<1>2. ChosenItemsExist' /\ ChosenWhileAccepted'
  BY DEF SalesInv, QuotesInv, ChosenItemsExist, ChosenWhileAccepted
<1>3. VersionsBounded' /\ VersionsDistinct'
  BY DEF SalesInv, QuotesInv, VersionsBounded, VersionsDistinct
<1> QED
  BY <1>1, <1>2, <1>3 DEF QuotesInv

ContractTypes == [Projects -> [status : ContractStatus \cup {"none"}, live : BOOLEAN,
                               source : Quotes \cup {"nothing"}]]

\* contracts.create and contracts.update.
LEMMA WriteContractKeepsInv ==
  ASSUME SalesInv, NEW r \in Requests, WriteSign(r) \/ WriteRevise(r)
  PROVE  SalesInv' /\ quote' = quote
<1> DEFINE p == req[r].p
           status == contract'[p].status
<1>0. SalesTypeOK /\ req[r].op \in {"sign", "revise"} /\ req[r].op # "idle"
  BY DEF SalesInv, WriteSign, WriteRevise
<1>1. p \in Projects /\ Late(r) \subseteq Projects /\ overtaken \subseteq Projects \cup Quotes
  BY <1>0, RequestFacts
<1>2. /\ Ends(r, "nothing", "same") /\ quote' = quote
      /\ overtaken' = overtaken \cup Late(r) /\ overtaken \subseteq overtaken'
      /\ overtaken \cup Late(r) \subseteq overtaken' /\ overtaken' \subseteq Projects \cup Quotes
  BY <1>1 DEF WriteSign, WriteRevise
<1>3. /\ contract' \in ContractTypes /\ status \in ContractStatus
      /\ \A k \in Projects \ {p} : contract'[k] = contract[k]
      /\ contract'[p].source = contract[p].source \/ (req[r].op = "sign" /\ contract'[p].source = req[r].q)
      /\ SyncContract(r, status)
  <2>1. CASE WriteSign(r)
    <3>1. req[r].want \in ContractStatus /\ req[r].op = "sign" /\ req[r].q \in Quotes \cup {"nothing"}
      BY <1>0, <2>1 DEF SalesInv, WantsFit, WriteSign, SalesTypeOK
    <3>2. status = req[r].want
      BY <1>0, <1>1, <2>1 DEF WriteSign, SalesTypeOK
    <3> QED
      BY <1>0, <1>1, <2>1, <3>1, <3>2 DEF WriteSign, SalesTypeOK, ContractTypes
  <2>2. CASE WriteRevise(r)
    <3>1. /\ req[r].want \in ContractStatus \cup {"none"} /\ contract[p].status # "none"
          /\ req[r].op = "revise"
      BY <2>2 DEF SalesInv, WantsFit, ChecksHold, StillKnows, WriteRevise
    <3> DEFINE to == IF req[r].want = "none" THEN contract[p].status ELSE req[r].want
    <3>2. to \in ContractStatus
      BY <1>0, <1>1, <3>1 DEF SalesTypeOK
    <3>3. contract' = [contract EXCEPT ![p].status = to] /\ SyncContract(r, to)
      BY <2>2 DEF WriteRevise
    <3> HIDE DEF to
    <3>4. status = to
      BY <1>0, <1>1, <3>3 DEF SalesTypeOK
    <3>5. /\ \A k \in Projects \ {p} : contract'[k] = contract[k]
          /\ contract'[p].source = contract[p].source
      BY <1>0, <1>1, <3>3 DEF SalesTypeOK
    <3>6. [contract[p] EXCEPT !.status = to] \in [status : ContractStatus \cup {"none"},
                                                live : BOOLEAN, source : Quotes \cup {"nothing"}]
      BY <1>0, <1>1, <3>2 DEF SalesTypeOK
    <3>7. contract' \in ContractTypes
      BY <1>0, <3>3, <3>6 DEF SalesTypeOK, ContractTypes
    <3> QED
      BY <3>2, <3>3, <3>4, <3>5, <3>7
  <2> QED
    BY <2>1, <2>2
<1>4. project' \in ProjectTypes /\ ProjectsInv'
  BY <1>0, <1>2, <1>3, ContractMovesStage
<1>5. quote' \in QuoteTypes /\ QuotesInv'
  BY <1>0, <1>2, QuotesStay DEF SalesTypeOK, QuoteTypes, QuoteRows
<1>6. ContractFromAcceptedQuote'
  <2>1. req[r].op = "sign" => \/ req[r].q = "nothing"
                              \/ quote[req[r].q].status = "ACCEPTED" \/ req[r].q \in overtaken
    BY DEF SalesInv, ChecksHold, StillKnows
  <2> QED
    BY <1>2, <1>3, <2>1 DEF SalesInv, ContractFromAcceptedQuote
<1>7. \A k \in Projects : contract[k].status # "none" => contract'[k].status # "none"
  BY <1>3 DEF ContractStatus
<1> HIDE DEF p, status
<1> QED
  BY <1>2, <1>3, <1>4, <1>5, <1>6, <1>7, WriteTogether DEF ContractTypes

\* projects.updateStatus: the project counts as steered from now on.
LEMMA WriteStageKeepsInv ==
  ASSUME SalesInv, NEW r \in Requests, WriteStage(r)
  PROVE  SalesInv' /\ quote' = quote
<1> DEFINE p == req[r].p
           moved == Moved(project[p], req[r].want, StampFor(r))
<1>0. SalesTypeOK /\ req[r].op = "stage" /\ req[r].op # "idle" /\ req[r].want \in Stage
  BY DEF SalesInv, WantsFit, WriteStage
<1>1. /\ p \in Projects /\ Late(r) \subseteq Projects /\ overtaken \subseteq Projects \cup Quotes
      /\ project[p] \in ProjectRows
  BY <1>0, RequestFacts DEF SalesTypeOK, ProjectRows
<1>2. /\ Ends(r, "nothing", "same") /\ UNCHANGED <<quote, contract>>
      /\ overtaken \subseteq overtaken' /\ overtaken' \subseteq Projects \cup Quotes
      /\ p \notin overtaken' => project[p].status = req[r].stage
      /\ project' = [project EXCEPT ![p] = [moved EXCEPT !.steered = TRUE]]
  BY <1>1 DEF WriteStage, Late
<1>3. /\ moved \in ProjectRows
      /\ req[r].want # req[r].stage => moved.stamped
      /\ req[r].want = project[p].status => (project[p].stamped => moved.stamped)
  <2>1. StampFor(r) \in BOOLEAN
    BY DEF StampFor
  <2> QED
    BY <1>0, <1>1, <2>1 DEF Moved, ProjectRows, StampFor
<1> HIDE DEF moved
<1>4. /\ project' \in ProjectTypes
      /\ \A k \in Projects \ {p} : project'[k] = project[k]
      /\ project'[p].steered /\ project'[p].stamped = moved.stamped
  <2>1. [moved EXCEPT !.steered = TRUE] \in ProjectRows
    BY <1>3 DEF ProjectRows
  <2> QED
    BY <1>0, <1>1, <1>2, <1>3, <2>1 DEF SalesTypeOK, ProjectTypes, ProjectRows
<1>5. ProjectsInv'
  <2>1. StageFollowsContract'
    BY <1>2, <1>4 DEF SalesInv, ProjectsInv, StageFollowsContract
  <2>2. StampedUnlessOvertaken'
    BY <1>1, <1>2, <1>3, <1>4 DEF SalesInv, ProjectsInv, StampedUnlessOvertaken
  <2> QED
    BY <2>1, <2>2 DEF ProjectsInv
<1>6. quote' \in QuoteTypes /\ QuotesInv'
  BY <1>0, <1>2, QuotesStay DEF SalesTypeOK, QuoteTypes, QuoteRows
<1>7. ContractFromAcceptedQuote'
  BY <1>2, SourcesStay
<1>8. contract' \in ContractTypes
  BY <1>0, <1>2 DEF SalesTypeOK, ContractTypes
<1> HIDE DEF p
<1> QED
  BY <1>2, <1>4, <1>5, <1>6, <1>7, <1>8, WriteTogether DEF ContractTypes

\* A request that fails changes no row.
LEMMA FailsKeepsInv == ASSUME SalesInv, NEW r \in Requests, Fails(r) PROVE SalesInv' /\ quote' = quote
<1>0. SalesTypeOK
  BY DEF SalesInv
<1>1. Ends(r, "nothing", "same") /\ UNCHANGED <<project, quote, contract, overtaken>>
  BY <1>0 DEF Fails, Ends, SalesTypeOK
<1>2. /\ quote' \in QuoteTypes /\ project' \in ProjectTypes /\ contract' \in ContractTypes
      /\ overtaken' \subseteq Projects \cup Quotes /\ overtaken \subseteq overtaken'
  BY <1>0, <1>1 DEF SalesTypeOK, QuoteTypes, QuoteRows, ProjectTypes, ProjectRows, ContractTypes
<1>3. QuotesInv'
  BY <1>1 DEF SalesInv, QuotesInv, DatesMatchStatus, ChosenItemsExist, ChosenWhileAccepted,
     VersionsBounded, VersionsDistinct
<1>4. ProjectsInv' /\ ContractFromAcceptedQuote'
  BY <1>1 DEF SalesInv, ProjectsInv, StageFollowsContract, StampedUnlessOvertaken,
     ContractFromAcceptedQuote
<1> QED
  BY <1>1, <1>2, <1>3, <1>4, WriteTogether DEF ContractTypes

\* The removal of a quote or a contract is a field of its own.
LEMMA RemovesKeepInv ==
  ASSUME SalesInv,
         (\E q \in Quotes : RemoveQuote(q)) \/ \E p \in Projects : RemoveContract(p)
  PROVE  SalesInv' /\ \A k \in Quotes : quote'[k].status = quote[k].status
<1>0. SalesTypeOK
  BY DEF SalesInv
<1>1. CASE \E q \in Quotes : RemoveQuote(q)
  <2>1. UNCHANGED <<project, contract, req, overtaken>> /\ SalesTypeOK'
    <3>1. PICK q \in Quotes : quote' = [quote EXCEPT ![q] = [quote[q] EXCEPT !.live = FALSE]]
      BY <1>0, <1>1 DEF RemoveQuote, SalesTypeOK
    <3>2. quote[q] \in QuoteRows /\ [quote[q] EXCEPT !.live = FALSE] \in QuoteRows
      <4>1. ASSUME NEW row \in QuoteRows PROVE [row EXCEPT !.live = FALSE] \in QuoteRows
        BY DEF QuoteRows
      <4>2. quote[q] \in QuoteRows
        BY <1>0 DEF SalesTypeOK, QuoteRows
      <4> QED
        BY <4>1, <4>2
    <3>3. quote' \in QuoteTypes
      BY <1>0, <3>1, <3>2 DEF SalesTypeOK, QuoteTypes, QuoteRows
    <3>4. UNCHANGED <<project, contract, req, overtaken>>
      BY <1>1 DEF RemoveQuote
    <3> QED
      BY <1>0, <3>3, <3>4 DEF SalesTypeOK, QuoteTypes, QuoteRows
  <2>2. \A k \in Quotes : /\ quote'[k].status = quote[k].status /\ quote'[k].sent = quote[k].sent
                           /\ quote'[k].accepted = quote[k].accepted
                           /\ quote'[k].chosen = quote[k].chosen
                           /\ quote'[k].version = quote[k].version
    BY <1>0, <1>1 DEF RemoveQuote, SalesTypeOK
  <2>3. QuotesInv'
    BY <2>1, <2>2, QuotesStay
  <2>4. WantsFit'
    BY <2>1 DEF SalesInv, WantsFit
  <2>5. ChecksHold'
    BY <2>1, <2>2 DEF SalesInv, ChecksHold, WantsFit, StillKnows
  <2>6. ContractFromAcceptedQuote'
    BY <1>0, <2>1, <2>2 DEF SalesInv, SalesTypeOK, ContractFromAcceptedQuote
  <2>7. ProjectsInv'
    BY <2>1 DEF SalesInv, ProjectsInv, StageFollowsContract, StampedUnlessOvertaken
  <2> QED
    BY <2>1, <2>2, <2>3, <2>4, <2>5, <2>6, <2>7 DEF SalesInv
<1>2. CASE \E p \in Projects : RemoveContract(p)
  <2>1. UNCHANGED <<project, quote, req, overtaken>> /\ SalesTypeOK'
    <3>1. PICK p \in Projects : contract' = [contract EXCEPT ![p] = [contract[p] EXCEPT !.live = FALSE]]
      BY <1>0, <1>2 DEF RemoveContract, SalesTypeOK
    <3> DEFINE Rows == [status : ContractStatus \cup {"none"}, live : BOOLEAN,
                        source : Quotes \cup {"nothing"}]
    <3>2. ASSUME NEW row \in Rows PROVE [row EXCEPT !.live = FALSE] \in Rows
      OBVIOUS
    <3>3. contract' \in ContractTypes
      <4>1. contract \in [Projects -> Rows]
        BY <1>0 DEF SalesTypeOK
      <4> HIDE DEF Rows
      <4>2. contract' \in [Projects -> Rows]
        BY <3>1, <3>2, <4>1
      <4> QED
        BY <4>2 DEF Rows, ContractTypes
    <3>4. UNCHANGED <<project, quote, req, overtaken>>
      BY <1>2 DEF RemoveContract
    <3> QED
      BY <1>0, <3>3, <3>4 DEF SalesTypeOK, ContractTypes
  <2>2. \A k \in Projects : /\ contract'[k].status = contract[k].status
                             /\ contract'[k].source = contract[k].source
    BY <1>0, <1>2 DEF RemoveContract, SalesTypeOK
  <2>3. QuotesInv'
    BY <2>1, QuotesStay
  <2>4. WantsFit'
    BY <2>1 DEF SalesInv, WantsFit
  <2>5. ChecksHold'
    BY <2>1, <2>2 DEF SalesInv, ChecksHold, WantsFit, StillKnows
  <2>6. ContractFromAcceptedQuote'
    BY <2>1, <2>2 DEF SalesInv, ContractFromAcceptedQuote
  <2>7. StageFollowsContract' /\ StampedUnlessOvertaken'
    BY <2>1, <2>2 DEF SalesInv, ProjectsInv, StageFollowsContract, StampedUnlessOvertaken
  <2> QED
    BY <2>1, <2>3, <2>4, <2>5, <2>6, <2>7 DEF SalesInv, ProjectsInv
<1> QED
  BY <1>1, <1>2

\* One case per step of a request.
LEMMA NextKeepsInv ==
  SalesInv /\ [Next]_vars =>
    /\ SalesInv'
    /\ \A q \in Quotes : quote[q].status = "ACCEPTED" /\ quote'[q].status # "ACCEPTED"
                            => q \in overtaken'
<1> SUFFICES ASSUME SalesInv, [Next]_vars
             PROVE  /\ SalesInv'
                    /\ \A q \in Quotes : quote[q].status = "ACCEPTED" =>
                                           quote'[q].status = "ACCEPTED" \/ q \in overtaken'
  OBVIOUS
<1>1. ASSUME NEW r \in Requests, Starts(r) PROVE SalesInv' /\ quote' = quote
  BY <1>1, StartsKeepInv DEF Starts, StartCreate, StartCopy, StartSend, StartEdit, StartStatus,
     StartSign, StartRevise, StartStage, Reads
<1>2. ASSUME NEW r \in Requests, Writes(r)
      PROVE  /\ SalesInv'
             /\ \A q \in Quotes : quote[q].status = "ACCEPTED" =>
                                    quote'[q].status = "ACCEPTED" \/ q \in overtaken'
  BY <1>2, WriteNewKeepsInv, WriteEditKeepsInv, WriteSendKeepsInv, WriteStatusKeepsInv,
     WriteContractKeepsInv, WriteStageKeepsInv, FailsKeepsInv DEF Writes
<1>3. CASE (\E q \in Quotes : RemoveQuote(q)) \/ \E p \in Projects : RemoveContract(p)
  BY <1>3, RemovesKeepInv
<1>4. CASE UNCHANGED vars
  BY <1>4 DEF vars, SalesInv, SalesTypeOK, WantsFit, ChecksHold, StillKnows, QuotesInv,
     DatesMatchStatus, ChosenItemsExist, ChosenWhileAccepted, VersionsBounded, VersionsDistinct,
     ContractFromAcceptedQuote, ProjectsInv, StageFollowsContract, StampedUnlessOvertaken
<1> QED
  BY <1>1, <1>2, <1>3, <1>4 DEF Next

-----------------------------------------------------------------------------
\* Acceptances are only lost to requests that read the quote before them.
THEOREM AcceptancesStay == Spec => AcceptedStaysUnlessOvertaken
  BY SalesInitInv, NextKeepsInv, PTL DEF Spec, AcceptedStaysUnlessOvertaken

\* Quotes: the dates go with the status, the chosen items exist, no two have
\* the same version; each but for overtaken rows.
THEOREM DatesFollowStatus == Spec => []DatesMatchStatus
<1>1. SalesInv => DatesMatchStatus
  BY DEF SalesInv, QuotesInv
<1> QED
  BY <1>1, SalesInitInv, NextKeepsInv, PTL DEF Spec

\* An accepted quote names items it has.
THEOREM ChosenItemsStay == Spec => []ChosenItemsExist
<1>1. SalesInv => ChosenItemsExist
  BY DEF SalesInv, QuotesInv
<1> QED
  BY <1>1, SalesInitInv, NextKeepsInv, PTL DEF Spec

\* Versions of a project's quotes differ.
THEOREM VersionsDiffer == Spec => []VersionsDistinct
<1>1. SalesInv => VersionsDistinct
  BY DEF SalesInv, QuotesInv
<1> QED
  BY <1>1, SalesInitInv, NextKeepsInv, PTL DEF Spec

\* A contract's quote is accepted.
THEOREM ContractsKeepTheirQuote == Spec => []ContractFromAcceptedQuote
<1>1. SalesInv => ContractFromAcceptedQuote
  BY DEF SalesInv
<1> QED
  BY <1>1, SalesInitInv, NextKeepsInv, PTL DEF Spec

\* A project is where its contract put it until a client moves it.
THEOREM StagesFollowContracts == Spec => []StageFollowsContract
<1>1. SalesInv => StageFollowsContract
  BY DEF SalesInv, ProjectsInv
<1> QED
  BY <1>1, SalesInitInv, NextKeepsInv, PTL DEF Spec

\* A change of stage is stamped.
THEOREM StagesAreStamped == Spec => []StampedUnlessOvertaken
<1>1. SalesInv => StampedUnlessOvertaken
  BY DEF SalesInv, ProjectsInv
<1> QED
  BY <1>1, SalesInitInv, NextKeepsInv, PTL DEF Spec
=============================================================================

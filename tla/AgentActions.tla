---------------------------- MODULE AgentActions ----------------------------
(***************************************************************************)
(* The actions an agent proposes and a person reviews (agents.service.ts). *)
(* A scan of a customer proposes an activity; a reviewer edits, rejects or *)
(* executes it.  Every endpoint reads the row, checks its status, and      *)
(* writes it back in a later statement with no condition; an execution     *)
(* creates the activity in between.  Left out: the runs of the agents and  *)
(* their messages, the event emitted after an execution, whose handlers'   *)
(* failures are settled, and the status APPROVED, which nothing writes.    *)
(***************************************************************************)
EXTENDS Integers, Sequences

CONSTANTS
  ActionIds, Scanned,   \* rows to be, and the customers
  Reviewers,            \* the requests under way
  MaxEdits, MaxMade     \* bounds: edits of a payload, and activities of an action

VARIABLES
  action,      \* AgentAction rows; payload: how often it was edited
  made,        \* the activities created for each action: from which payloads
  review,      \* op: what the request does next; seen: the payload it read;
               \* met: another scan of the customer proposed in between
  crossed,     \* history: actions written while another request had read them
  unrecorded,  \* history: actions whose execution failed or crashed after the
               \* activity was created
  doubled      \* history: actions proposed by a scan that met another

agentVars == <<action, made, review, crossed, unrecorded, doubled>>

NoAction == [status |-> "none", customer |-> {}, payload |-> 0]
ReviewIdle == [op |-> "idle", on |-> {}, seen |-> 0, met |-> FALSE]

AgentInit ==
  /\ action = [a \in ActionIds |-> NoAction]
  /\ made = [a \in ActionIds |-> << >>]
  /\ review = [r \in Reviewers |-> ReviewIdle]
  /\ crossed = {} /\ unrecorded = {} /\ doubled = {}

-----------------------------------------------------------------------------
Reviewing(r, op, a) == review[r].op = op /\ review[r].on = {a}
Reviewed(r) == review' = [review EXCEPT ![r] = ReviewIdle]
\* The other requests that read the row this request writes.
Cross(r, a) == crossed' =
  IF \E o \in Reviewers \ {r} : review[o].on = {a} THEN crossed \cup {a} ELSE crossed

\* Faulty variant: no look for a proposal that is waiting.
AnyTime(k) == TRUE
NonePending(k) ==
  \A a \in ActionIds : ~(action[a].customer = {k} /\ action[a].status = "PENDING_REVIEW")
\* scanContext: no proposal of this customer is waiting ...
Scan(r, k) ==
  /\ review[r].op = "idle" /\ NonePending(k)
  /\ review' = [review EXCEPT ![r] = [ReviewIdle EXCEPT !.op = "propose", !.on = {k}]]
  /\ UNCHANGED <<action, made, crossed, unrecorded, doubled>>
\* ... and after the run is created, so is the action.
Propose(r, k, a) ==
  /\ review[r].op = "propose" /\ review[r].on = {k}
  /\ action[a].status = "none"
  /\ action' = [action EXCEPT ![a] = [status |-> "PENDING_REVIEW", customer |-> {k},
                                       payload |-> 0]]
  /\ review' = [o \in Reviewers |->
       IF o = r THEN ReviewIdle
       ELSE IF review[o].op = "propose" /\ review[o].on = {k} THEN [review[o] EXCEPT !.met = TRUE]
       ELSE review[o]]
  /\ doubled' = IF review[r].met THEN doubled \cup {a} ELSE doubled
  /\ UNCHANGED <<made, crossed, unrecorded>>

\* Faulty variant: only what was rejected or has failed is closed.
AwaitingOrExecuted(a) == action[a].status \in {"PENDING_REVIEW", "EXECUTED"}
Awaiting(a) == action[a].status = "PENDING_REVIEW"
\* updateActionPayload, executeAction and rejectAction read the row ...
TakeUp(r, a, op) ==
  /\ review[r].op = "idle" /\ Awaiting(a)
  /\ review' = [review EXCEPT ![r] = [ReviewIdle EXCEPT !.op = op, !.on = {a},
                                                        !.seen = action[a].payload]]
  /\ UNCHANGED <<action, made, crossed, unrecorded, doubled>>
\* ... and write it back: the edited payload,
EditAction(r, a) ==
  /\ Reviewing(r, "edit", a) /\ action[a].payload < MaxEdits
  /\ action' = [action EXCEPT ![a].payload = @ + 1]
  /\ Reviewed(r) /\ Cross(r, a) /\ UNCHANGED <<made, unrecorded, doubled>>
\* the rejection,
RejectAction(r, a) ==
  /\ Reviewing(r, "reject", a)
  /\ action' = [action EXCEPT ![a].status = "REJECTED"]
  /\ Reviewed(r) /\ Cross(r, a) /\ UNCHANGED <<made, unrecorded, doubled>>
\* or the outcome of the execution.  The executor creates the activity,
Perform(r, a) ==
  /\ Reviewing(r, "execute", a) /\ Len(made[a]) < MaxMade
  /\ made' = [made EXCEPT ![a] = Append(@, review[r].seen)]
  /\ review' = [review EXCEPT ![r].op = "record"]
  /\ UNCHANGED <<action, crossed, unrecorded, doubled>>
\* then the row is EXECUTED,
Record(r, a) ==
  /\ Reviewing(r, "record", a)
  /\ action' = [action EXCEPT ![a].status = "EXECUTED"]
  /\ Reviewed(r) /\ Cross(r, a) /\ UNCHANGED <<made, unrecorded, doubled>>
\* and an exception of either leads to FAILED; the executor may throw after
\* the insert too, when it notifies who is mentioned.
Throw(r, a) ==
  /\ Reviewing(r, "execute", a) \/ Reviewing(r, "record", a)
  /\ review' = [review EXCEPT ![r].op = "fail"]
  /\ unrecorded' = IF Reviewing(r, "record", a) THEN unrecorded \cup {a} ELSE unrecorded
  /\ UNCHANGED <<action, made, crossed, doubled>>
MarkFailed(r, a) ==
  /\ Reviewing(r, "fail", a)
  /\ action' = [action EXCEPT ![a].status = "FAILED"]
  /\ Reviewed(r) /\ Cross(r, a) /\ UNCHANGED <<made, unrecorded, doubled>>

\* A write that fails, or a crash: the request ends where it is.
Drop(r) ==
  /\ review[r].op # "idle" /\ Reviewed(r)
  /\ unrecorded' = IF review[r].op = "record" THEN unrecorded \cup review[r].on ELSE unrecorded
  /\ UNCHANGED <<action, made, crossed, doubled>>

ReviewStep(r, a) ==
  \/ EditAction(r, a) \/ RejectAction(r, a) \/ Perform(r, a) \/ Record(r, a)
  \/ Throw(r, a) \/ MarkFailed(r, a)
  \/ \E op \in {"edit", "reject", "execute"} : TakeUp(r, a, op)
AgentNext == \E r \in Reviewers :
  \/ Drop(r)
  \/ \E a \in ActionIds : ReviewStep(r, a)
  \/ \E k \in Scanned : Scan(r, k) \/ \E a \in ActionIds : Propose(r, k, a)
AgentSpec == AgentInit /\ [][AgentNext]_agentVars

-----------------------------------------------------------------------------
\* What the row says is what was done: EXECUTED stands for one activity, made
\* from the payload the row shows, and every other status for none; unless
\* requests on the action crossed, or one ended between activity and record.
RowsTellWhatWasDone ==
  \A a \in ActionIds :
    \/ a \in crossed \cup unrecorded
    \/ \E r \in Reviewers : Reviewing(r, "record", a)
    \/ made[a] = IF action[a].status = "EXECUTED" THEN <<action[a].payload>> ELSE << >>

\* A customer has one proposal waiting at most (agents.service.ts:275), unless
\* two scans of the customer crossed.
OneProposalUnlessScansCrossed ==
  \A a, b \in ActionIds :
    (a # b /\ Awaiting(a) /\ Awaiting(b) /\ action[a].customer = action[b].customer)
      => a \in doubled \/ b \in doubled
=============================================================================

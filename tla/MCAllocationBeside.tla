-------------------------- MODULE MCAllocationBeside --------------------------
(* The instance of MCMaterialAllocation, and three components that share no  *)
(* state with it: the initial state says which of the four runs, and the     *)
(* others rest.  The suggestions run with one client or with two, whose      *)
(* bounds differ.                                                            *)
EXTENDS MCMaterialAllocation, MCFifoSuggest, AgentActions,
        AiCredentials, TLC

VARIABLE side   \* the component that runs

MCSymmetry == Permutations(ActionIds) \cup Permutations(Askers)

SideInit ==
  /\ side \in {"allocation", "client", "clients", "agents", "credential"}
  /\ AllocInit /\ FifoInit /\ AgentInit /\ CredInit
  /\ side \in {"client", "clients"} \/ left = [k \in Lots |-> 0]

\* Bounds on the suggestions.  Allocations are created in the order of their names,
\* and nothing more happens once a lot is loose.
Allocations(n) ==
  LET inUse(b) == batch'[b].status # "none" IN
  /\ loose = {}
  /\ \A b \in Batches : inUse(b) => b <= n /\ \A earlier \in 1..(b-1) : inUse(earlier)
\* One client asks for three new allocations, ...
OneClient ==
  /\ Allocations(3)
  /\ Cardinality({c \in Askers : asked'[c].on}) <= 1 /\ \A c \in Askers : asked'[c].edits = {}
\* ... or two ask for two, new or edited: one at a time waits for its queries, of which
\* that of the confirmed items is the first, and no stock document uses the lots.
TwoClients ==
  /\ Allocations(2)
  /\ Cardinality({c \in Askers : asked'[c].waits # {}}) <= 1
  /\ \A c \in Askers : "given" \in asked'[c].waits => asked'[c].waits = Queries
  /\ batch' = batch => left' = left

Rest(others) == UNCHANGED <<side, others>>
SideNext ==
  \/ side = "allocation" /\ AllocNext /\ Rest(<<fifoVars, agentVars, credVars>>)
  \/ side = "client" /\ FifoNext /\ OneClient /\ Rest(<<allocVars, agentVars, credVars>>)
  \/ side = "clients" /\ FifoNext /\ TwoClients /\ Rest(<<allocVars, agentVars, credVars>>)
  \/ side = "agents" /\ AgentNext /\ Rest(<<allocVars, fifoVars, credVars>>)
  \/ side = "credential" /\ CredNext /\ Rest(<<allocVars, fifoVars, agentVars>>)
SideSpec == SideInit /\ [][SideNext]_<<side, allocVars, fifoVars, agentVars, credVars>>

=============================================================================

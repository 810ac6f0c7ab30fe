----------------------------- MODULE UserCache -----------------------------
(***************************************************************************)
(* What a request may do: the strategy that authenticates it takes the     *)
(* rights of its user from a static cache (auth-user-cache.ts) and fills   *)
(* the cache from the database on a miss (jwt.strategy.ts).  Changing a    *)
(* user or a role writes the database and drops the cached entries in a    *)
(* later step.  The rights of a user are the number of the change that     *)
(* made them; deactivation is a change like any other, the cached null     *)
(* being the rights of a user who has none.                                *)
(***************************************************************************)
EXTENDS Integers

CONSTANTS
  Users,        \* the users, who all have the role that changes
  Calls,        \* the requests under way
  MaxChanges    \* bound on changes of one user's rights

VARIABLES
  rights,   \* the rights of each user in the database
  cached,   \* {} or the one entry of the user: its rights, and whether it was
            \* stored by a fill that had read before an invalidation
  call      \* op: what the request does next; on: the users concerned

cacheVars == <<rights, cached, call>>

CallIdle == [op |-> "idle", on |-> {}, seen |-> 0, crossed |-> FALSE]

CacheInit ==
  /\ rights = [u \in Users |-> 0]
  /\ cached = [u \in Users |-> {}]
  /\ call = [c \in Calls |-> CallIdle]

-----------------------------------------------------------------------------
\* validate: a miss, and the rights read from the database ...
Fill(c, u) ==
  /\ call[c].op = "idle" /\ cached[u] = {}
  /\ call' = [call EXCEPT ![c] = [CallIdle EXCEPT !.op = "store", !.on = {u},
                                                  !.seen = rights[u]]]
  /\ UNCHANGED <<rights, cached>>
\* ... are stored when the answer is back, whatever happened meanwhile.
Store(c, u) ==
  /\ call[c].op = "store" /\ call[c].on = {u}
  /\ cached' = [cached EXCEPT ![u] = {[rights |-> call[c].seen, crossed |-> call[c].crossed]}]
  /\ call' = [call EXCEPT ![c] = CallIdle]
  /\ UNCHANGED rights

\* UsersService.update and RolesService.update: the write ...
Change(c, some) ==
  /\ call[c].op = "idle"
  /\ \A u \in some : rights[u] < MaxChanges
  /\ rights' = [u \in Users |-> IF u \in some THEN rights[u] + 1 ELSE rights[u]]
  /\ call' = [call EXCEPT ![c] = [CallIdle EXCEPT !.op = "flush", !.on = some]]
  /\ UNCHANGED cached

Crossing(some) == [o \in Calls |->
  IF call[o].op = "store" /\ call[o].on \subseteq some
  THEN [call[o] EXCEPT !.crossed = TRUE] ELSE call[o]]
\* Faulty variant: a role change forgets to flush everybody.
FlushOneUser(c) ==
  /\ call[c].op = "flush"
  /\ cached' = [u \in Users |-> IF call[c].on = {u} THEN {} ELSE cached[u]]
  /\ call' = [Crossing(call[c].on) EXCEPT ![c] = CallIdle]
  /\ UNCHANGED rights
\* ... and then invalidate, for one user, or invalidateAll.
Flush(c) ==
  /\ call[c].op = "flush"
  /\ cached' = [u \in Users |-> IF u \in call[c].on THEN {} ELSE cached[u]]
  /\ call' = [Crossing(call[c].on) EXCEPT ![c] = CallIdle]
  /\ UNCHANGED rights

\* An entry is 60 s old, or is pruned with the 200 oldest of 1000.
Expire(u) ==
  cached[u] # {} /\ cached' = [cached EXCEPT ![u] = {}] /\ UNCHANGED <<rights, call>>
\* A query fails, and the request with it.
FillFails(c) ==
  call[c].op = "store" /\ call' = [call EXCEPT ![c] = CallIdle] /\ UNCHANGED <<rights, cached>>
\* The process restarts: the cache and the requests are gone.
Restart ==
  /\ cached' = [u \in Users |-> {}] /\ call' = [c \in Calls |-> CallIdle]
  /\ UNCHANGED rights

CacheNext ==
  \/ Restart
  \/ \E u \in Users : Expire(u)
  \/ \E c \in Calls :
       \/ Flush(c) \/ FillFails(c) \/ Change(c, Users)
       \/ \E u \in Users : Fill(c, u) \/ Store(c, u) \/ Change(c, {u})
CacheSpec == CacheInit /\ [][CacheNext]_cacheVars

-----------------------------------------------------------------------------
CacheTypeOK ==
  /\ rights \in [Users -> Nat]
  /\ cached \in [Users -> SUBSET [rights : Nat, crossed : BOOLEAN]]
  /\ call \in [Calls -> [op : {"idle", "store", "flush"}, on : SUBSET Users,
                         seen : Nat, crossed : BOOLEAN]]

\* Once a change of rights has been answered, the next request of the user sees
\* it (users.service.ts:142, roles.service.ts:179), unless the entry comes from a
\* fill that read before the change and stored after the invalidation.
RightsAreCurrent ==
  \A u \in Users : \A e \in cached[u] :
    \/ e.rights = rights[u]
    \/ e.crossed
    \/ \E c \in Calls : call[c].op = "flush" /\ u \in call[c].on
=============================================================================

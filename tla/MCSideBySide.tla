---------------------------- MODULE MCSideBySide ----------------------------
(* Five components that share no state, checked in one run: the initial     *)
(* state says which of them runs, and the others rest.  Model values are    *)
(* shared between the components, so that the symmetry group stays small.   *)
EXTENDS DocumentNumbers, Boms, TemplateVariants, Sessions, UserCache, TLC

VARIABLE side   \* the component that runs

\* Two requests and three rows.
MCSymmetry == Permutations(Requests) \cup Permutations(BomIds)

\* Lines of parts and free text, and the uses of one other BOM.
MCBomPayloads == {{"part"}, {"free"}} \cup {{b} : b \in BomIds}

SideInit ==
  /\ side \in Series \cup {"boms", "variants", "sessions", "cache"}
  /\ Init /\ BomInit /\ VarInit /\ SsInit /\ CacheInit

\* Series have locks and rows of their own, so that one at a time is enough.
Numbering(s) == \A p \in Requests : req'[p].s \in {Free, s}

Rest(others) == UNCHANGED <<side, others>>
SideNext ==
  \/ side \in Series /\ Next /\ Numbering(side)
       /\ Rest(<<bomVars, varVars, ssVars, cacheVars>>)
  \/ side = "boms" /\ BomNext
       /\ Rest(<<vars, varVars, ssVars, cacheVars>>)
  \/ side = "variants" /\ VarNext
       /\ Rest(<<vars, bomVars, ssVars, cacheVars>>)
  \/ side = "sessions" /\ SsNext
       /\ Rest(<<vars, bomVars, varVars, cacheVars>>)
  \/ side = "cache" /\ CacheNext
       /\ Rest(<<vars, bomVars, varVars, ssVars>>)

sideVars == <<side, vars, bomVars, varVars, ssVars, cacheVars>>
SideSpec == SideInit /\ [][SideNext]_sideVars
=============================================================================

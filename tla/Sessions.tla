------------------------------ MODULE Sessions ------------------------------
(***************************************************************************)
(* The sessions of one user (auth.service.ts): sign-in by password, token  *)
(* refresh, sign-out, revocation and password reset.  Every endpoint works *)
(* statement by statement without a transaction, with password hashing in  *)
(* between.  A refresh token identifies its session, and the hash in the   *)
(* row says which token of the session is the valid one.  Left out: the    *)
(* mail server that checks passwords of its own domain, and deactivation,  *)
(* which is in module UserCache.                                           *)
(***************************************************************************)
EXTENDS Integers, FiniteSets

CONSTANTS
  SessionIds, Devices,   \* rows to be, and the requests of the user's devices
  MaxResets, MaxTokens   \* bounds: password changes, and tokens of a session

VARIABLES
  password,   \* which password is the user's: it has been reset so many times
  session,    \* UserSession rows; origin: the password signed in with
  ssReq,      \* requests; seen: what they read; met: another request of the kind
              \* that matters to them took effect in between
  twins,      \* history: sessions of sign-ins that met another sign-in
  outlived    \* history: sessions a reset could not or did not get to see

ssVars == <<password, session, ssReq, twins, outlived>>

NoSession == [status |-> "none", token |-> 0, origin |-> 0]
SsIdle == [op |-> "idle", on |-> {}, seen |-> 0, metSignIn |-> FALSE, metReset |-> FALSE]

SsInit ==
  /\ password = 0
  /\ session = [s \in SessionIds |-> NoSession]
  /\ ssReq = [d \in Devices |-> SsIdle]
  /\ twins = {} /\ outlived = {}

-----------------------------------------------------------------------------
LiveSessions == {s \in SessionIds : session[s].status = "live"}
Ended(some) == [s \in SessionIds |->
  IF s \in some THEN [session[s] EXCEPT !.status = "gone"] ELSE session[s]]
SsAt(d, op) == ssReq[d].op = op
Goes(d, op) == ssReq' = [ssReq EXCEPT ![d].op = op]
Rests(d) == ssReq' = [ssReq EXCEPT ![d] = SsIdle]

\* login: bcrypt.compare with the password that was read ...
SignIn(d) ==
  /\ SsAt(d, "idle")
  /\ ssReq' = [ssReq EXCEPT ![d] = [SsIdle EXCEPT !.op = "find", !.seen = password]]
  /\ UNCHANGED <<password, session, twins, outlived>>
\* ... revokeAllSessionsOnLogin: nothing to delete, nothing deleted ...
FindSessions(d) ==
  /\ SsAt(d, "find")
  /\ Goes(d, IF LiveSessions = {} THEN "create" ELSE "delete")
  /\ UNCHANGED <<password, session, twins, outlived>>
\* Faulty variant: the row is deleted by a later clean-up.
DeleteNothing(d) ==
  SsAt(d, "delete") /\ Goes(d, "create") /\ UNCHANGED <<password, session, twins, outlived>>
DeleteSessions(d) ==
  /\ SsAt(d, "delete") /\ Goes(d, "create")
  /\ session' = Ended(LiveSessions)
  /\ UNCHANGED <<password, twins, outlived>>
\* ... createSession, after hashing the refresh token.
CreateSession(d, s) ==
  /\ SsAt(d, "create") /\ session[s].status = "none"
  /\ session' = [session EXCEPT ![s] = [status |-> "live", token |-> 1,
                                         origin |-> ssReq[d].seen]]
  /\ ssReq' = [o \in Devices |->
       IF o = d THEN SsIdle
       ELSE IF SsAt(o, "create") THEN [ssReq[o] EXCEPT !.metSignIn = TRUE]
       ELSE ssReq[o]]
  /\ twins' = IF ssReq[d].metSignIn THEN twins \cup {s} ELSE twins
  /\ outlived' = IF ssReq[d].metReset THEN outlived \cup {s} ELSE outlived
  /\ UNCHANGED password

\* refresh: the row of a valid token ...
Resolve(d, s) ==
  /\ SsAt(d, "idle") /\ s \in LiveSessions /\ session[s].token < MaxTokens
  /\ ssReq' = [ssReq EXCEPT ![d] = [SsIdle EXCEPT !.op = "rotate", !.on = {s},
                                                  !.seen = session[s].token]]
  /\ UNCHANGED <<password, session, twins, outlived>>
\* Faulty variant: the row is written whether it is still there or not.
RotateAnyhow(d, s) ==
  /\ SsAt(d, "rotate") /\ ssReq[d].on = {s}
  /\ session' = [session EXCEPT ![s].status = "live", ![s].token = ssReq[d].seen + 1]
  /\ Rests(d) /\ UNCHANGED <<password, twins, outlived>>
\* ... and, after hashing, an update by id, which fails if the row is gone.
Rotate(d, s) ==
  /\ SsAt(d, "rotate") /\ ssReq[d].on = {s} /\ s \in LiveSessions
  /\ session' = [session EXCEPT ![s].token = ssReq[d].seen + 1]
  /\ Rests(d) /\ UNCHANGED <<password, twins, outlived>>

\* logoutByRefreshToken and revokeSession end one session, revokeAllOtherSessions
\* all but one; what they read first decides nothing but whom to notify.
EndSession(s) ==
  /\ s \in LiveSessions /\ session' = Ended({s})
  /\ UNCHANGED <<password, ssReq, twins, outlived>>
EndOthers(s) ==
  /\ s \in LiveSessions /\ session' = Ended(LiveSessions \ {s})
  /\ UNCHANGED <<password, ssReq, twins, outlived>>

\* resetPassword: the link is signed with the hash of the password it replaces ...
OpenLink(d) ==
  /\ SsAt(d, "idle") /\ password < MaxResets
  /\ ssReq' = [ssReq EXCEPT ![d] = [SsIdle EXCEPT !.op = "reset", !.seen = password]]
  /\ UNCHANGED <<password, session, twins, outlived>>
WritePassword(d) ==
  /\ SsAt(d, "reset") /\ password < MaxResets
  /\ password' = password + 1 /\ Goes(d, "purge")
  /\ UNCHANGED <<session, twins, outlived>>
\* The request d ends a reset that the sign-ins under way have met.
ResetOver(d) ==
  ssReq' = [o \in Devices |-> IF o = d THEN SsIdle ELSE [ssReq[o] EXCEPT
    !.metReset = ssReq[o].op \in {"find", "delete", "create"} \/ @]]
\* Faulty variant: only the sessions of the password just replaced.
PurgeReplaced(d) ==
  /\ SsAt(d, "purge")
  /\ session' = Ended({s \in LiveSessions : session[s].origin = password - 1})
  /\ ResetOver(d)
  /\ UNCHANGED <<password, twins, outlived>>
\* ... and then all sessions are deleted.
Purge(d) ==
  /\ SsAt(d, "purge")
  /\ session' = Ended(LiveSessions)
  /\ ResetOver(d)
  /\ UNCHANGED <<password, twins, outlived>>

\* A failed statement, or a crash; a reset may fail between its two statements.
SsFails(d) ==
  /\ ~SsAt(d, "idle")
  /\ IF SsAt(d, "purge")
     THEN ResetOver(d) /\ outlived' = outlived \cup LiveSessions
     ELSE Rests(d) /\ UNCHANGED outlived
  /\ UNCHANGED <<password, session, twins>>

SsStep(d) ==
  \/ SignIn(d) \/ FindSessions(d) \/ DeleteSessions(d)
  \/ OpenLink(d) \/ WritePassword(d) \/ Purge(d) \/ SsFails(d)
  \/ \E s \in SessionIds : CreateSession(d, s) \/ Resolve(d, s) \/ Rotate(d, s)
SsNext ==
  \/ \E d \in Devices : SsStep(d)
  \/ \E s \in SessionIds : EndSession(s) \/ EndOthers(s)
SsSpec == SsInit /\ [][SsNext]_ssVars

-----------------------------------------------------------------------------
\* One active session per user (auth.service.ts:22), although a sign-in finds,
\* deletes and creates in separate statements, unless two sign-ins met.
OneSessionUnlessTwins ==
  \A s, t \in LiveSessions : s # t => s \in twins \/ t \in twins

\* Once a reset is over, no session of an earlier password is left, unless the
\* reset failed before it deleted them or met a sign-in.
ResetEndsSessions ==
  (\A d \in Devices : ~SsAt(d, "purge")) =>
    \A s \in LiveSessions : session[s].origin = password \/ s \in outlived

\* A session that was ended is not brought back by a refresh that was under way.
EndedStaysEnded ==
  [][\A s \in SessionIds : session[s].status = "gone" => session'[s].status = "gone"]_ssVars
=============================================================================

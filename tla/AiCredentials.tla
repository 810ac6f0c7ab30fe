---------------------------- MODULE AiCredentials ----------------------------
(***************************************************************************)
(* The credential of one AI provider (ai-credentials.service.ts).  An      *)
(* administrator stores an API key or completes an OAuth connection; calls *)
(* of the model read the access token and refresh it when it is about to   *)
(* expire, one refresh at a time in the process (refreshLocks), with the   *)
(* provider's answer between the read of the row and its write.  The       *)
(* provider may replace the refresh token it is sent, and honours the old  *)
(* one no longer; or end a connection of its own accord.  Left out: the    *)
(* fields that no step reads back (scopes, token type, model override,     *)
(* last error) and the expiry of an OAuth state, which only refuses.       *)
(***************************************************************************)
EXTENDS Integers, FiniteSets

CONSTANTS
  Callers,               \* the requests under way
  MaxOpen, MaxIssued     \* bounds: OAuth states waiting, refresh tokens issued

VARIABLES
  cred,       \* the AiProviderCredential row; refresh: a token's number
  open,       \* AiOAuthState rows not consumed
  caller,     \* op: what the request does next, with which token and expiry
  issued,     \* the provider: refresh tokens handed out,
  honoured,   \* those it accepts,
  ended,      \* and those whose connection it ended
  disturbed   \* history: another write fell between the read and the write of
              \* a refresh, or the answer of one was an outage or never written

credVars == <<cred, open, caller, issued, honoured, ended, disturbed>>

NoToken == 0
NoRow == [mode |-> "none", status |-> "none", access |-> "none",
          refresh |-> NoToken, expires |-> "never"]
AskIdle == [op |-> "idle", token |-> NoToken, expires |-> "never"]

CredInit ==
  /\ cred = NoRow /\ open = 0
  /\ caller = [c \in Callers |-> AskIdle]
  /\ issued = 0 /\ honoured = {} /\ ended = {}
  /\ disturbed = FALSE

-----------------------------------------------------------------------------
AtOp(c, op) == caller[c].op = op
GoTo(c, op) == caller' = [caller EXCEPT ![c].op = op]
Hangup(c) == caller' = [caller EXCEPT ![c] = AskIdle]
\* A refresh holds the lock, and one that has read the row.
Refreshing == \E c \in Callers : caller[c].op \in {"read", "post", "write", "mark"}
HoldsOldRow == \E c \in Callers : caller[c].op \in {"post", "write", "mark"}
providerVars == <<issued, honoured, ended>>
\* update and delete of a row that is gone throw: nothing is written.
OnRow(row) == cred' = IF cred = NoRow THEN NoRow ELSE row

\* upsertApiKey writes the whole row, disconnect deletes it.
UpsertApiKey ==
  /\ cred' = [mode |-> "api_key", status |-> "ACTIVE", access |-> "key",
              refresh |-> NoToken, expires |-> "never"]
  /\ disturbed' = HoldsOldRow
  /\ UNCHANGED <<open, caller, providerVars>>
Disconnect ==
  /\ cred # NoRow /\ cred' = NoRow
  /\ disturbed' = HoldsOldRow
  /\ UNCHANGED <<open, caller, providerVars>>
\* updateModel creates the row when there is none.
UpdateModel ==
  /\ cred = NoRow
  /\ cred' = [NoRow EXCEPT !.mode = "api_key", !.status = "DISABLED"]
  /\ UNCHANGED <<open, caller, providerVars, disturbed>>

-----------------------------------------------------------------------------
(* The OAuth connection.                                                     *)
CreateAuthorizeUrl ==
  /\ open < MaxOpen /\ open' = open + 1
  /\ UNCHANGED <<cred, caller, providerVars, disturbed>>
\* handleOAuthCallback claims the state, exchanges the code for tokens ...
ConsumeState(c) ==
  /\ AtOp(c, "idle") /\ open > 0
  /\ open' = open - 1 /\ GoTo(c, "exchange")
  /\ UNCHANGED <<cred, providerVars, disturbed>>
Granted(c, token, expires) ==
  /\ issued' = IF token = NoToken THEN issued ELSE token
  /\ honoured' = honoured \cup ({token} \ {NoToken})
  /\ caller' = [caller EXCEPT ![c] = [op |-> "save", token |-> token, expires |-> expires]]
ExchangeCode(c) ==
  /\ AtOp(c, "exchange")
  /\ \E token \in {NoToken, issued + 1} \cap 0..MaxIssued, expires \in {"never", "later"} :
       Granted(c, token, expires)
  /\ UNCHANGED <<cred, open, ended, disturbed>>
\* ... and stores them; with none to refresh it keeps the one that is there.
SaveConnection(c) ==
  /\ AtOp(c, "save")
  /\ cred' = [mode |-> "oauth", status |-> "ACTIVE", access |-> "grant",
              refresh |-> IF caller[c].token = NoToken THEN cred.refresh ELSE caller[c].token,
              expires |-> caller[c].expires]
  /\ disturbed' = (HoldsOldRow \/ (caller[c].token = NoToken /\ disturbed))
  /\ Hangup(c) /\ UNCHANGED <<open, providerVars>>

-----------------------------------------------------------------------------
(* The access token, and its refresh.                                        *)
ShouldRefresh == cred.mode = "oauth" /\ cred.status = "ACTIVE" /\ cred.expires = "soon"
\* The access token comes within a minute of its end.
ComesToExpire ==
  /\ cred.expires = "later" /\ cred' = [cred EXCEPT !.expires = "soon"]
  /\ UNCHANGED <<open, caller, providerVars, disturbed>>

GetCredentialAccessToken(c) ==
  /\ AtOp(c, "idle") /\ ShouldRefresh /\ GoTo(c, "lock")
  /\ UNCHANGED <<cred, open, providerVars, disturbed>>

\* Faulty variant: every call refreshes for itself.
RefreshAlone(c) ==
  /\ AtOp(c, "lock") /\ GoTo(c, "read")
  /\ UNCHANGED <<cred, open, providerVars, disturbed>>
\* A call that finds a refresh under way shares its answer.
RefreshCredentialWithLock(c) ==
  /\ AtOp(c, "lock") /\ GoTo(c, IF Refreshing THEN "idle" ELSE "read")
  /\ UNCHANGED <<cred, open, providerVars, disturbed>>

\* refreshExpiredCredential looks again: another refresh may have ended.
RefreshExpiredCredential(c) ==
  /\ AtOp(c, "read")
  /\ IF ~ShouldRefresh THEN Hangup(c)
     ELSE caller' = [caller EXCEPT ![c] =
            [op |-> IF cred.refresh = NoToken THEN "mark" ELSE "post",
             token |-> cred.refresh, expires |-> cred.expires]]
  /\ UNCHANGED <<cred, open, providerVars, disturbed>>
\* The provider's answer: tokens, the refresh token replaced or not, an expiry
\* or none ...
Answer(c, token) == \E expires \in {"later", caller[c].expires} :
  caller' = [caller EXCEPT ![c] = [op |-> "write", token |-> token, expires |-> expires]]
RefreshAccessToken(c) ==
  /\ AtOp(c, "post") /\ caller[c].token \in honoured
  /\ \/ Answer(c, caller[c].token) /\ UNCHANGED <<issued, honoured>>
     \/ /\ issued < MaxIssued /\ issued' = issued + 1
        /\ honoured' = (honoured \ {caller[c].token}) \cup {issued'}
        /\ Answer(c, issued')
  /\ UNCHANGED <<cred, open, ended, disturbed>>
\* ... or an error: it does not honour the token, or is out of order.
RefuseRefresh(c) ==
  /\ AtOp(c, "post") /\ GoTo(c, "mark")
  /\ disturbed' = (disturbed \/ caller[c].token \in honoured)
  /\ UNCHANGED <<cred, open, providerVars>>

WriteTokens(c) ==
  /\ AtOp(c, "write")
  /\ OnRow([cred EXCEPT !.access = "grant", !.refresh = caller[c].token,
                        !.expires = caller[c].expires, !.status = "ACTIVE"])
  /\ Hangup(c) /\ UNCHANGED <<open, providerVars, disturbed>>
MarkError(c) ==
  /\ AtOp(c, "mark") /\ OnRow([cred EXCEPT !.status = "ERROR"])
  /\ Hangup(c) /\ UNCHANGED <<open, providerVars, disturbed>>

\* A request ends where it is: a timeout, a write that fails, a restart.
HangsUp(c) ==
  /\ ~AtOp(c, "idle") /\ Hangup(c)
  /\ disturbed' = (disturbed \/ AtOp(c, "write"))
  /\ UNCHANGED <<cred, open, providerVars>>
\* The provider ends a connection: revoked, or not used for long.
EndConnection ==
  /\ \E t \in honoured : honoured' = honoured \ {t} /\ ended' = ended \cup {t}
  /\ UNCHANGED <<cred, open, caller, issued, disturbed>>

CredCall(c) ==
  \/ ConsumeState(c) \/ ExchangeCode(c) \/ SaveConnection(c)
  \/ GetCredentialAccessToken(c) \/ RefreshCredentialWithLock(c)
  \/ RefreshExpiredCredential(c) \/ RefreshAccessToken(c) \/ RefuseRefresh(c)
  \/ WriteTokens(c) \/ MarkError(c) \/ HangsUp(c)
CredNext ==
  \/ UpsertApiKey \/ Disconnect \/ UpdateModel \/ CreateAuthorizeUrl
  \/ ComesToExpire \/ EndConnection
  \/ \E c \in Callers : CredCall(c)
CredSpec == CredInit /\ [][CredNext]_credVars

-----------------------------------------------------------------------------
\* The row can be worked with as it stands: its refresh token is one the
\* provider honours, unless the connection was ended there; the row is in ERROR
\* only for an ended connection or for want of a refresh token; and an API key
\* is not mixed with the tokens of a connection.  Two calls that refresh with
\* one token would break it: the second is refused and marks a good row
\* (refreshLocks, and the second read under it).  Not so when a refresh was
\* overtaken, interrupted or met an outage; or while it has yet to write.
CredentialHolds ==
  \/ disturbed \/ \E c \in Callers : AtOp(c, "write")
  \/ /\ cred.refresh # NoToken => cred.refresh \in honoured \cup ended
     /\ cred.status = "ERROR" => cred.refresh \in ended \cup {NoToken}
     /\ cred.mode = "api_key" => cred.access # "grant" /\ cred.refresh = NoToken
=============================================================================

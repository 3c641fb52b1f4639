----------------------------- MODULE TokenStore -----------------------------
(***************************************************************************)
(* The API tokens: FileTokenStore, the endpoints that create and revoke    *)
(* tokens, the dependencies and the WebSocket helper that authenticate.    *)
(* Endpoints are synchronous and run in threads: a request authenticates   *)
(* in one step and does its work, under the lock of the store, in a later  *)
(* one.  Writing the file may fail, and the process may be restarted.      *)
(***************************************************************************)
EXTENDS Integers, FiniteSets

CONSTANTS
    Callers,     \* threads, with one request each at a time
    Values,      \* token values that are ever issued
    Issued,      \* tokens that admins ask for
    Bootstrap    \* BG_BOOTSTRAP_ADMIN_TOKEN, one of Values

ASSUME TokensAssumption ==
    /\ Bootstrap \in Values
    /\ Issued \subseteq [scopes : SUBSET {"admin:*", "orders:read"}, expires : BOOLEAN]

VARIABLES
    memory,      \* _tokens
    disk,        \* the tokens of the file
    serving,     \* the process is up
    request,     \* per caller: the authenticated request in flight, or NoRequest
    late,        \* the expiry dates have passed
    watching,    \* tokens with which a WebSocket is open
    acked        \* history: what the callers were told of each value

tokenVars == <<memory, disk, serving, request, late, watching, acked>>

NoToken   == [scopes |-> {"none"}, expires |-> FALSE]
NoRequest == [op |-> "none", target |-> Bootstrap]

AllScopes == {"admin:*", "orders:read"}
Withdrawn == {"events:read"}     \* a scope of earlier versions, still found in files

Tokens == [scopes : SUBSET (AllScopes \cup Withdrawn), expires : BOOLEAN]
NoTokens == [v \in Values |-> NoToken]

-----------------------------------------------------------------------------
IsExpired(t) == t.expires /\ late

HasScope(t, required) == "admin:*" \in t.scopes \/ required \in t.scopes

\* get_current_token: known and not expired.
Accepted(v) == serving /\ memory[v] # NoToken /\ ~IsExpired(memory[v])

\* deserialize_token: scopes that are no longer known are dropped.
Deserialized(t) == IF t = NoToken THEN t ELSE [t EXCEPT !.scopes = @ \cap AllScopes]

\* _persist_locked: the file is replaced as a whole, or the write fails and it is left.
Persisted(tokens, done) == disk' = IF done THEN tokens ELSE disk

\* require_scope(admin:*) of create_token.
StartCreate(c, v) ==
    /\ request[c] = NoRequest /\ Accepted(v) /\ HasScope(memory[v], "admin:*")
    /\ request' = [request EXCEPT ![c] =
                     [op |-> "create", target |-> v]]
    /\ UNCHANGED <<memory, disk, serving, late, watching, acked>>

\* revoke_token: everyone may revoke the token used, an admin any token.
StartRevoke(c, v, target) ==
    /\ request[c] = NoRequest /\ Accepted(v)
    /\ target = v \/ HasScope(memory[v], "admin:*")
    /\ request' = [request EXCEPT ![c] =
                     [op |-> "revoke", target |-> target]]
    /\ UNCHANGED <<memory, disk, serving, late, watching, acked>>

\* put: memory first, then the file; a failed write is a 500 and leaves the token
\* valid until the restart, its value unknown to the caller.
Create(c) ==
    /\ request[c].op = "create"
    /\ \E v \in {u \in Values : acked[u] = "free"},
          t \in Issued, done \in BOOLEAN :
         /\ memory' = [memory EXCEPT ![v] = t]
         /\ Persisted(memory', done)
         /\ acked' = [acked EXCEPT ![v] = IF done THEN "created" ELSE "unsure"]
    /\ request' = [request EXCEPT ![c] = NoRequest]
    /\ UNCHANGED <<serving, late, watching>>

\* Faulty variant: the file is left to the next put.
RevokeInMemory(c) ==
    /\ request[c].op = "revoke"
    /\ LET v == request[c].target
       IN IF memory[v] = NoToken THEN UNCHANGED <<memory, disk, acked>>
          ELSE /\ memory' = [memory EXCEPT ![v] = NoToken]
               /\ acked' = [acked EXCEPT ![v] = "revoked"]
               /\ UNCHANGED disk
    /\ request' = [request EXCEPT ![c] = NoRequest]
    /\ UNCHANGED <<serving, late, watching>>

\* delete: a token that memory does not have is a 404, and the file is not written
\* again, though an earlier write may have failed.
Revoke(c) ==
    /\ request[c].op = "revoke"
    /\ LET v == request[c].target
       IN IF memory[v] = NoToken THEN UNCHANGED <<memory, disk, acked>>
          ELSE \E done \in BOOLEAN :
                 /\ memory' = [memory EXCEPT ![v] = NoToken]
                 /\ Persisted(memory', done)
                 /\ acked' = [acked EXCEPT ![v] = IF done THEN "revoked" ELSE "unsure"]
    /\ request' = [request EXCEPT ![c] = NoRequest]
    /\ UNCHANGED <<serving, late, watching>>

\* authenticate_websocket: checked once, when the socket is opened.
OpenSocket(v) ==
    /\ Accepted(v) /\ HasScope(memory[v], "orders:read")
    /\ watching' = watching \cup {v}
    /\ UNCHANGED <<memory, disk, serving, request, late, acked>>

CloseSocket(v) ==
    /\ v \in watching /\ watching' = watching \ {v}
    /\ UNCHANGED <<memory, disk, serving, request, late, acked>>

ExpiryPasses ==
    /\ ~late /\ late' = TRUE
    /\ UNCHANGED <<memory, disk, serving, request, watching, acked>>

\* The process ends; requests in flight are not answered.
StopProcess ==
    /\ serving' = FALSE /\ memory' = NoTokens /\ watching' = {}
    /\ request' = [c \in Callers |-> NoRequest]
    /\ UNCHANGED late

ProcessEnds == serving /\ StopProcess /\ UNCHANGED <<disk, acked>>

\* It ends after the rename and before the answer of a revoke.
EndsAfterRename(c) ==
    /\ request[c].op = "revoke" /\ memory[request[c].target] # NoToken
    /\ disk' = [memory EXCEPT ![request[c].target] = NoToken]
    /\ acked' = [acked EXCEPT ![request[c].target] = "unsure"]
    /\ StopProcess

\* FileTokenStore.__init__, then _ensure_bootstrap_admin: a bootstrap token that is
\* not in the file is put again, revoked or not; without its write the start fails.
ProcessStarts ==
    /\ ~serving
    /\ LET loaded == [v \in Values |-> Deserialized(disk[v])]
           booted == [loaded EXCEPT ![Bootstrap] = [scopes |-> {"admin:*"}, expires |-> FALSE]]
       IN IF loaded[Bootstrap] # NoToken
          THEN memory' = loaded /\ serving' = TRUE /\ UNCHANGED <<disk, acked>>
          ELSE \E done \in BOOLEAN :
                 /\ Persisted(booted, done)
                 /\ serving' = done
                 /\ memory' = IF done THEN booted ELSE memory
                 /\ acked' = IF done THEN [acked EXCEPT ![Bootstrap] = "created"] ELSE acked
    /\ UNCHANGED <<request, late, watching>>

\* The process is about to start, with no file or with one of an earlier version.
TokensInit ==
    /\ memory = NoTokens /\ serving = FALSE /\ late = FALSE /\ watching = {}
    /\ request = [c \in Callers |-> NoRequest]
    /\ \/ disk = NoTokens /\ acked = [v \in Values |-> "free"]
       \/ \E v \in Values \ {Bootstrap} :
            /\ disk = [NoTokens EXCEPT ![v] =
                         [scopes |-> {"orders:read"} \cup Withdrawn, expires |-> FALSE]]
            /\ acked = [u \in Values |-> IF u = v THEN "created" ELSE "free"]

TokensNext ==
    \/ \E c \in Callers, v \in Values :
         \/ StartCreate(c, v)
         \/ \E target \in Values : StartRevoke(c, v, target)
    \/ \E c \in Callers : Create(c) \/ Revoke(c) \/ EndsAfterRename(c)
    \/ \E v \in Values : OpenSocket(v) \/ CloseSocket(v)
    \/ ExpiryPasses \/ ProcessEnds \/ ProcessStarts

TokensSpec == TokensInit /\ [][TokensNext]_tokenVars

-----------------------------------------------------------------------------
TokensTypeOK ==
    /\ memory \in [Values -> Tokens \cup {NoToken}]
    /\ disk \in [Values -> Tokens \cup {NoToken}]
    /\ serving \in BOOLEAN /\ late \in BOOLEAN
    /\ watching \subseteq Values
    /\ request \in [Callers -> [op : {"none", "create", "revoke"}, target : Values]]
    /\ acked \in [Values -> {"free", "created", "revoked", "unsure"}]

\* An answer holds: whatever requests run beside it, whichever writes fail and however
\* often the process is restarted, a token whose revoke was answered with 204 is neither
\* in memory nor in the file, and one that was answered with 201 is in both until a
\* revoke of it is attempted (bootstrap token aside, which each start puts again).
AnswersAreDurable ==
    \A v \in Values \ {Bootstrap} :
        /\ acked[v] = "revoked" => memory[v] = NoToken /\ disk[v] = NoToken
        /\ acked[v] = "created" =>
              /\ disk[v] # NoToken
              /\ serving => memory[v] = Deserialized(disk[v])
=============================================================================

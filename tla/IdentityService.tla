---------------------------- MODULE IdentityService ----------------------------
(***************************************************************************)
(* Accounts, tokens and sessions: the identity service with the adapters   *)
(* for tokens and sessions, and the check every authenticated handler of   *)
(* every service makes first.                                              *)
(*                                                                         *)
(* Cryptography is left out: a token is what its claims say, with a serial *)
(* number for its jti, and only tokens the service minted verify.  Issuer  *)
(* and audience are those of the one configuration and always match.       *)
(***************************************************************************)
EXTENDS PlatformStore

--------------------------------------------------------------------------------
(* Tokens. *)

\* The blacklist is a set in the cache and has no time to live: what enters it
\* stays.
AddTokenToBlacklist(tok) == blacklist' = blacklist \cup {tok}

\* It is asked when it is switched on.
ExistBlackList(tok) == Blacklist /\ tok \in blacklist

\* The grant is looked at only for a refresh: any token that verifies is accepted
\* as an access token.
GrantFits(tok, isRefresh) == isRefresh => tok.grant = "refresh"

\* Parsing the claims of a JWT checks its expiry time.
JWTVerify(tok) == ~ExistBlackList(tok) /\ tok \notin expired

\* That of a Paseto token is not looked at.
PasetoVerify(tok) == ~ExistBlackList(tok)

Verify(tok, isRefresh) ==
    /\ tok \in wallet
    /\ IF Schema = "JWT" THEN JWTVerify(tok) ELSE PasetoVerify(tok)
    /\ GrantFits(tok, isRefresh)

NewToken(sid, grant, n) == [sid |-> sid, grant |-> grant, n |-> n]
NewTokens(sid, n) == {NewToken(sid, g, n) : g \in {"access", "refresh"}}

\* First half of authExtract and sessionExtract, and ExtractSessionID for a
\* refresh: the token itself.
VerifyToken(c) ==
    /\ call[c].pc = "verify"
    /\ IF Verify(call[c].tok, call[c].rpc = "RefreshToken")
       THEN Goto(c, "session")
       ELSE Answer(c, "Unauthenticated")
    /\ UNCHANGED <<storeVars, sessionVars, tokenVars, target, calls, faults, touched>>

\* Where a call goes once its session was found.
AfterSession(rpc) ==
    CASE rpc = "RefreshToken" -> "user"
      [] rpc = "Logout" -> "end"
      [] rpc \in {"GetUser", "GetCurrentUser", "ListUsers", "UpdateUser", "DeleteUser",
                  "ListRepositories", "GetArticle", "ListArticles", "GetTag", "ListTags",
                  "CreateMigration", "ListMigrations", "RunAnalysis",
                  "ListAnalysisSummaries"} -> "read"
      [] rpc = "CreateRepository" -> "create"
      [] rpc = "CreateArticle" -> "identifier"
      [] rpc = "ProbeSourceRepository" -> "probe"
      [] rpc = "PushResult" -> "push"
      [] OTHER -> "load"

\* Second half: the session.  Who calls, and whether as a system user, is what
\* the session recorded at log-in, not what the account says now.
LoadSession(c) ==
    /\ call[c].pc = "session"
    /\ LET s == call[c].tok.sid IN
       \/ /\ s \in DOMAIN sessions
          /\ call' = [call EXCEPT ![c].uid = sessions[s].user,
                                  ![c].sys = sessions[s].system,
                                  ![c].pc = AfterSession(call[c].rpc)]
          /\ UNCHANGED faults
       \/ /\ s \notin DOMAIN sessions
          /\ Answer(c, "Unauthenticated")
          /\ UNCHANGED faults
       \/ /\ Fault
          /\ Answer(c, "Unauthenticated")
    /\ UNCHANGED <<storeVars, sessionVars, tokenVars, target, calls, touched>>

\* A session runs out: the TTL of its key and its ExpiresAt.
SessionExpires(s) ==
    /\ s \in DOMAIN sessions
    /\ Fault
    /\ sessions' = Remove(sessions, s)
    /\ ended' = ended \cup {s}
    /\ UNCHANGED <<storeVars, userSessions, nextSid, tokenVars, target, call, calls, touched>>

TokenExpires(tok) ==
    /\ tok \in wallet \ expired
    /\ Fault
    /\ expired' = expired \cup {tok}
    /\ UNCHANGED <<storeVars, sessionVars, blacklist, wallet, spent, target, call, calls, touched>>

--------------------------------------------------------------------------------
(* Accounts. *)

\* The handlers serve the account itself and system users.
SelfOrSystem(k) == k.sys \/ k.uid = k.id

\* CreateUser without an email or a password ends before an identifier is drawn.
RejectUser(c) ==
    /\ call[c].pc = "identifier" /\ call[c].rpc = "CreateUser"
    /\ call[c].given.email = "" \/ call[c].given.password = ""
    /\ Answer(c, "InvalidArgument")
    /\ UNCHANGED <<storeVars, sessionVars, tokenVars, target, calls, faults, touched>>

UserIdentifier(c) ==
    /\ call[c].rpc = "CreateUser" /\ call[c].pc \in {"identifier", "seed", "increment"}
    /\ call[c].given.email # "" /\ call[c].given.password # ""
    /\ GenerateIdentifier(c, "users")

\* CreateUser, after the identifier: the insert.  No token is asked for.
InsertUser(c) ==
    /\ call[c].pc = "insert" /\ call[c].rpc = "CreateUser"
    /\ LET d == call[c].given IN
       \/ /\ ~DuplicateKey("users", call[c].id, d)
          /\ Write("users", call[c].id, d)
          /\ Answer(c, "OK")
          /\ UNCHANGED faults
       \/ /\ DuplicateKey("users", call[c].id, d)
          /\ Answer(c, "AlreadyExists")
          /\ UNCHANGED <<docs, faults>>
       \/ /\ Fault
          /\ Answer(c, "Internal")
          /\ UNCHANGED docs
    /\ UNCHANGED <<counters, sessionVars, tokenVars, target, calls, touched>>

\* GetUser and GetCurrentUser.
GetUser(c) ==
    /\ call[c].pc = "read" /\ call[c].rpc \in {"GetUser", "GetCurrentUser"}
    /\ LET id == IF call[c].rpc = "GetUser" THEN call[c].id ELSE call[c].uid IN
       Answer(c, IF id = 0 THEN "InvalidArgument"
                 ELSE IF call[c].rpc = "GetUser" /\ ~SelfOrSystem(call[c])
                      THEN "PermissionDenied"
                 ELSE IF Live("users", id) THEN "OK" ELSE "NotFound")
    /\ UNCHANGED <<storeVars, sessionVars, tokenVars, target, calls, faults, touched>>

ListUsers(c) ==
    /\ call[c].pc = "read" /\ call[c].rpc = "ListUsers"
    /\ Answer(c, IF call[c].sys THEN "OK" ELSE "PermissionDenied")
    /\ UNCHANGED <<storeVars, sessionVars, tokenVars, target, calls, faults, touched>>

\* The mutable fields; no mask means all of them.
UserFields == {"email", "system_user", "state"}
ApplyMask(old, new, mask) == [f \in DOMAIN old |-> IF f \in mask THEN new[f] ELSE old[f]]
UserMask(mask) == IF mask = {} THEN UserFields ELSE mask \cap UserFields

\* UpdateUser reads the account and applies the mask to what it read ...
UpdateUserRead(c) ==
    /\ call[c].pc = "read" /\ call[c].rpc = "UpdateUser"
    /\ LET k == call[c] IN
       IF k.id = 0 THEN Answer(c, "InvalidArgument")
       ELSE IF ~SelfOrSystem(k) THEN Answer(c, "PermissionDenied")
       ELSE IF ~Live("users", k.id) THEN Answer(c, "NotFound")
       ELSE call' = [call EXCEPT
                ![c].doc = ApplyMask(docs["users"][k.id], k.given, UserMask(k.mask)),
                ![c].pc = "write"]
    /\ UNCHANGED <<storeVars, sessionVars, tokenVars, target, calls, faults, touched>>

\* ... and writes all fields back, if the account is still there.
UpdateUserWrite(c) ==
    /\ call[c].pc = "write" /\ call[c].rpc = "UpdateUser"
    /\ LET k == call[c] IN
       \/ /\ Live("users", k.id) /\ ~KeyTaken("users", k.doc, k.id)
          /\ Write("users", k.id, [k.doc EXCEPT !.password = docs["users"][k.id].password])
          /\ Answer(c, "OK")
          /\ UNCHANGED faults
       \/ /\ Live("users", k.id) /\ KeyTaken("users", k.doc, k.id)
          /\ Answer(c, "Internal")
          /\ UNCHANGED <<docs, faults>>
       \/ /\ ~Live("users", k.id)
          /\ Answer(c, "NotFound")
          /\ UNCHANGED <<docs, faults>>
       \/ /\ Fault
          /\ Answer(c, "Internal")
          /\ UNCHANGED docs
    /\ UNCHANGED <<counters, sessionVars, tokenVars, target, calls, touched>>

\* DeleteUser marks the account; its sessions and tokens stay as they are.
DeleteUser(c) ==
    /\ call[c].pc = "read" /\ call[c].rpc = "DeleteUser"
    /\ LET k == call[c] IN
       \/ /\ ~SelfOrSystem(k)
          /\ Answer(c, "PermissionDenied")
          /\ UNCHANGED docs
       \/ /\ SelfOrSystem(k) /\ ~Live("users", k.id)
          /\ Answer(c, IF k.id = 0 THEN "InvalidArgument" ELSE "NotFound")
          /\ UNCHANGED docs
       \/ /\ SelfOrSystem(k) /\ Live("users", k.id)
          /\ Write("users", k.id, [docs["users"][k.id] EXCEPT !.deleted = TRUE, !.state = "DELETED"])
          /\ Answer(c, "OK")
    /\ UNCHANGED <<counters, sessionVars, tokenVars, target, calls, faults, touched>>

--------------------------------------------------------------------------------
(* Log-in, refresh and log-out. *)

\* AuthenticateUser finds the live account of the email and checks its state
\* and the password.
ReadCredentials(c) ==
    /\ call[c].pc = "credentials"
    /\ LET d == call[c].given
           found == {i \in DOMAIN docs["users"] : Live("users", i) /\ docs["users"][i].email = d.email}
       IN IF d.email = "" \/ d.password = "" THEN Answer(c, "InvalidArgument")
          ELSE IF found = {} THEN Answer(c, "Unauthenticated")
          ELSE LET i == CHOOSE i \in found : TRUE
                   u == docs["users"][i] IN
               IF u.state \in {"DELETED", "SUSPENDED"} THEN Answer(c, "PermissionDenied")
               ELSE IF u.password # d.password THEN Answer(c, "Unauthenticated")
               ELSE call' = [call EXCEPT ![c].uid = i, ![c].sys = u.system_user, ![c].pc = "save"]
    /\ UNCHANGED <<storeVars, sessionVars, tokenVars, target, calls, faults, touched>>

\* SaveSession, first command: SETEX of the session under a fresh id.  A failure
\* of it or of a later command fails the log-in; what was stored stays.
SaveSession(c) ==
    /\ call[c].pc = "save"
    /\ \/ /\ sessions' = Put(sessions, nextSid, [user |-> call[c].uid, system |-> call[c].sys])
          /\ nextSid' = nextSid + 1
          /\ call' = [call EXCEPT ![c].sid = nextSid, ![c].pc = "member"]
          /\ UNCHANGED faults
       \/ /\ Fault
          /\ Answer(c, "Internal")
          /\ UNCHANGED <<sessions, nextSid>>
    /\ UNCHANGED <<storeVars, userSessions, ended, tokenVars, target, calls, touched>>

\* SADD to the sessions of the user; then the tokens are handed out.
ListSession(c) ==
    /\ call[c].pc = "member"
    /\ \/ /\ userSessions' = userSessions \cup {<<call[c].uid, call[c].sid>>}
          /\ wallet' = wallet \cup NewTokens(call[c].sid, call[c].n)
          /\ Answer(c, "OK")
          /\ UNCHANGED faults
       \/ /\ Fault
          /\ Answer(c, "Internal")
          /\ UNCHANGED <<userSessions, wallet>>
    /\ UNCHANGED <<storeVars, sessions, nextSid, ended, blacklist, expired, spent,
                   target, calls, touched>>

\* The account is looked up without the filter on delete_time.
RefreshUserAny(c) ==
    /\ call[c].pc = "user"
    /\ IF call[c].uid \in DOMAIN docs["users"] THEN Goto(c, "revoke") ELSE Answer(c, "NotFound")
    /\ UNCHANGED <<storeVars, sessionVars, tokenVars, target, calls, faults, touched>>

\* RefreshToken, after token and session: the account must be live.
RefreshUser(c) ==
    /\ call[c].pc = "user"
    /\ IF Live("users", call[c].uid) THEN Goto(c, "revoke") ELSE Answer(c, "NotFound")
    /\ UNCHANGED <<storeVars, sessionVars, tokenVars, target, calls, faults, touched>>

\* The refresh also renews the session.
RefreshRenews(c) ==
    /\ call[c].pc = "revoke"
    /\ AddTokenToBlacklist(call[c].tok)
    /\ spent' = spent \cup {call[c].tok}
    /\ sessions' = Put(sessions, call[c].tok.sid, [user |-> call[c].uid, system |-> call[c].sys])
    /\ wallet' = wallet \cup NewTokens(call[c].tok.sid, call[c].n)
    /\ Answer(c, "OK")
    /\ UNCHANGED <<storeVars, userSessions, nextSid, ended, expired, target, calls, faults, touched>>

\* Two tokens for one, and the old one can be used again.
RefreshKeepsOld(c) ==
    /\ call[c].pc = "revoke"
    /\ spent' = spent \cup {call[c].tok}
    /\ wallet' = wallet \cup NewTokens(call[c].tok.sid, call[c].n)
    /\ Answer(c, "OK")
    /\ UNCHANGED <<storeVars, sessionVars, blacklist, expired, target, calls, faults, touched>>

\* The old refresh token is revoked, a failure of that is only logged, and new
\* tokens are minted for the same session.
RefreshRevoke(c) ==
    /\ call[c].pc = "revoke"
    /\ \/ /\ AddTokenToBlacklist(call[c].tok)
          /\ spent' = spent \cup {call[c].tok}
          /\ UNCHANGED faults
       \/ /\ Fault
          /\ UNCHANGED <<blacklist, spent>>
    /\ wallet' = wallet \cup NewTokens(call[c].tok.sid, call[c].n)
    /\ Answer(c, "OK")
    /\ UNCHANGED <<storeVars, sessionVars, expired, target, calls, touched>>

\* Logout: the session is read and deleted.  When it is gone, and also when the
\* read fails, there is taken to be nothing to delete ...
LogoutDelete(c) ==
    /\ call[c].pc = "end"
    /\ LET s == call[c].tok.sid IN
       \/ /\ s \in DOMAIN sessions
          /\ sessions' = Remove(sessions, s)
          /\ ended' = ended \cup {s}
          /\ Goto(c, "unlist")
          /\ UNCHANGED faults
       \/ /\ s \notin DOMAIN sessions
          /\ Goto(c, "ban")
          /\ UNCHANGED <<sessions, ended, faults>>
       \/ /\ s \in DOMAIN sessions
          /\ Fault
          /\ Goto(c, "ban") \/ Answer(c, "Internal")
          /\ UNCHANGED <<sessions, ended>>
    /\ UNCHANGED <<storeVars, userSessions, nextSid, tokenVars, target, calls, touched>>

\* ... SREM from the sessions of the user ...
LogoutUnlist(c) ==
    /\ call[c].pc = "unlist"
    /\ \/ /\ userSessions' = userSessions \ {<<call[c].uid, call[c].tok.sid>>}
          /\ Goto(c, "ban")
          /\ UNCHANGED faults
       \/ /\ Fault
          /\ Answer(c, "Internal")
          /\ UNCHANGED userSessions
    /\ UNCHANGED <<storeVars, sessions, nextSid, ended, tokenVars, target, calls, touched>>

\* ... and the access token goes to the blacklist.
LogoutBan(c) ==
    /\ call[c].pc = "ban"
    /\ \/ /\ AddTokenToBlacklist(call[c].tok)
          /\ Answer(c, "OK")
          /\ UNCHANGED faults
       \/ /\ Fault
          /\ Answer(c, "Internal")
          /\ UNCHANGED blacklist
    /\ UNCHANGED <<storeVars, sessionVars, expired, wallet, spent, target, calls, touched>>

IdentityStep(c) ==
    \/ VerifyToken(c) \/ LoadSession(c)
    \/ RejectUser(c) \/ UserIdentifier(c) \/ InsertUser(c)
    \/ GetUser(c) \/ ListUsers(c)
    \/ UpdateUserRead(c) \/ UpdateUserWrite(c) \/ DeleteUser(c)
    \/ ReadCredentials(c) \/ SaveSession(c) \/ ListSession(c)
    \/ RefreshUser(c) \/ RefreshRevoke(c)
    \/ LogoutDelete(c) \/ LogoutUnlist(c) \/ LogoutBan(c)
================================================================================

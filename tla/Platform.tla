-------------------------------- MODULE Platform --------------------------------
(***************************************************************************)
(* The platform around the migration pipeline: clients call the identity,  *)
(* repository and articles services, and the handlers in front of the      *)
(* migration and the analysis service, through the gateway.  Calls of      *)
(* several clients run at the same time, store calls fail, sessions and    *)
(* tokens lapse and others push to the same git repositories.              *)
(***************************************************************************)
EXTENDS IdentityService, RepositoryService, ArticlesService, Gateway

CONSTANT
    Requests    \* what clients ask for: [rpc, with, id, bodyId, given, fields, query]

--------------------------------------------------------------------------------
(* A request passes the gateway. *)

RouteOf(rpc) == CHOOSE i \in DOMAIN AllRoutes : AllRoutes[i].rpc = rpc
HttpForm(r) == [method |-> r.method, path |-> r.path, suffix |-> r.verb]

\* The route that a request made for route i reaches.
Reached == [i \in DOMAIN AllRoutes |-> Dispatch(HttpForm(AllRoutes[i]))]
ReachedRpc(q) == AllRoutes[Reached[RouteOf(q.rpc)]].rpc

\* A body is decoded as the message of the RPC it reaches: what a creation is given
\* has the fields of its document, set or not.
Total(f, S) == f = [x \in S |-> f[x]]
RepositoryRecord ==
    {"owner", "remote_url", "default_branch", "credential_ref", "state", "connection_status",
     "deleted"}
ArticleRecord == {"owner", "slug", "title", "state", "deleted"}

ASSUME RequestsAssumption ==
    \A q \in Requests :
       /\ ReachedRpc(q) = "CreateRepository" => Total(q.given, RepositoryRecord)
       /\ ReachedRpc(q) = "CreateArticle" => Total(q.given, ArticleRecord)

\* Creating an account and logging in need no token.
FirstStep(rpc) ==
    CASE rpc = "CreateUser" -> "identifier"
      [] rpc = "AuthenticateUser" -> "credentials"
      [] OTHER -> "verify"

\* A serial number for what the call makes: the jti of its tokens, its commit.
Serial(rpc) == IF rpc \in {"AuthenticateUser", "RefreshToken", "PushResult"} THEN calls + 1 ELSE 0

\* What was already refused when the call began, for the calls that mint tokens.
Since(rpc) ==
    IF rpc \in {"AuthenticateUser", "RefreshToken"}
    THEN [spent |-> spent,
          deleted |-> {i \in DOMAIN docs["users"] : docs["users"][i].deleted}]
    ELSE IdleCall.since

\* A client sends a request with one of the tokens it holds, or with none; "with"
\* are the sessions and grants of the tokens clients send with the request.
Begin(c) ==
    /\ call[c].pc = "idle" /\ calls < MaxCalls
    /\ calls' = calls + 1
    /\ \E q \in Requests : \E tok \in {t \in wallet \cup {NoToken} : <<t.sid, t.grant>> \in q.with} :
         LET r == AllRoutes[Reached[RouteOf(q.rpc)]]
             form == HttpForm(AllRoutes[RouteOf(q.rpc)])
             id == DecodedIdentifier(r, form, q.id, q.bodyId)
             k == [IdleCall EXCEPT
                     !.rpc = r.rpc, !.asked = q.rpc, !.n = Serial(r.rpc), !.tok = tok,
                     !.id = id, !.pathId = IF AnyId \in {form.path[i] : i \in DOMAIN form.path}
                                           THEN q.id ELSE q.bodyId,
                     !.given = q.given, !.mask = DecodedMask(r, q.query, q.fields),
                     !.pc = FirstStep(r.rpc), !.since = Since(r.rpc)]
         IN call' = [call EXCEPT
                ![c] = IF id = NotANumber THEN Answered("InvalidArgument") ELSE k]
    /\ UNCHANGED <<storeVars, sessionVars, tokenVars, target, faults, touched>>

--------------------------------------------------------------------------------
(* The handlers in front of the migration and the analysis service.  OK means *)
(* that the call is handed to the service, which is modelled elsewhere.       *)

MigrationDesignRpcs ==
    {"DeleteMigration", "StartMigration", "ApproveDesign", "CancelMigration",
     "GetGenerationPackage", "PublishMigration"}
MigrationDeliverableRpcs == {"GetGenerationArtifacts", "DownloadDeliverable"}
MigrationAssessmentRpcs ==
    {"AssessMigrability", "GenerateRestructuringRoadmap", "SetMigrabilityOverride",
     "EnrichRoadmap", "GenerateBlueprint", "ExportActionPlanPrompt"}

LoadMigration(c) ==
    /\ call[c].pc = "load"
    /\ call[c].rpc \in {"GetMigration"} \cup MigrationDesignRpcs
                       \cup MigrationDeliverableRpcs \cup MigrationAssessmentRpcs
    /\ LET k == call[c] IN
       Answer(c, IF k.id = 0 THEN "InvalidArgument"
                 ELSE IF ~Live("migrations", k.id) THEN "NotFound"
                 ELSE IF ~k.sys /\ docs["migrations"][k.id].owner # k.uid
                      THEN "PermissionDenied" ELSE "OK")
    /\ UNCHANGED <<storeVars, sessionVars, tokenVars, target, calls, faults, touched>>

\* A summary of somebody else is said not to exist.
LoadSummary(c) ==
    /\ call[c].pc = "load" /\ call[c].rpc \in {"GetAnalysisSummary", "EvaluateMigrability"}
    /\ LET k == call[c] IN
       Answer(c, IF k.id = 0 THEN "InvalidArgument"
                 ELSE IF ~Live("summaries", k.id) THEN "NotFound"
                 ELSE IF ~k.sys /\ docs["summaries"][k.id].owner # k.uid
                      THEN "NotFound" ELSE "OK")
    /\ UNCHANGED <<storeVars, sessionVars, tokenVars, target, calls, faults, touched>>

\* Creation and listing: what the caller is not to see is left out by the service.
PassOn(c) ==
    /\ call[c].pc = "read"
    /\ call[c].rpc \in {"CreateMigration", "ListMigrations", "RunAnalysis",
                        "ListAnalysisSummaries"}
    /\ Answer(c, IF call[c].rpc = "RunAnalysis" /\ call[c].id = 0
                 THEN "InvalidArgument" ELSE "OK")
    /\ UNCHANGED <<storeVars, sessionVars, tokenVars, target, calls, faults, touched>>

--------------------------------------------------------------------------------

\* Two accounts, the second one a system user, both logged in; alice has a
\* repository, root a migration and its analysis, and nobody wrote an article yet.
alice == 10001
root  == 10002
User(email, system) ==
    [email |-> email, password |-> "right", system_user |-> system, state |-> "ACTIVE",
     deleted |-> FALSE]
Repository(owner, url) ==
    [owner |-> owner, remote_url |-> url, default_branch |-> "main", credential_ref |-> "",
     state |-> "UNSPECIFIED", connection_status |-> "UNSPECIFIED", deleted |-> FALSE]
Owned(owner) == [owner |-> owner, deleted |-> FALSE]
Only(id, d) == [i \in {id} |-> d]

Init ==
    /\ docs = [users |-> [i \in {alice, root} |-> IF i = alice THEN User("alice", FALSE)
                                                               ELSE User("root", TRUE)],
               repositories |-> Only(10001, Repository(alice, "url")),
               articles |-> << >>,
               tags |-> Only(10001, Owned(0)),
               migrations |-> Only(10001, Owned(root)),
               summaries |-> Only(10001, Owned(root))]
    /\ counters = [users |-> root, repositories |-> 10001, articles |-> 0, tags |-> 10001,
                   migrations |-> 10001, summaries |-> 10001]
    /\ sessions = [s \in {1, 2} |-> IF s = 1 THEN [user |-> alice, system |-> FALSE]
                                            ELSE [user |-> root, system |-> TRUE]]
    /\ userSessions = {<<alice, 1>>, <<root, 2>>}
    /\ nextSid = 3
    /\ ended = {}
    /\ blacklist = {}
    /\ expired = {}
    /\ wallet = NewTokens(1, 0) \cup NewTokens(2, 0)
    /\ spent = {}
    /\ target = [t \in Targets |-> << >>]
    /\ call = [c \in Callers |-> IdleCall]
    /\ calls = 0
    /\ faults = 0
    /\ touched = {}

Next ==
    \/ \E c \in Callers :
         \/ Begin(c)
         \/ IdentityStep(c) \/ RepositoryStep(c) \/ ArticlesStep(c)
         \/ LoadMigration(c) \/ LoadSummary(c) \/ PassOn(c)
    \/ \E s \in DOMAIN sessions : SessionExpires(s)
    \/ \E tok \in wallet : TokenExpires(tok)
    \/ \E t \in Targets : ForeignCommit(t)

Spec == Init /\ [][Next]_vars

--------------------------------------------------------------------------------
(* Properties. *)

\* The call of client c is answered by this step.
Answers(c, out) == call[c].pc # "idle" /\ call'[c].pc = "idle" /\ call'[c].out = out

\* A request reaches the RPC it was made for: no other route of the gateway takes
\* it first (GET /migrations/{id} also matches .../7:downloadDeliverable), and
\* the identifier the handler acts on is the one in the URL.
RequestReachesItsRpc ==
    /\ \A i \in DOMAIN AllRoutes : Reached[i] = i
    /\ \A c \in Callers :
         call[c].pathId # 0 /\ call[c].pc # "insert" => call[c].id = call[c].pathId

\* A session that was logged out or ran out never comes back, whatever refresh
\* was under way when it ended: RefreshToken mints tokens and saves no session.
EndedSessionsStayEnded == ended \cap DOMAIN sessions = {}

\* A refresh token buys one pair of tokens: a refresh that begins after the token
\* was exchanged fails.  Two that overlap may both succeed.
RefreshBuysOnce ==
    [][\A c \in Callers :
         Blacklist /\ call[c].rpc = "RefreshToken" /\ Answers(c, "OK")
            => call[c].tok \notin call[c].since.spent]_vars

\* No log-in and no refresh that begins after an account was deleted yields
\* tokens for it, although DeleteUser leaves the account's sessions in Redis.
NoTokensForTheDeleted ==
    [][\A c \in Callers : call[c].pc \in {"member", "revoke"} /\ Answers(c, "OK")
            => call[c].uid \notin call[c].since.deleted]_vars

\* The document a creation was about to insert, and its collection.
CreatedIn(rpc) == IF rpc = "CreateUser" THEN "users"
                  ELSE IF rpc = "CreateArticle" THEN "articles" ELSE "repositories"
Created(k) == IF k.rpc = "CreateUser" THEN k.given
              ELSE [k.given EXCEPT !.owner = IF @ = 0 THEN k.uid ELSE @]

\* A creation refused as a duplicate meets a document with the same key: the
\* identifier, which the same error would blame, is never the one that collides,
\* however many callers make the counter at once.
CreateRefusalIsHonest ==
    [][\A c \in Callers : Answers(c, "AlreadyExists")
            => KeyTaken(CreatedIn(call[c].rpc), Created(call[c]), 0)]_vars

\* Once deleted, a document is never written again: not by an update that read it
\* before, and not by a probe that was waiting for a git server meanwhile.
DeletedStayDeleted ==
    [][\A coll \in Collections : \A i \in DOMAIN docs[coll] :
         docs[coll][i].deleted => i \in DOMAIN docs'[coll] /\ docs'[coll][i] = docs[coll][i]]_vars

\* State and connection status of a repository tell the same story after any
\* interleaving of probes, unless a client wrote one of them itself.
ProbePairInSync ==
    \A i \in DOMAIN docs["repositories"] :
       LET d == docs["repositories"][i] IN
       ~d.deleted /\ i \notin touched =>
          \/ d.state = "UNSPECIFIED" /\ d.connection_status = "UNSPECIFIED"
          \/ d.state = connectionStatusToState(d.connection_status)
================================================================================

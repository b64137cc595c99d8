-------------------------------- MODULE Gateway --------------------------------
(***************************************************************************)
(* The REST gateway in front of the services: which RPC an HTTP request    *)
(* reaches, and the identifier and the update mask it carries there.       *)
(*                                                                         *)
(* A route is a method, a path of literals and identifiers and a verb (the *)
(* text after the last colon); "body" says whether the JSON body is the    *)
(* whole message, its resource field, or not read.  The multiplexer is the *)
(* grpc-gateway library's, modelled from the generated code that uses it.  *)
(***************************************************************************)
EXTENDS Integers, Sequences, FiniteSets

AnyId == "*"

Route(rpc, method, path, verb, body) ==
    [rpc |-> rpc, method |-> method, path |-> path, verb |-> verb, body |-> body]

(* Accounts, log-in and log-out (identity_service.pb.gw.go). *)
CreateUserRoute == Route("CreateUser", "POST", <<"users">>, "", "part")
GetUserRoute == Route("GetUser", "GET", <<"users", AnyId>>, "", "none")
ListUsersRoute == Route("ListUsers", "GET", <<"users">>, "", "none")
UpdateUserRoute == Route("UpdateUser", "PATCH", <<"users", AnyId>>, "", "part")
DeleteUserRoute == Route("DeleteUser", "DELETE", <<"users", AnyId>>, "", "none")
AuthenticateUserRoute ==
    Route("AuthenticateUser", "POST", <<"users">>, "authenticate", "whole")
RefreshTokenRoute == Route("RefreshToken", "POST", <<"users">>, "refreshToken", "whole")
LogoutRoute == Route("Logout", "POST", <<"users">>, "logout", "whole")
GetCurrentUserRoute == Route("GetCurrentUser", "GET", <<"users">>, "current", "none")
IdentityRoutes ==
    <<CreateUserRoute, GetUserRoute, ListUsersRoute,
      UpdateUserRoute, DeleteUserRoute, AuthenticateUserRoute,
      RefreshTokenRoute, LogoutRoute, GetCurrentUserRoute>>

(* Registered git repositories, their probes and the push (repository_service.pb.gw.go). *)
CreateRepositoryRoute == Route("CreateRepository", "POST", <<"repositories">>, "", "part")
GetRepositoryRoute == Route("GetRepository", "GET", <<"repositories", AnyId>>, "", "none")
ListRepositoriesRoute == Route("ListRepositories", "GET", <<"repositories">>, "", "none")
UpdateRepositoryRoute ==
    Route("UpdateRepository", "PATCH", <<"repositories", AnyId>>, "", "part")
DeleteRepositoryRoute ==
    Route("DeleteRepository", "DELETE", <<"repositories", AnyId>>, "", "none")
TestConnectionRoute ==
    Route("TestConnection", "POST", <<"repositories", AnyId>>, "testConnection", "whole")
ListBranchesRoute ==
    Route("ListBranches", "GET", <<"repositories", AnyId>>, "listBranches", "none")
PushResultRoute == Route("PushResult", "POST", <<"repositories">>, "pushResult", "whole")
ProbeSourceRepositoryRoute ==
    Route("ProbeSourceRepository", "POST", <<"repositories">>, "probeSource", "whole")
RepositoryRoutes ==
    <<CreateRepositoryRoute, GetRepositoryRoute, ListRepositoriesRoute,
      UpdateRepositoryRoute, DeleteRepositoryRoute, TestConnectionRoute,
      ListBranchesRoute, PushResultRoute, ProbeSourceRepositoryRoute>>

(* Articles and tags (articles_service.pb.gw.go). *)
CreateArticleRoute == Route("CreateArticle", "POST", <<"articles">>, "", "part")
GetArticleRoute == Route("GetArticle", "GET", <<"articles", AnyId>>, "", "none")
ListArticlesRoute == Route("ListArticles", "GET", <<"articles">>, "", "none")
UpdateArticleRoute == Route("UpdateArticle", "PATCH", <<"articles", AnyId>>, "", "part")
DeleteArticleRoute == Route("DeleteArticle", "DELETE", <<"articles", AnyId>>, "", "none")
GetTagRoute == Route("GetTag", "GET", <<"tags", AnyId>>, "", "none")
ListTagsRoute == Route("ListTags", "GET", <<"tags">>, "", "none")
ArticlesRoutes ==
    <<CreateArticleRoute, GetArticleRoute, ListArticlesRoute,
      UpdateArticleRoute, DeleteArticleRoute, GetTagRoute,
      ListTagsRoute>>

(* Analysis summaries (analysis_service.pb.gw.go). *)
GetAnalysisSummaryRoute ==
    Route("GetAnalysisSummary", "GET", <<"analysis_summaries", AnyId>>, "", "none")
ListAnalysisSummariesRoute ==
    Route("ListAnalysisSummaries", "GET", <<"analysis_summaries">>, "", "none")
RunAnalysisRoute == Route("RunAnalysis", "POST", <<"analysis_summaries">>, "run", "whole")
EvaluateMigrabilityRoute ==
    Route("EvaluateMigrability", "POST", <<"analysis_summaries", AnyId>>, "evaluateMigrability", "whole")
AnalysisRoutes ==
    <<GetAnalysisSummaryRoute, ListAnalysisSummariesRoute, RunAnalysisRoute,
      EvaluateMigrabilityRoute>>

(* Migrations (migration_service.pb.gw.go). *)
CreateMigrationRoute == Route("CreateMigration", "POST", <<"migrations">>, "", "part")
GetMigrationRoute == Route("GetMigration", "GET", <<"migrations", AnyId>>, "", "none")
ListMigrationsRoute == Route("ListMigrations", "GET", <<"migrations">>, "", "none")
DeleteMigrationRoute ==
    Route("DeleteMigration", "DELETE", <<"migrations", AnyId>>, "", "none")
StartMigrationRoute ==
    Route("StartMigration", "POST", <<"migrations", AnyId>>, "start", "whole")
ApproveDesignRoute ==
    Route("ApproveDesign", "POST", <<"migrations", AnyId>>, "approveDesign", "whole")
GetGenerationPackageRoute ==
    Route("GetGenerationPackage", "POST", <<"migrations", AnyId>>, "generationPackage", "whole")
CancelMigrationRoute ==
    Route("CancelMigration", "POST", <<"migrations", AnyId>>, "cancel", "whole")
PublishMigrationRoute ==
    Route("PublishMigration", "POST", <<"migrations", AnyId>>, "publish", "whole")
AssessMigrabilityRoute ==
    Route("AssessMigrability", "POST", <<"migrations", AnyId>>, "assessMigrability", "whole")
SetMigrabilityOverrideRoute ==
    Route("SetMigrabilityOverride", "POST", <<"migrations", AnyId>>, "setMigrabilityOverride", "whole")
GenerateRestructuringRoadmapRoute ==
    Route("GenerateRestructuringRoadmap", "POST", <<"migrations", AnyId>>, "generateRestructuringRoadmap", "whole")
GetGenerationArtifactsRoute ==
    Route("GetGenerationArtifacts", "POST", <<"migrations", AnyId>>, "generationArtifacts", "whole")
EnrichRoadmapRoute ==
    Route("EnrichRoadmap", "POST", <<"migrations", AnyId>>, "enrichRoadmap", "whole")
GenerateBlueprintRoute ==
    Route("GenerateBlueprint", "POST", <<"migrations", AnyId>>, "generateBlueprint", "whole")
ExportActionPlanPromptRoute ==
    Route("ExportActionPlanPrompt", "GET", <<"migrations", AnyId>>, "exportActionPlanPrompt", "none")
DownloadDeliverableRoute ==
    Route("DownloadDeliverable", "GET", <<"migrations", AnyId>>, "downloadDeliverable", "none")
MigrationRoutes ==
    <<CreateMigrationRoute, GetMigrationRoute, ListMigrationsRoute,
      DeleteMigrationRoute, StartMigrationRoute, ApproveDesignRoute,
      GetGenerationPackageRoute, CancelMigrationRoute, PublishMigrationRoute,
      AssessMigrabilityRoute, SetMigrabilityOverrideRoute, GenerateRestructuringRoadmapRoute,
      GetGenerationArtifactsRoute, EnrichRoadmapRoute, GenerateBlueprintRoute,
      ExportActionPlanPromptRoute, DownloadDeliverableRoute>>

--------------------------------------------------------------------------------
(* The multiplexer. *)

AllRoutes == IdentityRoutes \o RepositoryRoutes \o ArticlesRoutes \o AnalysisRoutes \o MigrationRoutes

\* A request is a method, the path with AnyId for an identifier, and what follows
\* the last colon.  A route without a verb takes the colon as part of the last
\* component, which an identifier matches and a literal does not.
Matches(r, q) ==
    /\ r.method = q.method
    /\ r.path = q.path
    /\ r.verb = q.suffix \/ (r.verb = "" /\ r.path[Len(r.path)] = AnyId)

Found(q) == {i \in DOMAIN AllRoutes : Matches(AllRoutes[i], q)}

\* The routes are tried in the order of their registration.
DispatchFirst(q) ==
    IF Found(q) = {} THEN 0 ELSE CHOOSE i \in Found(q) : \A j \in Found(q) : i <= j

\* The route registered last is tried first; 0 when none matches.
Dispatch(q) ==
    IF Found(q) = {} THEN 0 ELSE CHOOSE i \in Found(q) : \A j \in Found(q) : i >= j

\* The identifier in the path replaces one in the body; "7:cancel" is no number.
NotANumber == -1
DecodedIdentifier(r, q, pathId, bodyId) ==
    IF r.path[Len(r.path)] # AnyId THEN bodyId
    ELSE IF r.verb = q.suffix THEN pathId ELSE NotANumber

\* A PATCH without a mask in its query gets one of the fields its body has.
DecodedMask(r, queryMask, bodyFields) ==
    IF r.method # "PATCH" THEN {} ELSE IF queryMask # {} THEN queryMask ELSE bodyFields
================================================================================

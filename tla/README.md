# Verification of milton-prism

milton-prism takes a repository, analyses it, proposes how to cut it into
services, and - once a human has approved the plan - has agents generate the
services and pushes the result. Five services and three workers share one
MongoDB, one Redis and one Asynq queue, behind a REST gateway. Nothing holds a
lock across two calls and there is no transaction across two documents: every RPC
reads a document, decides, and writes later; every task is delivered at least once.
The questions worth asking are therefore about interleavings, retries and crashes
between two writes, and about the algorithms whose results are stored in several
places and have to agree.

## Parts of the system

| part | state it keeps | operations | hard because | correct when |
|---|---|---|---|---|
| migration service (`core/services/migration`) | `migrations` | create, start, assess, override, approve/reject, cancel, roadmap, enrich, blueprint, export, publish, download, delete | check-then-write on a snapshot; `UpdateState` is unconditional | the human gate, the plan and the push keep their order; a deleted document is frozen |
| analysis service (`core/services/analysis`) | `analysis_summaries` | run analysis, evaluate migrability | best-effort dispatch | every analysis it creates ends |
| analysis worker (`core/worker/analysis`) | both collections; caches of versions and advisories | dedup, reuse, clone, nine stages, two writes, hand-over | crash between its writes, duplicate deliveries, a moving branch, caches shared by jobs | analyses are created once, end once, never change afterwards; a report is about its own dependencies |
| structural assessment (classifiers, clusterer, guardrail, scorer) | none | classify, cluster, guard, find cycles, score | loops that run until nothing moves, map order, two implementations of one classification | ends in a local optimum; cycles exact; both paths agree |
| model-backed advice (assessors, roadmap, enrichment, blueprint) | score and assessment of a summary, assessment and roadmap of a migration | ask a model, parse, store | the model may answer anything; score and verdict have two sources | a roadmap accounts for the score it shows |
| decomposition worker, plan assembly, contract derivers (`core/worker/decomposition`) | `migrations`, `design_artifacts`, prefix table of the process | characterise, allocate prefixes, derive contracts, write plan, write artifacts | plan visible before its artifacts; a table that a crash empties | approval is only open with a plan; artifacts match it |
| generation worker, agent, containers (`core/worker/generation`) | `generation_results`, `generation_file_artifacts`, workspaces, containers | read package, run agents, aggregate errors, choose the final state | concurrency, retries, deadlines, best-effort records | only approved and designed services are generated, done ones were green; everything ends |
| deliverable (`migration/application/assembler`) | none | conflict check, tree to download | three readers of the same files | what is pushed and what is downloaded agree |
| identity service, tokens, sessions | `users`; sessions and blacklist in Redis | sign up, log in, refresh, log out, delete | several reads between a check and its use | ended sessions and deleted accounts buy nothing |
| repository service | `repositories` | register, update, probe, list branches, push | write-back after a slow call | records stay consistent and deleted ones deleted |
| articles service (sample) | `articles` | create, update, delete | - | as above |
| gateway (`api-gateway`, `pkg/gateway`) | routes | HTTP to RPC | overlapping routes | a request reaches its RPC |
| Asynq, Redis, git hosts, OSV, registries, the model, docker (external) | tasks, retries | | at-least-once, failure at any call | |
| configuration, logging, mail | - | - | - | not modelled |

`PROJECT.json` lists every part with its sources, and the hazards with their lines.

## Modules

The engine, one document and one task at a time:

* `MigrationStore` - the shared state: the Mongo collections, the queue, the
  branch head and the push target. A task is a record with the retry count and the
  step its current attempt has reached (`pc`), so that the model has one action per
  write and a crash can come between any two. `AttemptFails` is asynq's retry rule.
* `AnalysisService`, `MigrationService` - the RPCs. The read of a document with all
  the checks on it is one action (`ApproveDesign`, `StartMigration`, ...); every later
  write, dispatch or push is another (`ApproveWrite`, `StartDispatch`, `PublishPush`,
  ...). A call that fails its checks changes nothing and has no action. The
  repository's updates are operators with the filters of the code: `UpdateState`
  and four others check only `delete_time`; `AdoptAnalysis` and
  `SetRestructuringRoadmap` also check the state. `CreateMigration` stores the whole
  body of the request (`Draft`): it may bring a reference to any analysis, a plan, a
  verdict, an override and a roadmap; only state, owner and URL are overridden.
  `Drafts` are the bodies that the clients of an instance send.
* `AnalysisWorker`, `DecompositionWorker`, `GenerationWorker` - one attempt of each
  kind of task, from delivery to acknowledgement, with every write of its own, the
  failures of each stage and what the last attempt marks. What a stage computes is
  left to chance here and modelled below.
* `MiltonPrism` - the composition, its fairness, and the engine's properties.
* `AnalysisLifecycle` - what an analysis promises its readers, without tasks and
  retries; `MiltonPrism` is shown to implement it.

What the stages compute:

* `ManifestParsers` (stages 2-3b), `PythonImports`, `PhpImports` (stages 6, 6b),
  `AnalysisReport` (stages 4-6 and the summary) - pure functions over parsed files.
  `AnalysisStages` - the jobs of one worker process that share the two caches, with
  registries and advisories that change underneath, failing requests, short answers
  and a crash.
* `LouvainClusterer` - one call of `Cluster`: one action per visit of a module in
  `louvainPhase1` (`MoveModule`) and in `absorbSingletons` (`AbsorbModule`, in any
  order, because the code ranges over a map). `MigrabilityScore` - the pure functions
  around it: the two classifications, Tarjan's components, the penalties, band and
  blockers. `StructuralAssessment` - the two paths that use them on one tree.
* `ModelAdvice` - extends it with both assessors, the stored score and assessment,
  roadmap, action plan, enrichment, blueprint and export. One request at a time: the
  races of these handlers are in `MigrationService`.
* `ProtoContract`, `FlaskDeriver`, `EloquentDeriver` - from declarations of a module to
  the fields, methods and foreign keys of a contract. `PrefixAllocator` - the error
  prefixes. `PlanAssembly` - composes them: jobs of several migrations in one process,
  with retries and restarts.
* `Deliverable` - error lookup, conflict check and the assembled tree. `ServiceAgent` -
  the goroutine of one service: attempts, workspace, container, capture, teardown.
  `Delivery` - composes them into one generation task over its deliveries; what
  `GenerationWorker` does in one step of chance. `GenerationRecords` - what such a task
  promises the readers of its records and files; `Delivery` is shown to implement it.

Around the engine:

* `PlatformStore` - documents with unique indexes and soft deletion, identifier
  counters, sessions, blacklist, and the calls under way, one step per store call.
* `IdentityService`, `RepositoryService`, `ArticlesService` - their handlers over it.
* `Gateway` - all routes and the multiplexer's choice among them. `Platform` - composes
  the four, with the scope checks of the migration and analysis handlers.

`MC*` are the instances for TLC. `MiltonPrismTypes`, `MiltonPrismSafety`,
`MiltonPrismDocuments`, `DeliveryProofs`, `PlanAssemblyProofs`, `PlatformProofs`,
`LouvainClustererProofs` and `AnalysisStagesProofs` hold the proofs.

### Abstractions that reach across modules

* Engine: one repository and one branch, because the filters of the code by repository
  and branch only separate independent copies. `TESTING` is declared and never assigned.
  The verdict `PARTIAL` is folded into `MIGRABLE`, which every guard treats alike. A
  write that is applied but reports an error is covered by a crash right after it. An
  attempt that runs into asynq's deadline is a `WorkerCrash`: its context is cancelled,
  so its own later writes, the failure marks included, fail too.
* Structure: a module name is a number (the order of names), with group, namespace
  layer and suffix as attributes. Weights are whole numbers; gains, modularity and
  penalties are compared as exact fractions where the code has `float64`.
* Stages and contracts start from parsed declarations: the regular expressions and
  tree-sitter queries that find them are taken as given. Names are records of their
  words, so that a suffix, a plural, a change of case or a dropped separator is a
  function and not a string operation.
* Delivery: a file is its area of the monorepo, the names it declares and its ports.
  What an agent leaves is a choice among drafts. There is one task: the second one
  that two racing approvals enqueue is in `GenerationWorker`, not here. The platform's
  files on the worker's disk and on that of the migration service are one constant. A
  write that reports an error has had no effect, except the update of the final state,
  which may have; a container whose `ContainerCreate` was answered by an error was not
  created. That no service is called `__pipeline__`, the owner of the pipeline's own
  files, is the assumption `PipelineIsNoService`.
* Platform: a token is its claims and a serial number; only minted ones verify.
  Payload that no guard reads is left out, as are paging and filters of lists.

## Runs

Bounds are in the cfg files. Deadlock checking is off everywhere: the system may
come to rest when clients ask for nothing more.

| run | instance | shows |
|---|---|---|
| `analysis` | 2 migrations, 2 analyses, 2 tasks, 1 retry, a branch that moves once, crashes, failing stages | `TypeOK`; `LinkedAnalysisCompleted`: the engine links a migration only to a COMPLETED analysis, though one migration brings a reference of its own; `AnalysesKeepTheirLifecycle`: implementation of `AnalysisLifecycle` |
| `approval` | 2 clients, 1 migration, 1 service, crashes of handlers and workers | `PlanBeforeApproval`, `GeneratedOnlyAfterApproval` (the human gate), `PushedWasPushed`, `InFlightIsJustified` |
| `lifecycle` | 2 clients, failing stages, lost enqueues, lost answers, unresolved commits | `RoadmapBeforeDerived`, `DeletedIsFrozen` |
| `generation` | 2 services, filters, failing reads and writes, retries | `GeneratedWasDesigned` |
| `progress` | 2 clients, failing stages, retries, fairness | `AnalysisEnds`, `DesignEnds` |
| `stages` | 2 jobs over Python trees (two files left out in turn), PSR-4 and CodeIgniter trees and seven sets of manifests; one release, one disclosure, one crash, batches of 2 | `ReportIsOfItsDependencies`, `StatusFollowsOnePackage`: the shared caches mix up no packages; `AliasIsOneModule`, `IslandsAreCounted`; `StagesRunOut`: every step leads to a later stage or leaves fewer steps in its own |
| `structure` | 632 trees of 4 modules; advice on 4 of them with a model that fails, rambles or answers anything | `ModularityNeverDrops`, `LouvainIsSettled`, `Terminates`: the gain is the change of modularity, also where the code moves for a gain of 0, and the loop ends in a local optimum (`LouvainIsSettled` is about the step that ends it); `SingletonsAreIsolated`; `CyclesAreExact` against strongly connected sets; `PathsAgreeWithoutPhp`; `PlanAccountsForScore` |
| `contracts` | 2 migrations over 5 trees (Flask, Laravel, two clusters of one name, no deriver, nothing), 2 attempts, 2 suffixes per prefix | `PlanPrefixesAreDistinct`, `ArtifactsMatchPlan` across restarts; `ForeignKeysReachTheirOwner`: the two rules for a table's name meet |
| `delivery` | 2 services, concurrency 1 or 2, 2 attempts, 2 deliveries, 1 fault, two drafts of one agent | `ContainersAreOwned`, `DoneWasGreen`, `LookupResolves`, `DownloadKeepsWhatIsPushed`; `TaskKeepsItsRecords`: implementation of `GenerationRecords`, redeliveries after READY or FAILED included; `TaskEnds` |
| `accounts` | 2 clients, 3 calls, one fault or expiry | `EndedSessionsStayEnded`, `RefreshBuysOnce`, `NoTokensForTheDeleted` |
| `catalogue` | 2 clients, 3 calls, one fault, a git server that gives any answer | `RequestReachesItsRpc`, `ProbePairInSync`, `CreateRefusalIsHonest`, `DeletedStayDeleted` |
| `finding_ready` | smallest instance | the disagreement below |

Why the bounds suffice. In the engine and the platform the races are between two
writers of one document: two callers, two tasks and one retry give every pair of
writers (a call and a call, a call and a worker, an attempt and its redelivery), three
calls give a document and two that race for it, and two services give a partial
package. Beyond that the theorems take over: most safety properties of the engine, the
platform, the delivery and the plan assembly are proved for every value of the bounds. Four modules are the fewest that have a hub of
the fan-in heuristic (more than two importers), a ring of every length up to four with
chords, and two communities of two; `TopK` is 3 so that one card overflows. Batches of
two make a chunk boundary with three dependencies; two suffixes make the prefix table
run out.

Fairness. `FairSpec` (run `progress`): weak fairness of each call in flight and of each
task, because a goroutine that can run does and asynq delivers every queued task.
`Delivery`: weak fairness of the handler and of each goroutine; a container ends or
its time-out does. `structure`: that of a sequential program. Clients, crashes, commits
and faults are never forced. `progress` has failing stages but neither crashes, failing
marks nor lost enqueues: with any of them the code does leave analyses `RUNNING`.

## Disagreement with the repository's own words

`finding_ready`: "READY only if every service is done" (generation pipeline). The
plan is stored, and the migration open for approval, before the design artifacts are;
an approval in between generates a part of the plan and ends in `READY`.

Seen while modelling, without a run of their own:

* Creation. `analysis_summary_id` is "Set by the analysis engine once the analysis run
  completes" (migration.proto:146). The field is stored from the request that creates a
  migration, so that a `PENDING` one may refer to any analysis, or to none there is; the
  same holds of assessment, override, plan, roadmap, enrichment and blueprint, which the
  proto describes as the engine's. What the engine itself writes is right
  (`LinkedAnalysisCompleted`), and the gates hold because they look at the state first.
* Engine. `RESTRUCTURING_READY` is called terminal (migration.proto), yet a cancellation
  decided on the snapshot before the roadmap overwrites it. A failed dispatch is said to
  be "surfaced via the summary's FAILED state" (analysis service), but without a task
  there is no worker. Two racing approvals enqueue two tasks and the second repeats
  finished services. A worker that dies between the two updates of `Write` is retried,
  finds its own summary as the newest analysis of the branch and records the migration
  as `analysis_reused`. `GENERATING` is left by nobody once a generation task is
  archived. A done record is stored before the files, so a crash in between loses them.
  The marks of the last attempt use the context whose expiry may have caused the failure.
  A worker that dies between the update to `READY` or `FAILED` and the acknowledgement is
  delivered the task again; the package reader does not look at the state, failed services
  are generated once more, and `FAILED` may become `READY`.
  Two racing roadmap requests can replace a roadmap while an enrichment of the first is
  under way.
* Structure and advice. The analysis scores one classification, a later evaluation
  another with other rules for PHP (`php_module_classifier.go` against
  `php_aware_infra_detector.go`), and overwrites the score in a separate write from the
  assessment. `louvainPhase1` says "only move on strictly positive gain" and also moves
  for a gain of 0. An action plan may put a step before its own prerequisite. "No score
  on the summary <=> no number on the assessment" fails for a tree with cards and no
  imports. That an empty domain means `NOT_MIGRABLE` stands in the prompt only; the
  model's verdict is stored as it comes. A domain penalty of 40 also arises by rounding
  from one domain module among more than 266.
  `AssessMigrability` explains why it takes the stored score by a "different cluster
  partition (map-iteration order in absorbSingletons)" (`service.go:355`). That order has
  no effect: the edges of a module to all communities together weigh as much as its
  degree, so some neighbour always attracts a module that is alone, `louvainPhase1` does
  not stop before it has moved, and `absorbSingletons` finds only modules without
  neighbours (`SingletonsAreIsolated`, proved; `PathsAgreeWithoutPhp` checks both paths
  with every order). What does make the scores differ is the classification of PHP above.
* Contracts and delivery. Columns that only `$casts` declares enter a message in the
  order of a Go map, although the derivation is called deterministic. Two services that
  wrote one shared file are a conflict for a push and last-one-wins in a download. A
  crash of the worker leaves its containers: their label is for a start-up scan that
  does not exist.
* Stages. A relative import of an unknown Python module, and a PHP `use` of an undeclared
  internal name, make a node of the graph. Of `src/foo.py` beside `app/src/foo.py`, which no
  tree of the instance has, `src.foo` becomes the name of the second. Ancestors of an alias that are namespace
  packages are not flagged ambiguous. Technologies whose packages share a display name mix
  their status. The fourth of five version components reads 0. Nested keys of npm lock
  files (version 2) are taken as names.
* Platform. The identity adapter of the repository service forwards no token. The articles
  service's `WithTransaction` is none. A deleted e-mail or URL blocks its re-creation. Two
  overlapping refreshes of one token both succeed. A probe writes back the whole document
  it read, an old credential included. Paseto verification ignores the expiry claim, and
  access verification does not look at the grant. Log-out hides a failed read of the
  session. A PATCH with an empty body and no mask zeroes fields.

## Proofs

`MiltonPrismTypes` proves `Spec => []TypeOK`. The invariant it carries adds
`PushTarget`, that every call past its checks names a migration.

`MiltonPrismSafety` proves `LinkedAnalysisCompleted`, `PlanBeforeApproval`,
`GeneratedOnlyAfterApproval`, `GeneratedWasDesigned`, `PushedWasPushed` and
`InFlightIsJustified` for every number of migrations, analyses, tasks, retries,
callers and services and every set of faults, from the named assumptions on the
constants alone. None of them is inductive: a write late in a call is harmless only
because of what the call saw early on. `InFlightIsJustified` says exactly that for each
step in flight (a call at `adopt` holds a COMPLETED analysis, a generation task is for
an approved migration with a plan and for designed services, ...). It is preserved
because what it relies on only grows: created analyses stay created, completed ones
completed, plans, approvals, artifacts and pushes are never taken back (`Grows`). So
each action has two parts: its writes respect `Grows`, and its own next step is
justified. For `LinkedAnalysisCompleted`, `LinkWriters` adds that a reference changes only
in a write that also takes the migration to DESIGNING. The clients' requests are
arbitrary: the proofs use of `Drafts` only that services belong to a plan and what is
derived from a roadmap to a roadmap (`DraftsAssumption`).

`LifecycleIsKept` proves the refinement `Spec => Analyses!Spec` under the mapping that
reads state, owner and commit off the summaries: five actions write them, and
each is one of the four abstract steps or a stutter.

`LouvainClustererProofs` proves `SingletonsAreIsolated` for every set of modules, import
weights and grouping, whatever `louvainPhase1` came to. The invariant is about the pass in
progress: as long as it has moved nothing, the sizes counted at its beginning are
still right and the singletons already visited have no neighbour outside.

The same module proves `ModularityNeverDrops` and `LouvainIsSettled`. The argument is the
algebra behind `louvainPhase1`. Sums over finite sets are reasoned about by induction
over subsets (`SubsetInduction`, for a set of subsets: a well-founded order, no operator
parameter): a sum changes by what one element adds (`SumRemoves`), depends only on the
values in the set (`SumCongruent`) and ignores zeros (`SumDropsZeros`). So a module that
joins a community changes its share by twice its edges to it, less twice the product of
the degrees, less the square of its own (`ShareGrows`); two shares change in a move
(`ModularityMoves`), the squares cancel, and the difference of modularity is twice the
scaled gain (`GainIsChange`). `LouvainInv` then adds to the shape of the graph
(symmetric weights, `AugmentedOK`) what a pass without a move so far knows: no
neighbouring community attracts a module it has visited.

`MiltonPrismDocuments` proves `RoadmapBeforeDerived` and `DeletedIsFrozen`. The second
follows from the filters of the updates once it is known which actions write a migration
at all (`DocumentWriters`); the first needs that a call at `enrich` or `blueprint` saw a
roadmap (`DerivesFromRoadmap`), and that no write takes a roadmap away.

`PlatformProofs` proves six properties of the platform for every number of clients,
calls, documents and faults. Each rests on what a call carries from one store call to
the next:

* `EndedSessionsStayEnded` on `SessionInv`: every session id, live or ended, is below
  the next one to be drawn.
* `RefreshBuysOnce` and `NoTokensForTheDeleted` on `TokensInv`: what was spent or deleted
  when a call began still is, and the call's checks came after that.
* `CreateRefusalIsHonest` on `IdentifiersInv`: every identifier in use or drawn and not
  yet inserted is at most its counter, and no two calls hold the same.
* `ProbePairInSync` on `PairsInv`: not only the stored records but every copy that a
  call will write back has state and access in agreement, unless a client set them.
* `DeletedStayDeleted` on the shape of the state alone (`Base`): every update filters on
  the deletion.

The only assumption is `RequestsAssumption`: the document in a request that creates a
repository or an article has all its fields, as a decoded message has.

`DeliveryProofs` proves `ContainersAreOwned`, `DoneWasGreen` and
`DownloadKeepsWhatIsPushed`. `OwnedInv` ties container and workspace of a service to the
step of its call; the bound on containers is the cardinality of the set of holders of
the semaphore. `GreenInv` follows a result from the container's exit to the record: an
error, an exit code other than 0, or a green run. The last one is about the assembled
tree: of the files of one path the assembler takes the last, and where the conflict
check finds none they are all equal. `NamesAssumption` says that services are named by
strings.

It also proves the refinement `Spec => Records!Spec` (`RecordsAreKept`) under the mapping
that reads status, passed gates, results still to be stored (`Owed`) and stored paths off
the goroutines and the store, and the life of the task (open, acknowledged, archived) off
the delivery. `RecordsInv` supplies what a single step does not show: a goroutine that may
still record a result works on a service that is not done, and from the write of READY or
FAILED to its acknowledgement the state agrees with the records (`Undecided`). A worker
that dies between the two is redelivered, and what the new delivery does, failed services
begun anew and FAILED turned into READY included, are steps of the abstract task, which
ends only with the acknowledgement or in the archive.

`LookupAlwaysResolves` proves `LookupResolves` for every agent. Its invariant `LookupInv`
follows the names in a lookup back to the worker's disk or to a service whose record and
files are both stored (`Listed`, `Settled`), through redeliveries that write the lookup
again and failed writes that leave an older one. The two cases in which a lookup may name
what the assembled tree lacks (an `*_errors.go` stored twice with different contents, and
a file of the platform that an agent wrote anew without the variable) are stated in the
property. The proof uses `PipelineIsNoService`: the owner of the lookup, `__pipeline__`,
is no service (assembler_config.go:137-155, error_aggregator.go:23).

`PlanAssemblyProofs` proves `PlanPrefixesAreDistinct` and `ArtifactsMatchPlan`.
`PrefixInv` adds that the prefix table names the owner of every candidate of a running
job (`ClaimsHold`): the table only grows while the process lives, and a crash, which
empties it, leaves no job running. `ArtifactsInv` adds that a job which stores holds the
plan it wrote, and that every document it counted carries the service of the plan or a
later one of the same name.

`AnalysisStagesProofs` proves `ReportIsOfItsDependencies`, `StagesRunOut` and
`IslandsAreCounted` for every number of jobs, trees, dependencies, disclosures and crashes. `ScanInv` says of the cache
of advisories that what lies under a key is an answer to that key of some time since the
worker started (`Sound`), whoever stored it, and of a job in stage 5 that each of its keys
is cached, fetched, still asked for or lost (`ScanOK`). Both only gain when other jobs
store answers or an advisory is disclosed (`ScanGrows`); a crash empties the cache, but
the jobs that had looked at it begin again. What stage 5 then collects is a report of
the job's dependencies (`CollectIsReport`). For `StagesRunOut` the invariant `JobsOK` keeps
stage 4 at one of the dependencies or just past the last; the measure is the stage and
then the steps left in it, because a list of dependencies has no greatest length.
`IslandsAreCounted` follows from what a summary was made of (`AssessedInv`): a card put up
for review is none of those that fold into the tests, and the cards with code are part of
the union of the two disjoint sets that are counted.
The theorems have the hypothesis `ManifestsGiveDependencies`: for every tree the parsers
give a failure or a list of dependencies, each with all its fields; `IslandsCount` has
`AnalyzersGiveLists` too: the analyzers give a list of cards. Parsers and analyzers are folds
over files and recursive over included ones, so that both are inductions over data; TLC
evaluates them for all trees of the instance (`MCManifestsAssumption`,
`MCCardsAssumption`). The assumptions on
the constants are that jobs are of trees there are, that a batch holds at least one key and
that OSV lists finitely many advisories of a version.

Only model-checked, and why:

* everything about liveness;
* what Tarjan's algorithm and the derivations compute for every input
  (`CyclesAreExact`, `ForeignKeysReachTheirOwner`): induction over data;
* what the folds over technologies and aliases compute for every tree
  (`StatusFollowsOnePackage`, `AliasIsOneModule`): induction over data too;
* the properties of the two paths and of the advice (`PathsAgreeWithoutPhp`,
  `PlanAccountsForScore`): they are built on the recursive component search;
* `RequestReachesItsRpc`: an evaluation over the whole route table, which has no parameter
  that a proof would generalise.

## Not modelled

* Configuration, logging, mail, start-up, TLS, CORS, metrics and health endpoints: settings
  and I/O without state that another part relies on.
* Generated message types and gRPC stubs (`pkg/pb/gen`, except the gateway's routes) and
  the OpenAPI types: accessors of fields.
* The LLM and cascade clusterers, which no binary wires up.
* Cryptography, floating-point rounding, text matching and wire formats, prompts and wording.
* `GetGenerationPackage`, `GetGenerationArtifacts`, paging and filters of lists, and the
  backfill of repository URLs at start-up.

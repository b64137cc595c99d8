---------------------------- MODULE MigrationStore ----------------------------
(***************************************************************************)
(* The state that the services and the workers of milton-prism share:      *)
(*   - the Mongo collections migrations, analysis_summaries,               *)
(*     design_artifacts, generation_results, generation_file_artifacts;    *)
(*   - the Asynq task queue in Redis (external);                           *)
(*   - the source repository's branch head and the push target (external). *)
(* Every component reads and writes this state directly, one Mongo         *)
(* operation at a time: there is no transaction across two of them.        *)
(***************************************************************************)
EXTENDS Integers, FiniteSets

CONSTANTS
  NumMigrations,  \* migrations have the identifiers 1 .. NumMigrations
  MaxSummaries,   \* bound: analysis runs created in a behaviour
  MaxJobs,        \* bound: tasks queued or running at the same time
  MaxRetry,       \* asynq's max_retry of a task (25 in production)
  MaxCommits,     \* bound: commits of the source branch
  Services,       \* names a plan can propose as services
  Aggregator,     \* errorAggregatorService, the owner of message_error.go
  Drafts,         \* bound: the documents clients create migrations with
  Faults          \* which faults the environment injects

\* "stage": a clone, an analysis stage, an agent run or an outgoing RPC fails;
\* "io": a read or a write of Mongo returns an error;
\* "crash": a process dies between two of its steps;
\* "lostTask": an enqueue fails; "lostReply": an RPC's answer is lost;
\* "noSha": the commit of a clone cannot be resolved.
FaultKinds == {"stage", "io", "crash", "lostTask", "lostReply", "noSha"}

ASSUME StoreAssumption ==
  /\ NumMigrations \in Nat \ {0}
  /\ MaxSummaries \in Nat
  /\ MaxJobs \in Nat
  /\ MaxRetry \in Nat
  /\ MaxCommits \in Nat \ {0}
  /\ Faults \subseteq FaultKinds
  /\ Aggregator \notin Services

Migrations   == 1 .. NumMigrations
SummaryIds   == 1 .. MaxSummaries
JobIds       == 1 .. MaxJobs
Commits      == 1 .. MaxCommits

\* 0 is the proto's zero value: no migration, no summary, no commit.
MigrationRef == 0 .. NumMigrations
SummaryRef   == 0 .. MaxSummaries
CommitRef    == 0 .. MaxCommits

VARIABLES
  mig,      \* collection migrations
  sums,     \* collection analysis_summaries
  jobs,     \* the Asynq tasks, each with the progress of the worker that runs it
  head,     \* the commit the source branch points to
  design,   \* collection design_artifacts
  recs,     \* collection generation_results
  files,    \* collection generation_file_artifacts: services with stored files
  remote    \* migrations whose files have been pushed to their target

storeVars == <<mig, sums, jobs, head, design, recs, files, remote>>

-----------------------------------------------------------------------------
(* The migration document.                                                 *)

MigrationState ==
  { "PENDING", "ANALYZING", "DESIGNING", "AWAITING_APPROVAL", "GENERATING",
    "TESTING", "READY", "PUSHED", "FAILED", "CANCELLED", "RESTRUCTURING_READY" }

isTerminalState(st) == st \in {"PUSHED", "FAILED", "CANCELLED", "RESTRUCTURING_READY"}

\* PARTIAL is left out: every guard treats it as MIGRABLE.
Verdicts == {"none", "MIGRABLE", "NOT_MIGRABLE", "INCOMPLETE"}

\* The stored roadmap: absent, with an empty action plan, or with steps.
Roadmaps == {"none", "empty", "steps"}

MigrationDoc ==
  [ exists    : BOOLEAN,          \* the document was inserted
    deleted   : BOOLEAN,          \* delete_time is set
    state     : MigrationState,
    source    : SummaryRef,       \* source_analysis_summary_id
    summary   : SummaryRef,       \* analysis_summary_id
    reused    : BOOLEAN,          \* analysis_reused
    planned   : BOOLEAN,          \* plan_bytes is set
    services  : SUBSET Services,  \* plan.services; {} is no_service_boundaries
    verdict   : Verdicts,         \* assessment_bytes
    override  : BOOLEAN,          \* migrability_override
    roadmap   : Roadmaps,         \* roadmap_bytes
    enriched  : BOOLEAN,          \* enrichment_bytes
    blueprint : BOOLEAN ]         \* blueprint_bytes

\* The body of a create request. It may bring the fields the engine writes too;
\* enrichment and blueprint are parts of the roadmap, the services of the plan.
Draft ==
  [ source    : SummaryRef,
    summary   : SummaryRef,
    planned   : BOOLEAN,
    services  : SUBSET Services,
    verdict   : Verdicts,
    override  : BOOLEAN,
    roadmap   : Roadmaps,
    enriched  : BOOLEAN,
    blueprint : BOOLEAN ]

ASSUME DraftsAssumption ==
  /\ Drafts \subseteq Draft
  /\ \A d \in Drafts : /\ d.services # {} => d.planned
                       /\ d.enriched \/ d.blueprint => d.roadmap # "none"

EmptyDraft ==
  [ source |-> 0, summary |-> 0, planned |-> FALSE, services |-> {}, verdict |-> "none",
    override |-> FALSE, roadmap |-> "none", enriched |-> FALSE, blueprint |-> FALSE ]

\* What migrationToDoc stores of it: everything but the state, which is forced to
\* PENDING, and analysis_reused.
NewMigration(d) ==
  [ exists |-> TRUE, deleted |-> FALSE, state |-> "PENDING", reused |-> FALSE,
    source |-> d.source, summary |-> d.summary, planned |-> d.planned,
    services |-> d.services, verdict |-> d.verdict, override |-> d.override,
    roadmap |-> d.roadmap, enriched |-> d.enriched, blueprint |-> d.blueprint ]

NoMigration == [NewMigration(EmptyDraft) EXCEPT !.exists = FALSE]

\* The filter {identifier: m, delete_time: nil} of reads and writes.
Live(m) == m # 0 /\ mig[m].exists /\ ~mig[m].deleted

NoServiceBoundaries(d) == d.planned /\ d.services = {}

-----------------------------------------------------------------------------
(* The analysis summary.                                                   *)

SummaryState == {"none", "RUNNING", "COMPLETED", "FAILED"}

SummaryDoc ==
  [ state : SummaryState,
    m     : MigrationRef,     \* migration_id; 0 for a standalone analysis
    sha   : CommitRef ]       \* commit_sha, written with COMPLETED

NoSummary == [state |-> "none", m |-> 0, sha |-> 0]

\* The most recent COMPLETED summary of the branch (sort by create_time desc).
LatestCompleted(s) ==
  /\ sums[s].state = "COMPLETED"
  /\ \A t \in SummaryIds : t > s => sums[t].state # "COMPLETED"

-----------------------------------------------------------------------------
(* The task queue. A task is delivered at least once: it stays queued until *)
(* an attempt returns without an error, and each failed attempt counts.    *)

JobKinds == {"none", "analysis", "decompose", "generation"}

JobPcs ==
  { "queued", "ack",
    "reuse_migration", "reuse_link", "reuse_close", "acquire", "write_summary",
    "write_migration", "enqueue", "mark_summary", "mark_migration",
    "write_plan", "artifacts",
    "generate", "mark_ready", "mark_failed" }

Job ==
  [ kind    : JobKinds,
    m       : MigrationRef,      \* payload.migration_id
    s       : SummaryRef,        \* payload.summary_id
    filter  : SUBSET Services,   \* payload.service_filter; {} selects all
    retried : 0 .. MaxRetry,
    pc      : JobPcs,            \* the next step of the attempt
    ref     : SummaryRef,        \* analysis: the summary to link or enqueue
    sha     : CommitRef,         \* analysis: the commit that was cloned
    svcs    : SUBSET Services,   \* decompose: the services proposed
    full    : SUBSET Services,   \* the services with a complete contract
    todo    : SUBSET Services,   \* services the attempt has not started yet
    busy    : SUBSET Services,   \* generation: services whose agent is running
    saving  : SUBSET Services ]  \* generation: the record is stored, the files not yet

NewJob(kind, m, s, filter) ==
  [ kind |-> kind, m |-> m, s |-> s, filter |-> filter, retried |-> 0,
    pc |-> "queued", ref |-> 0, sha |-> 0, svcs |-> {}, full |-> {},
    todo |-> {}, busy |-> {}, saving |-> {} ]

NoJob == NewJob("none", 0, 0, {})

\* The slot the next task goes to.
FreeJob(j) == jobs[j].kind = "none" /\ \A i \in JobIds : i < j => jobs[i].kind # "none"

\* client.EnqueueContext: the task is queued, or the enqueue fails and the
\* caller only logs it.
Enqueued(js, job) ==
  \/ \E j \in JobIds : FreeJob(j) /\ jobs' = [js EXCEPT ![j] = job]
  \/ "lostTask" \in Faults /\ jobs' = js

\* A running attempt starts afresh when it is delivered again.
Redelivered(job) ==
  [NewJob(job.kind, job.m, job.s, job.filter) EXCEPT !.retried = job.retried + 1]

\* mutant: one attempt too many
isLastAttemptOffByOne(job) == job.retried > MaxRetry

\* isLastAttempt: retried >= maxRetry.
isLastAttempt(job) == job.retried >= MaxRetry

\* The next step of the running job j.
Goto(j, pc) == jobs' = [jobs EXCEPT ![j].pc = pc]

\* The attempt of j returns an error: asynq delivers the task again, unless this
\* was the last attempt; then the handler goes on at pc "onLast", if it has one,
\* and asynq archives the task.
AttemptFails(j, onLast) ==
  jobs' = [jobs EXCEPT ![j] = IF ~isLastAttempt(jobs[j]) THEN Redelivered(jobs[j])
                              ELSE IF onLast = "archive" THEN NoJob
                              ELSE [jobs[j] EXCEPT !.pc = onLast]]

\* Job j is of the given kind and at the given step.
Running(j, kind, pc) == jobs[j].kind = kind /\ jobs[j].pc = pc

\* What a step leaves alone when it writes only the named collections.
OnlyJobs == UNCHANGED <<mig, sums, head, design, recs, files, remote>>
OnlyMig  == UNCHANGED <<sums, jobs, head, design, recs, files, remote>>
JobsAndMig  == UNCHANGED <<sums, head, design, recs, files, remote>>
JobsAndSums == UNCHANGED <<mig, head, design, recs, files, remote>>

\* The attempt returned nil: asynq removes the task.
Ack(j) ==
  /\ jobs[j].pc = "ack"
  /\ jobs' = [jobs EXCEPT ![j] = NoJob]
  /\ OnlyJobs

\* The process running j dies. asynq's recoverer finds the expired lease and
\* queues the task again, or archives it when its retries are used up.
WorkerCrash(j) ==
  /\ "crash" \in Faults
  /\ jobs[j].kind # "none" /\ jobs[j].pc # "queued"
  /\ AttemptFails(j, "archive")
  /\ OnlyJobs

\* Somebody pushes to the source branch.
SourcePush ==
  /\ head < MaxCommits
  /\ head' = head + 1
  /\ UNCHANGED <<mig, sums, jobs, design, recs, files, remote>>

-----------------------------------------------------------------------------

DesignStatus == {"none", "complete", "incomplete"}
RecordStatus == {"none", "generating", "done", "failed"}

StoreTypeOK ==
  /\ mig    \in [Migrations -> MigrationDoc]
  /\ sums   \in [SummaryIds -> SummaryDoc]
  /\ jobs   \in [JobIds -> Job]
  /\ head   \in Commits
  /\ design \in [Migrations -> [Services -> DesignStatus]]
  /\ recs   \in [Migrations -> [Services -> RecordStatus]]
  /\ files  \in [Migrations -> SUBSET (Services \cup {Aggregator})]
  /\ remote \in SUBSET Migrations

StoreInit ==
  /\ mig    = [m \in Migrations |-> NoMigration]
  /\ sums   = [s \in SummaryIds |-> NoSummary]
  /\ jobs   = [j \in JobIds |-> NoJob]
  /\ head   = 1
  /\ design = [m \in Migrations |-> [x \in Services |-> "none"]]
  /\ recs   = [m \in Migrations |-> [x \in Services |-> "none"]]
  /\ files  = [m \in Migrations |-> {}]
  /\ remote = {}
=============================================================================

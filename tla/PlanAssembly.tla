----------------------------- MODULE PlanAssembly -----------------------------
(***************************************************************************)
(* Stages 4 to 7 of the decomposition pipeline: the clusters of a source   *)
(* tree become service candidates with an error prefix, each cluster's     *)
(* contract is derived from a fresh clone, the foreign keys that cross     *)
(* services become dependencies, and the plan and then one artifact per    *)
(* service are stored.  The jobs of several migrations run in one worker   *)
(* process and share its prefix table; the process may die at any point    *)
(* and its jobs are then delivered again.                                  *)
(***************************************************************************)
EXTENDS PrefixAllocator, FlaskDeriver, EloquentDeriver

CONSTANTS
  Migrations,
  Workspaces,    \* the source trees: [flask, laravel, php, clusters, edges, ...]
  MaxAttempts    \* deliveries of one job before it is given up

VARIABLES
  source,     \* migration -> its source tree
  job,        \* migration -> the state of its decomposition job
  plan,       \* migration -> the services of the stored plan
  artifact    \* migration -> service name -> the stored artifact

planVars == <<assigned, source, job, plan, artifact>>

-----------------------------------------------------------------------------
(* Stage 4: service candidates. *)

serviceNameFromBlueprint(ws, group) ==
  IF ws.php THEN serviceFromBlueprintGroup(group) ELSE Lower(Last(group))

NameOf(ws, i) == serviceNameFromBlueprint(ws, ws.clusters[i].group)

ModuleToService(ws, m) ==   \* of the last cluster that holds the module
  LET i == SelectLastInSeq(ws.clusters, LAMBDA c : Contains(c.modules, m))
  IN IF i = 0 THEN NoService ELSE NameOf(ws, i)

IsModels(ws, m) == ~ws.php /\ HasModuleSuffix(m, "models")

\* The edges from a service to another one.
Outgoing(ws, name) ==
  {e \in ws.edges : /\ ModuleToService(ws, e[1]) = name
                    /\ ModuleToService(ws, e[2]) \notin {NoService, name}}

\* An import of a models module is a dependency on data, any other import an
\* operational coupling.
characterize(ws, i, prefix) ==
  LET name == NameOf(ws, i)
      out  == Outgoing(ws, name)
  IN [name      |-> name,
      prefix    |-> prefix,
      resources |-> {m \in ToSet(ws.clusters[i].modules) : IsModels(ws, m)},
      deps      |-> {ModuleToService(ws, e[2]) : e \in {x \in out : IsModels(ws, x[1])}},
      couplings |-> {<<ModuleToService(ws, e[2]), e[1]>> :
                       e \in {x \in out : ~IsModels(ws, x[1])}}]

-----------------------------------------------------------------------------
(* Stage 5: the table map, and one contract per cluster. *)

TablesOf(ws, m) ==   \* the tables that a module declares
  IF ws.php THEN IF isEloquentModelModule(m) THEN <<eloquentTableForModule(ws, m)>> ELSE <<>>
  ELSE IF IsModels(ws, m) /\ m \in DOMAIN ws.files
       THEN SelectSeq(Mapped(ws.files[m].classes, LAMBDA c : c.table), LAMBDA t : t # NoTable)
       ELSE <<>>

buildTableServiceMap(ws) ==
  LET rows == FlattenSeq([i \in 1..Len(ws.clusters) |->
                FlattenSeq(Mapped(ws.clusters[i].modules, LAMBDA m :
                  Mapped(TablesOf(ws, m), LAMBDA t : <<t, NameOf(ws, i)>>)))])
  IN [t \in {rows[k][1] : k \in DOMAIN rows} |->
        rows[SelectLastInSeq(rows, LAMBDA r : r[1] = t)][2]]

\* ContractDeriverHub: Flask first, then Laravel; any other workspace has no
\* deriver and its clusters are skipped.
HubDerive(ws, i, order, tableServiceMap) ==
  CASE ws.flask -> <<FlaskDerive(ws.clusters[i], ws.files, tableServiceMap)>>
    [] ~ws.flask /\ ws.laravel ->
         <<EloquentDerive(ws.clusters[i], ws, order, tableServiceMap)>>
    [] OTHER -> <<>>

\* The orders in which the runtime may walk the casts and the PSR-4 roots.
PhpOrders(ws) ==
  IF ~ws.php THEN {<<>>}
  ELSE LET dirs == {ws.psr4[i][2] : i \in DOMAIN ws.psr4}
           all  == [p \in DOMAIN ws.files |-> SetToSeqs(DOMAIN ws.files[p].casts)]
           casts == {f \in [DOMAIN ws.files -> UNION {all[p] : p \in DOMAIN all}] :
                       \A p \in DOMAIN all : f[p] \in all[p]}
       IN {[casts |-> c, roots |-> r] : c \in casts, r \in SetToSeqs(dirs)}

\* Every cluster but the ones whose derivation fails, in their order.
DerivedContracts(ws, order, lost) ==
  LET tsm == buildTableServiceMap(ws)
  IN FlattenSeq([i \in 1..Len(ws.clusters) |->
       IF i \in lost THEN <<>> ELSE HubDerive(ws, i, order, tsm)])

-----------------------------------------------------------------------------
(* Stages 6 and 7: ownership, plan and artifacts. *)

\* The foreign keys that leave the service whose contract has them; one whose
\* table nobody owns has no target.
analyzeDataOwnership(contracts) ==
  UNION {UNION {{[owner |-> c.service, message |-> msg.name, field |-> f.name,
                  table |-> f.table, ref |-> f.service] :
                   f \in {g \in ToSet(msg.fields) : g.fk /\ g.service # c.service}} :
                  msg \in ToSet(c.messages)} :
           c \in ToSet(contracts)}

LastNamed(cands, name) == SelectLastInSeq(cands, LAMBDA c : c.name = name)

augmentDataDeps(cands, fks) ==
  [i \in 1..Len(cands) |->
     [cands[i] EXCEPT !.deps = @ \cup
        {fk.ref : fk \in {x \in fks : x.ref # NoService /\ LastNamed(cands, x.owner) = i}}]]

assemblePlan(cands, fks) ==
  Mapped(cands, LAMBDA c :
    [name |-> c.name, prefix |-> c.prefix, resources |-> c.resources, deps |-> c.deps,
     fks |-> {fk \in fks : fk.owner = c.name}])

BuildBoundarySpecYAML(svc, couplings) ==
  [service |-> svc, sharedDatabase |-> TRUE, couplings |-> couplings]

ContractOf(contracts, name) == SelectLastInSeq(contracts, LAMBDA c : c.service = name)

\* The contract is looked up by the service's name; without one the artifact
\* is incomplete.
buildArtifact(svc, cands, contracts) ==
  LET k == ContractOf(contracts, svc.name)
  IN [spec       |-> BuildBoundarySpecYAML(svc, cands[LastNamed(cands, svc.name)].couplings),
      contract   |-> IF k = 0 THEN <<>> ELSE <<contracts[k].messages, contracts[k].block>>,
      incomplete |-> IF k = 0 THEN TRUE ELSE contracts[k].incomplete]

-----------------------------------------------------------------------------
(* The jobs. *)

Idle(tries, pc) ==
  [pc |-> pc, tries |-> tries, cands |-> <<>>, contracts |-> <<>>, stored |-> 0]
Running == {"characterize", "write", "store"}
NoPlan == [written |-> FALSE, services |-> <<>>]
Written(services) == [written |-> TRUE, services |-> services]

PlanInit ==
  /\ AllocatorInit
  /\ source \in [Migrations -> Workspaces]
  /\ job = [m \in Migrations |-> Idle(0, "queued")]
  /\ plan = [m \in Migrations |-> NoPlan]
  /\ artifact = [m \in Migrations |-> <<>>]

Goto(m, pc) == job' = [job EXCEPT ![m].pc = pc]

\* Stages 1 to 3: the graph is loaded and clustered.
StartJob(m) ==
  /\ job[m].pc = "queued"
  /\ job' = [job EXCEPT ![m] = Idle(@.tries + 1, "characterize")]
  /\ UNCHANGED <<assigned, source, plan, artifact>>

CharacterizeCluster(m) ==
  LET i == Len(job[m].cands) + 1
      ws == source[m]
  IN /\ job[m].pc = "characterize" /\ i <= Len(ws.clusters)
     /\ \E k \in Ranks :
          /\ Claim(NameOf(ws, i), k)
          /\ job' = [job EXCEPT ![m].cands =
                       Append(@, characterize(ws, i, Candidate(NameOf(ws, i), k)))]
     /\ UNCHANGED <<source, plan, artifact>>

\* An attempt that fails is delivered again until its deliveries are used up.
Retry(j) == Idle(j.tries, IF j.tries < MaxAttempts THEN "queued" ELSE "failed")

AllocationExhausted(m) ==
  /\ job[m].pc = "characterize" /\ Len(job[m].cands) < Len(source[m].clusters)
  /\ Exhausted(NameOf(source[m], Len(job[m].cands) + 1))
  /\ job' = [job EXCEPT ![m] = Retry(@)]
  /\ UNCHANGED <<assigned, source, plan, artifact>>

\* No cluster: the plan without boundaries is written and nothing is cloned.
WriteNoBoundaries(m) ==
  /\ job[m].pc = "characterize" /\ source[m].clusters = <<>>
  /\ plan' = [plan EXCEPT ![m] = Written(<<>>)]
  /\ Goto(m, "done")
  /\ UNCHANGED <<assigned, source, artifact>>

\* Stage 5 over the clone; the contract of the first cluster may fail to be
\* written, and its cluster is then skipped.
DeriveContracts(m) ==
  LET ws == source[m] IN
  /\ job[m].pc = "characterize"
  /\ Len(job[m].cands) = Len(ws.clusters) /\ ws.clusters # <<>>
  /\ \E order \in PhpOrders(ws), lost \in {{}, {1}} :
       job' = [job EXCEPT ![m].pc = "write",
                          ![m].contracts = DerivedContracts(ws, order, lost)]
  /\ UNCHANGED <<assigned, source, plan, artifact>>

Augmented(j) == augmentDataDeps(j.cands, analyzeDataOwnership(j.contracts))

WritePlan(m) ==
  LET j == job[m] IN
  /\ j.pc = "write"
  /\ plan' = [plan EXCEPT ![m] =
       Written(assemblePlan(Augmented(j), analyzeDataOwnership(j.contracts)))]
  /\ job' = [job EXCEPT ![m].pc = "store", ![m].cands = Augmented(j)]
  /\ UNCHANGED <<assigned, source, artifact>>

InsertArtifact(docs, name, doc) ==
  [n \in DOMAIN docs \cup {name} |-> IF n \in DOMAIN docs THEN docs[n] ELSE doc]
UpsertArtifact(docs, name, doc) ==
  [n \in DOMAIN docs \cup {name} |-> IF n = name THEN doc ELSE docs[n]]

\* One document per service, replaced whole, in the order of the plan; the
\* plan that the job holds in memory is the one it wrote.
StoreArtifact(m) ==
  LET j    == job[m]
      svcs == assemblePlan(j.cands, analyzeDataOwnership(j.contracts))
      svc  == svcs[j.stored + 1]
  IN /\ j.pc = "store" /\ j.stored < Len(svcs)
     /\ artifact' = [artifact EXCEPT ![m] =
          UpsertArtifact(@, svc.name, buildArtifact(svc, j.cands, j.contracts))]
     /\ job' = [job EXCEPT ![m].stored = @ + 1]
     /\ UNCHANGED <<assigned, source, plan>>

\* The first document that fails ends the storing, and the job still succeeds.
EndStore(m) ==
  /\ job[m].pc = "store"
  /\ job' = [job EXCEPT ![m] = [Idle(@.tries, "done") EXCEPT !.stored = job[m].stored]]
  /\ UNCHANGED <<assigned, source, plan, artifact>>

\* The graph, the clone or the plan write fails.
JobFails(m) ==
  /\ job[m].pc \in {"characterize", "write"}
  /\ job' = [job EXCEPT ![m] = Retry(@)]
  /\ UNCHANGED <<assigned, source, plan, artifact>>

\* The process dies and a new one starts: the prefix table is empty.
CrashWorker ==
  /\ \E m \in Migrations : job[m].pc \in Running
  /\ Restart
  /\ job' = [m \in Migrations |-> IF job[m].pc \in Running THEN Retry(job[m]) ELSE job[m]]
  /\ UNCHANGED <<source, plan, artifact>>

PlanNext ==
  \/ CrashWorker
  \/ \E m \in Migrations :
       \/ StartJob(m) \/ CharacterizeCluster(m) \/ AllocationExhausted(m)
       \/ WriteNoBoundaries(m) \/ DeriveContracts(m) \/ WritePlan(m)
       \/ StoreArtifact(m) \/ EndStore(m) \/ JobFails(m)

PlanSpec == PlanInit /\ [][PlanNext]_planVars

-----------------------------------------------------------------------------

\* Two services of one plan that have different names have different error
\* prefixes, whatever other jobs claimed in between and however often the
\* process was restarted (deterministic_prefix_allocator.go, Allocate).
PlanPrefixesAreDistinct ==
  \A m \in Migrations : \A i, j \in DOMAIN plan[m].services :
    plan[m].services[i].prefix = plan[m].services[j].prefix =>
      plan[m].services[i].name = plan[m].services[j].name

\* When a job has stored all its artifacts, the artifact of every planned
\* service carries the prefix and the dependencies of the plan: nothing is
\* left of an earlier attempt, whose prefixes came from another table.
ArtifactsMatchPlan ==
  \A m \in Migrations :
    job[m].pc = "done" /\ job[m].stored = Len(plan[m].services) =>
      \A s \in ToSet(plan[m].services) :
        \E t \in ToSet(plan[m].services) :
          t.name = s.name /\ s.name \in DOMAIN artifact[m] /\ artifact[m][s.name].spec.service = t

\* The model classes of a cluster that its contract is derived from.
ModelClasses(ws, i) ==
  {ws.files[resolvePHPModulePath(ws, m)] :
     m \in {x \in ToSet(ws.clusters[i].modules) :
              isEloquentModelModule(x) /\ resolvePHPModulePath(ws, x) # <<>>}}

\* The services that own a class for certain: a model class of that short name
\* is found through PSR-4, is the only one, and its table is spelt alike by
\* both plural rules and declared by no other model.
CertainOwners(ws, class) ==
  {NameOf(ws, i) : i \in {k \in DOMAIN ws.clusters :
     \E m \in ToSet(ws.clusters[k].modules) :
       /\ isEloquentModelModule(m) /\ Last(m) = class /\ Psr4Path(ws, m) # <<>>
       /\ \A p \in DOMAIN ws.files : Last(p) = class => p = Psr4Path(ws, m)
       /\ pluralSnake(class) = pluralizeSnake(class)
       /\ \A c \in DOMAIN ws.clusters : \A x \in ToSet(ws.clusters[c].modules) :
            x # m => ~Contains(TablesOf(ws, x), eloquentTableForModule(ws, m))}}

\* A belongsTo relation of a model of one service to a model of another makes
\* the plan depend on the other service: the table that the pipeline recorded
\* for the model (pipeline.go, eloquentTableForModule) is the table that the
\* deriver resolves the relation to (eloquent_deriver.go, parseEloquentModel).
ForeignKeysReachTheirOwner ==
  \A m \in Migrations :
    LET ws == source[m] IN
    ws.php /\ job[m].pc = "store" =>
      \A i \in DOMAIN ws.clusters :
        (\E c \in ToSet(job[m].contracts) : c.service = NameOf(ws, i)) =>
        \A class \in ModelClasses(ws, i) : \A r \in ToSet(class.relations) :
          LET column == [words |-> Append(r.method, "id"), camel |-> FALSE] IN
          class.eloquent /\ r.kind = "belongsTo" /\ r.column = <<>>
            /\ (\E d \in ToSet(class.doc) : d.name = column /\ ~isRelationDocType(d.type)) =>
          \A owner \in CertainOwners(ws, r.target) \ {NameOf(ws, i)} :
            \E s \in ToSet(plan[m].services) : s.name = NameOf(ws, i) /\ owner \in s.deps
==============================================================================

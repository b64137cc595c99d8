--------------------------- MODULE AnalysisStages ----------------------------
(***************************************************************************)
(* The stages of the analysis inside the worker process: jobs that run at  *)
(* the same time and share two caches, the latest versions of packages and *)
(* the advisories of package versions. The registries and the advisory     *)
(* database change underneath, any request may fail, an answer may be      *)
(* shorter than its batch, and a crash empties the caches.                 *)
(***************************************************************************)
EXTENDS AnalysisReport

CONSTANTS
  Jobs,
  Workspaces,          \* name -> source tree
  Assignments,         \* which jobs there are, and of which trees
  InitialRegistry,     \* <<ecosystem, package>> -> latest version
  Releases,            \* what may be published: <<key, version>>
  InitialAdvisories,   \* <<ecosystem, package, version>> -> advisories
  Disclosures,         \* what may be disclosed: <<key, advisory>>
  osvChunkSize,
  MaxCrashes

ASSUME AssignmentsAssumption ==
  \A a \in Assignments : \A j \in DOMAIN a : a[j] \in DOMAIN Workspaces

ASSUME ChunkAssumption == osvChunkSize \in Nat \ {0}

\* OSV lists finitely many advisories of a package version.
ASSUME AdvisoriesAssumption ==
  \A k \in DOMAIN InitialAdvisories : IsFiniteSet(InitialAdvisories[k])

VARIABLES
  job,          \* the job of each goroutine of the worker
  latestCache,  \* HTTPVersionResolver.cache
  scanCache,    \* OSVVulnerabilityScanner.cache
  registry,     \* the latest versions that the registries tell
  advisories,   \* the advisories that OSV knows
  crashes

vars == <<job, latestCache, scanCache, registry, advisories, crashes>>

world == <<registry, advisories, crashes>>

\* deps, techs, vulns: what the stages accumulate. i: the dependency that
\* stage 4 is at, latest: the registry's answer. toFetch, fetched: the keys
\* that stage 5 still asks for and what it got; lost: those that a short
\* answer left out. scan: none, ok or failed. report: the summary.
Idle(ws, pc) ==
  [ws |-> ws, pc |-> pc, deps |-> <<>>, techs |-> <<>>, i |-> 0, latest |-> NoVersion,
   toFetch |-> <<>>, fetched |-> <<>>, lost |-> {}, scan |-> "none", vulns |-> <<>>,
   report |-> <<>>]

Init ==
  /\ \E a \in Assignments :
       job = [j \in Jobs |-> IF j \in DOMAIN a THEN Idle(a[j], "acquire") ELSE Idle("", "none")]
  /\ latestCache = <<>>
  /\ scanCache = <<>>
  /\ registry = InitialRegistry
  /\ advisories = InitialAdvisories
  /\ crashes = 0

\* Mutant: the cache knows a package whatever its registry.
resolverCacheKeyOfPackage(d) == <<"", d.pkg>>

resolverCacheKey(d) == LatestKey(d)

\* The entries of both maps, those of the first before those of the second.
Over(f, g) == [k \in DOMAIN f \cup DOMAIN g |-> IF k \in DOMAIN f THEN f[k] ELSE g[k]]
With(f, key, value) == Over([k \in {key} |-> value], f)

At(j, pc) == job[j].pc = pc
Dep(j) == job[j].deps[job[j].i]

OnlyJob == UNCHANGED <<latestCache, scanCache, registry, advisories, crashes>>

-----------------------------------------------------------------------------
(* Stages 1 to 3b. *)

\* Acquire: the stored branch, else the one that the remote tells, else HEAD.
\* When all fail the directory is removed and the job fails.
Acquire(j) ==
  /\ At(j, "acquire")
  /\ \E pc \in {"parse", "failed"} : job' = [job EXCEPT ![j].pc = pc]
  /\ OnlyJob

\* A manifest that cannot be parsed fails the job; Run removes the clone.
Parse(j) ==
  /\ At(j, "parse")
  /\ LET ws == Workspaces[job[j].ws]
     IN \E a \in parseManifests(ws) :
          job' = [job EXCEPT ![j] =
                    IF ~a.ok THEN Idle(@.ws, "failed")
                    ELSE [@ EXCEPT !.pc = "resolve", !.deps = a.deps, !.i = 1,
                                   !.techs = Inventory(ws, a.deps)]]
  /\ OnlyJob

-----------------------------------------------------------------------------
(* Stage 4. *)

\* The dependency's technology gets the latest version and its status.
Resolved(r, latest) ==
  LET d == r.deps[r.i]
      t == techByName(r.techs, r.deps)[d.pkg]
      techs == [r.techs EXCEPT ![t].latest = latest,
                               ![t].status = versionStatus(d.version, latest)]
  IN [r EXCEPT !.techs = techs, !.i = @ + 1, !.pc = "resolve", !.latest = NoVersion]

CacheHit(j) ==
  /\ At(j, "resolve") /\ job[j].i <= Len(job[j].deps)
  /\ resolverCacheKey(Dep(j)) \in DOMAIN latestCache
  /\ job' = [job EXCEPT ![j] = Resolved(@, latestCache[resolverCacheKey(Dep(j))])]
  /\ OnlyJob

CacheMiss(j) ==
  /\ At(j, "resolve") /\ job[j].i <= Len(job[j].deps)
  /\ resolverCacheKey(Dep(j)) \notin DOMAIN latestCache
  /\ job' = [job EXCEPT ![j].pc = "fetch"]
  /\ OnlyJob

\* The registry answers; the answer is stored later, under the lock.
FetchLatest(j) ==
  /\ At(j, "fetch")
  /\ LatestKey(Dep(j)) \in DOMAIN registry
  /\ job' = [job EXCEPT ![j].pc = "store", ![j].latest = registry[LatestKey(Dep(j))]]
  /\ OnlyJob

\* Mutant: a failed request is made again.
FetchFailsAgain(j) ==
  /\ At(j, "fetch")
  /\ job' = [job EXCEPT ![j].pc = "resolve"]
  /\ OnlyJob

\* An error skips the dependency.
FetchFails(j) ==
  /\ At(j, "fetch")
  /\ job' = [job EXCEPT ![j].pc = "resolve", ![j].i = @ + 1]
  /\ OnlyJob

StoreLatest(j) ==
  /\ At(j, "store")
  /\ latestCache' = With(latestCache, resolverCacheKey(Dep(j)), job[j].latest)
  /\ job' = [job EXCEPT ![j] = Resolved(@, job[j].latest)]
  /\ UNCHANGED <<scanCache, world>>

-----------------------------------------------------------------------------
(* Stage 5. *)

\* The keys that are not cached yet, in any order.
ScanStart(j) ==
  /\ At(j, "resolve") /\ job[j].i > Len(job[j].deps)
  /\ LET keys == {ScanKey(d) : d \in Versioned(job[j].deps)}
     IN \E s \in SetToSeqs(keys \ DOMAIN scanCache) :
          job' = [job EXCEPT ![j].toFetch = s, ![j].i = 0,
                             ![j].pc = IF s = <<>> THEN "collect" ELSE "query"]
  /\ OnlyJob

\* One request. The results are positional; those that are missing at the end
\* leave their keys out.
QueryChunk(j) ==
  /\ At(j, "query") /\ job[j].toFetch # <<>>
  /\ LET chunk == SubSeq(job[j].toFetch, 1, Min({osvChunkSize, Len(job[j].toFetch)}))
     IN \E n \in 0 .. Len(chunk) :
          job' = [job EXCEPT
            ![j].fetched = Over([k \in ToSet(SubSeq(chunk, 1, n)) |-> Answer(advisories, k)], @),
            ![j].lost = @ \cup ToSet(SubSeq(chunk, n + 1, Len(chunk))),
            ![j].toFetch = SubSeq(@, Len(chunk) + 1, Len(@))]
  /\ OnlyJob

\* An error of any chunk: the scan has no result, and nothing is cached.
QueryFails(j) ==
  /\ At(j, "query") /\ job[j].toFetch # <<>>
  /\ job' = [job EXCEPT ![j].pc = "assess", ![j].scan = "failed", ![j].toFetch = <<>>,
                        ![j].fetched = <<>>, ![j].lost = {}]
  /\ OnlyJob

StoreScan(j) ==
  /\ At(j, "query") /\ job[j].toFetch = <<>>
  /\ scanCache' = Over(job[j].fetched, scanCache)
  /\ job' = [job EXCEPT ![j].pc = "collect", ![j].fetched = <<>>]
  /\ UNCHANGED <<latestCache, world>>

\* The report of a dependency is a copy, with a mark, when its version is
\* only the one of a constraint. Without a version there is none.
Collected(d, cache) ==
  LET found == IF d.version # NoVersion /\ ScanKey(d) \in DOMAIN cache
               THEN cache[ScanKey(d)] ELSE {}
  IN SetToSeq(IF d.approx THEN {withApproxMark(v) : v \in found} ELSE found)

Vulnerabilities(deps, cache) == FlattenSeq([i \in DOMAIN deps |-> Collected(deps[i], cache)])

\* Mutant: the mark is set on what the cache holds.
CollectShared(j) ==
  /\ At(j, "collect")
  /\ LET approx == {ScanKey(d) : d \in {e \in Versioned(job[j].deps) : e.approx}}
     IN /\ scanCache' = [k \in DOMAIN scanCache |->
                           IF k \in approx THEN {withApproxMark(v) : v \in scanCache[k]}
                           ELSE scanCache[k]]
        /\ job' = [job EXCEPT ![j].pc = "assess", ![j].scan = "ok",
                              ![j].vulns = Vulnerabilities(job[j].deps, scanCache')]
  /\ UNCHANGED <<latestCache, world>>

Collect(j) ==
  /\ At(j, "collect")
  /\ job' = [job EXCEPT ![j].pc = "assess", ![j].scan = "ok",
                        ![j].vulns = Vulnerabilities(job[j].deps, scanCache)]
  /\ OnlyJob

-----------------------------------------------------------------------------
(* Stage 6, and the environment. *)

\* Stages 6 to 6e; the summary is ready to be written.
Finish(j) ==
  /\ At(j, "assess")
  /\ LET r == job[j]
     IN job' = [job EXCEPT
          ![j].report = Assess(Workspaces[r.ws], r.techs, r.deps, r.vulns),
          ![j].pc = "done", ![j].techs = <<>>, ![j].vulns = <<>>]
  /\ OnlyJob

Publish ==
  /\ \E r \in Releases :
       /\ registry[r[1]] # r[2]
       /\ registry' = [registry EXCEPT ![r[1]] = r[2]]
  /\ UNCHANGED <<job, latestCache, scanCache, advisories, crashes>>

Disclose ==
  /\ \E d \in Disclosures :
       /\ d[2] \notin Known(advisories, d[1])
       /\ advisories' = With(advisories, d[1], Known(advisories, d[1]) \cup {d[2]})
  /\ UNCHANGED <<job, latestCache, scanCache, registry, crashes>>

Ended == {"done", "failed", "none"}

\* The worker restarts: the caches are empty, the queue redelivers the jobs.
Crash ==
  /\ crashes < MaxCrashes
  /\ crashes' = crashes + 1
  /\ latestCache' = <<>>
  /\ scanCache' = <<>>
  /\ job' = [j \in Jobs |-> IF job[j].pc \in Ended THEN job[j] ELSE Idle(job[j].ws, "acquire")]
  /\ UNCHANGED <<registry, advisories>>

Stage(j) ==
  \/ Acquire(j) \/ Parse(j)
  \/ CacheHit(j) \/ CacheMiss(j) \/ FetchLatest(j) \/ FetchFails(j) \/ StoreLatest(j)
  \/ ScanStart(j) \/ QueryChunk(j) \/ QueryFails(j) \/ StoreScan(j) \/ Collect(j)
  \/ Finish(j)

Next == Publish \/ Disclose \/ Crash \/ \E j \in Jobs : Stage(j)

Spec == Init /\ [][Next]_vars

-----------------------------------------------------------------------------
(* Properties. *)

\* What stage 3 hands on is a list of dependencies.
ManifestsGiveDependencies ==
  \A w \in DOMAIN Workspaces : \A a \in parseManifests(Workspaces[w]) : a.deps \in Seq(Dependencies)

\* What stage 6b hands on is a list of cards.
AnalyzersGiveLists ==
  \A w \in DOMAIN Workspaces :
    LET cards == moduleCards(Workspaces[w])
    IN Len(cards) \in Nat /\ DOMAIN cards = 1 .. Len(cards)

Done(j) == At(j, "done")
Tree(j) == Workspaces[job[j].ws]

\* The vulnerabilities that an answer tells of a dependency, with its mark.
Reported(d, adv) == {[v EXCEPT !.approx = d.approx] : v \in Answer(adv, ScanKey(d))}

\* Each of the vulnerabilities found is an advisory of one of the job's own
\* dependencies, and none that OSV knew before the worker started is missing,
\* unless an answer came without it.
IsReportOf(found, r, adv) ==
  LET deps == Versioned(r.deps)
  IN /\ found \subseteq UNION {Reported(d, adv) : d \in deps}
     /\ \A d \in deps : ScanKey(d) \notin r.lost => Reported(d, InitialAdvisories) \subseteq found

\* The vulnerabilities of a summary are its own dependencies' (Scan), marked
\* exactly when that version is only a constraint's, whatever the other jobs put
\* into the shared cache.
ReportIsOfItsDependencies ==
  \A j \in Jobs : Done(j) /\ job[j].scan = "ok" =>
    IsReportOf(ToSet(job[j].report.vulnerabilities), job[j], advisories)

\* The versions that a registry ever told for a package.
Told(key) ==
  {r[2] : r \in {x \in Releases : x[1] = key}}
    \cup (IF key \in DOMAIN InitialRegistry THEN {InitialRegistry[key]} ELSE {})

\* Whether stage 4 files a dependency's answer under a technology.
LeadsTo(d, t, deps) == d.pkg = t.name \/ \E e \in deps : e.pkg = d.pkg /\ e.display = t.name

\* A technology that a single dependency stands behind has that dependency's
\* version, a latest version that its own registry told, and the status that
\* follows from the two (stage 4), whichever jobs filled the cache.
StatusFollowsOnePackage ==
  \A j \in Jobs : Done(j) =>
    \A t \in ToSet(job[j].report.technologies), d \in ToSet(job[j].deps) :
      /\ t.status # "unspecified"
      /\ {i \in DOMAIN job[j].deps : LeadsTo(job[j].deps[i], t, ToSet(job[j].deps))}
           = {i \in DOMAIN job[j].deps : job[j].deps[i] = d}
      => /\ t.detected = d.version
         /\ t.latest \in Told(LatestKey(d))
         /\ t.status = versionStatus(t.detected, t.latest)

\* A short name that is not ambiguous is the name of one module only
\* (addAlias): every file that some import root knows by it is that module.  It is
\* stated of the trees of the instance, where short names collide across import
\* roots; of src/foo.py beside app/src/foo.py it does not hold: the first is the
\* module foo, its longer name src.foo is skipped, and the second gets that name.
AliasIsOneModule ==
  \A j \in Jobs : At(j, "parse") =>
    LET files == Tree(j).py
        m == buildPyModuleMap(files)
    IN \A a \in DOMAIN m.aliases \ m.ambiguous, f \in ToSet(files),
          r \in ToSet(detectPyImportRoots(files)) :
         Under(r, f) /\ pathToPyModule(r, f.path) = a => m.file[Key(f)] = m.aliases[a]

\* The modules reported for review (stage 6, B2) have code, no edge and no
\* test among them, and are production all the same: the counts of tests and
\* of production cover every card with code.
IslandsAreCounted ==
  \A j \in Jobs : Done(j) =>
    LET r == job[j].report
        all == moduleCards(Tree(j))
        coded == {i \in DOMAIN all : all[i].code}
    IN /\ r.unreachable \subseteq {all[i].module : i \in coded} \ (Nodes(r.graph) \cup r.tests)
       /\ r.production + r.testCount >= Cardinality(coded)

\* The stages that a job has before it, and the steps that it has left at most
\* in the one it is at.
Stages(r) ==
  CASE r.pc = "acquire" -> 6
    [] r.pc = "parse"   -> 5
    [] r.pc \in {"resolve", "fetch", "store"} -> 4
    [] r.pc = "query"   -> 3
    [] r.pc = "collect" -> 2
    [] r.pc = "assess"  -> 1
    [] OTHER            -> 0

Steps(r) ==
  LET after == Len(r.deps) - r.i
  IN CASE r.pc = "resolve" -> 3 * after + 3
       [] r.pc = "fetch"   -> 3 * after + 2
       [] r.pc = "store"   -> 3 * after + 1
       [] r.pc = "query"   -> Len(r.toFetch)
       [] OTHER            -> 0

Nearer(new, old) ==
  /\ Steps(new) \in Nat
  /\ \/ Stages(new) < Stages(old)
     \/ Stages(new) = Stages(old) /\ Steps(new) < Steps(old)

\* Neither failed requests nor short answers keep a stage going round: every
\* step of a job brings it nearer to its end, and only a crash sends it back.
StagesRunOut ==
  [][\A j \in Jobs : \/ job'[j] = job[j]
                     \/ Nearer(job'[j], job[j])
                     \/ crashes' # crashes]_vars
==============================================================================

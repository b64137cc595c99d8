------------------------------ MODULE Deliverable ------------------------------
(***************************************************************************)
(* What becomes of the generated files: the error lookup that the worker   *)
(* assembles, the conflict check before a push and the tree that a client  *)
(* downloads.  A file is its path and its content.  A path is an area of   *)
(* the monorepo and the service it belongs to; of a content only the names *)
(* it declares or lists and the ports it gives are kept.                   *)
(***************************************************************************)
EXTENDS Integers, Sequences, FiniteSets, SequencesExt, TLC

CONSTANTS
  Names,      \* service names, in the order of sort.Strings
  Monorepo    \* path -> content: the files under PRISM_MONOREPO_PATH

ASSUME NamesAssumption == Names \in Seq(STRING)

Pipeline == "__pipeline__"   \* sorts before every service name

ASSUME PipelineIsNoService == Pipeline \notin ToSet(Names)

Shared == "shared"
Path(area, of) == [area |-> area, of |-> of]
Content(names, ports) == [names |-> names, ports |-> ports]
NoPorts == <<>>

LookupPath == Path("lookup", Shared)   \* pkg/gateway/common/error/message_error.go

\* The right-hand function wins.
Override(f, g) == [x \in DOMAIN f \cup DOMAIN g |-> IF x \in DOMAIN g THEN g[x] ELSE f[x]]

-----------------------------------------------------------------------------
(* The error aggregator (generation worker). *)

\* *_errors.go: the files whose <X>ErrorMessages variables the lookup lists.
\* message_error.go has not that suffix.
IsErrors(p) == p.area = "errors"

Declared(tree) == UNION {tree[p].names : p \in {q \in DOMAIN tree : IsErrors(q)}}

scanExistingErrorVarNames == Declared(Monorepo)

\* Every variable is an entry of lookupErrorMessage, once, in sorted order.
buildMessageErrorGo(vars) == Content(vars, NoPorts)

\* A file as stored: who generated it, its path, its content.
Stored(s, p, c) == [service |-> s, path |-> p, content |-> c]

\* UpsertArtifacts: keyed by (service_name, path); other files of the service
\* stay.
Upsert(stored, new) ==
  {f \in stored : \A g \in new : <<f.service, f.path>> # <<g.service, g.path>>} \cup new

\* The variables of the services that are done and could be listed.
Overlay(stored, done) ==
  UNION {f.content.names : f \in {g \in stored : g.service \in done /\ IsErrors(g.path)}}

Aggregator(stored, done) ==
  LET vars == scanExistingErrorVarNames \cup Overlay(stored, done) IN
  IF vars = {} THEN {} ELSE {Stored(Pipeline, LookupPath, buildMessageErrorGo(vars))}

-----------------------------------------------------------------------------
(* Publication (migration service). *)

NoConflictCheck(stored) == {}

\* Two records with one path and different contents: MIG211.
detectPathConflicts(stored) ==
  {f.path : f \in {g \in stored : \E h \in stored : h.path = g.path /\ h.content # g.content}}

Publishable(stored) == stored # {} /\ detectPathConflicts(stored) = {}

-----------------------------------------------------------------------------
(* The assembler (migration service). *)

\* Only the services' entry points, their stubs and their sources, and the
\* platform's own gateway and protos, are pruned.
skipDir(area) == area \in {"main", "makefile", "config", "source", "stub", "proto", "gateway_main", "gateway_makefile"}

SkeletonWithoutErrors(p) == p.area \in {"gomod", "library"}

\* The platform's gRPC clients and message_error.go are left out by name.
isSkeletonFile(p) == p.area \in {"gomod", "library", "errors"}

walkSkeleton ==
  [p \in {q \in DOMAIN Monorepo : ~skipDir(q.area) /\ isSkeletonFile(q)} |-> Monorepo[p]]

\* ListArtifacts sorts by service name and path, and the last file of a path
\* stays in the map.
Position(s) == IF s = Pipeline THEN 0 ELSE CHOOSE i \in DOMAIN Names : Names[i] = s
LastWriter(stored, p) ==
  CHOOSE f \in stored : f.path = p /\ \A g \in stored : g.path = p => Position(g.service) <= Position(f.service)
Artifacts(stored) ==
  [p \in {f.path : f \in stored} |-> LastWriter(stored, p).content]

Merge(stored) == Override(walkSkeleton, Artifacts(stored))

\* Sorted slugs of core/cmd/<slug>-services/.
discoverGeneratedServices(tree) ==
  SelectSeq(Names, LAMBDA s : \E p \in DOMAIN tree : p.of = s /\ p.area \in {"main", "makefile", "config"})

FirstPort == 50051
PortOf(slugs, s) == FirstPort + (CHOOSE i \in DOMAIN slugs : slugs[i] = s) - 1

\* One example configuration per service, in the role that its main.go has.
detectTokenRole(tree, s) ==
  IF Path("main", s) \in DOMAIN tree /\ "TokenRoleGenerator" \in tree[Path("main", s)].names
    THEN "generator" ELSE "validator"

generateConfigExamples(tree) ==
  LET slugs == discoverGeneratedServices(tree) IN
  Override(tree, [p \in {Path("config", s) : s \in ToSet(slugs)} |->
                    Content({detectTokenRole(tree, p.of)}, p.of :> PortOf(slugs, p.of))])

generateServiceMakefiles(tree) ==
  Override(tree, [p \in {Path("makefile", s) : s \in ToSet(discoverGeneratedServices(tree))} |->
                    Content({"make"}, NoPorts)])

\* The services whose stub has a Register...HandlerFromEndpoint function.
discoverGatewayHandlers(tree) ==
  SelectSeq(Names, LAMBDA s : /\ Path("stub", s) \in DOMAIN tree
                              /\ "register" \in tree[Path("stub", s)].names)

gatewayMainGo(slugs) == Content(ToSet(slugs), NoPorts)

gatewayConfigExample(slugs) == [s \in ToSet(slugs) |-> PortOf(slugs, s)]

generateGatewayCode(tree) ==
  LET slugs == discoverGatewayHandlers(tree)
      file == [gateway_main |-> gatewayMainGo(slugs),
               gateway_makefile |-> Content({"make"}, NoPorts),
               gateway_config |-> Content({}, gatewayConfigExample(slugs))] IN
  IF slugs = <<>> THEN tree
  ELSE Override(tree, [p \in {Path(area, Shared) : area \in DOMAIN file} |-> file[p.area]])

Assemble(stored, useApiGateway) ==
  LET base == generateServiceMakefiles(generateConfigExamples(Merge(stored))) IN
  IF useApiGateway THEN generateGatewayCode(base) ELSE base

\* Files that the assembler writes itself, whatever an agent left there.
Synthetic == {"config", "makefile", "gateway_main", "gateway_makefile", "gateway_config"}
==============================================================================

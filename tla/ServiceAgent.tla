----------------------------- MODULE ServiceAgent -----------------------------
(***************************************************************************)
(* generateService, Invoke and the container runner: the goroutines of one *)
(* generation task, each of which runs an agent in a container over its    *)
(* own copy of the monorepo, up to maxServiceAttempts times, and stores a  *)
(* record and then the files.  Everything under the task's context fails   *)
(* once its 90 minutes are over; teardown uses contexts of its own.        *)
(***************************************************************************)
EXTENDS Deliverable

CONSTANTS
  Concurrencies,       \* the values PRISM_GENERATION_CONCURRENCY may have
  maxServiceAttempts,  \* 3 in the code
  Drafts,              \* service -> what an agent may leave in its workspace
  Within,              \* <<s, v>>: "<s>ErrorMessages," is part of v's line
  MaxFaults            \* bound: failing calls, lost containers, crashes

ASSUME AgentAssumption ==
  /\ Concurrencies \subseteq Nat \ {0}
  /\ maxServiceAttempts \in Nat \ {0}
  /\ MaxFaults \in Nat

Services == ToSet(Names)

VARIABLES
  concurrency,  \* weight of the semaphore
  call,         \* service -> its goroutine
  container,    \* service -> the container of its call
  workspace,    \* service -> whether the temporary directory of its call exists
  zombies,      \* containers and directories that no call owns any more
  network,      \* the bridge network of the agents exists
  expired,      \* the context of the task is over
  record,       \* service -> status in generation_results
  stored,       \* generation_file_artifacts
  faults,       \* faults so far
  passed        \* history: services whose container has exited with code 0

runnerVars == <<container, workspace, zombies, network>>
storeVars == <<record, stored>>
agentVars == <<concurrency, call, container, workspace, zombies, network, expired,
               record, stored, faults, passed>>

NoFiles == <<>>
Idle == [pc |-> "idle", attempt |-> 0, err |-> FALSE, code |-> 0,
         limited |-> FALSE, files |-> NoFiles, status |-> "none"]
At(s, pc) == call[s].pc = pc

\* Holders of the semaphore.
Holding(s) == call[s].pc \notin {"idle", "waiting", "ended"}
\* Between the first and the last statement of Invoke.
Invoking(s) == call[s].pc \in {"network", "create_network", "workspace", "create",
                               "start", "wait", "remove", "capture"}

Fault == faults < MaxFaults /\ faults' = faults + 1
NoFault == faults' = faults

\* A call under the task's context fails when that is over or by a fault.
CallFails == (expired /\ NoFault) \/ (~expired /\ Fault)
CallWorks == ~expired /\ NoFault

Goto(s, pc) == call' = [call EXCEPT ![s].pc = pc]

\* UpsertRecord: an error is logged.
UpsertRecord(s, status) ==
  \/ CallWorks /\ record' = [record EXCEPT ![s] = status]
  \/ CallFails /\ record' = record

-----------------------------------------------------------------------------
(* The semaphore and the start. *)

Acquire(s) ==
  /\ At(s, "waiting") /\ ~expired
  /\ Cardinality({t \in Services : Holding(t)}) < concurrency
  /\ UpsertRecord(s, "generating")
  /\ call' = [call EXCEPT ![s] = [Idle EXCEPT !.pc = "network", !.attempt = 1]]
  /\ UNCHANGED <<concurrency, runnerVars, expired, stored, passed>>

\* The record "context cancelled before generation started" is written with
\* the context that is over, so it never arrives.
AcquireCancelled(s) ==
  /\ At(s, "waiting") /\ expired
  /\ Goto(s, "ended")
  /\ UNCHANGED <<concurrency, runnerVars, expired, storeVars, faults, passed>>

-----------------------------------------------------------------------------
(* Retry and result. *)

GatesPassed(c) == c.code = 0

isTransientError(c) == c.err \/ c.limited

Retries(c) ==
  /\ c.err \/ ~GatesPassed(c)
  /\ isTransientError(c)
  /\ c.attempt < maxServiceAttempts

StatusByExitCode(c) == IF ~GatesPassed(c) THEN "failed" ELSE "done"
Status(c) == IF c.err \/ ~GatesPassed(c) THEN "failed" ELSE "done"

\* The end of an attempt: another one after a pause, or its status and files
\* are the result of the service.
Return(s, c) ==
  call' = [call EXCEPT ![s] =
    IF Retries(c)
      THEN [Idle EXCEPT !.pc = "backoff", !.attempt = c.attempt, !.files = c.files]
      ELSE [Idle EXCEPT !.pc = "persist", !.status = Status(c), !.files = c.files]]

\* An error before the container: Invoke returns InvokeResult{} and an error.
InvokeError(s) == Return(s, [Idle EXCEPT !.err = TRUE, !.attempt = call[s].attempt])

\* The pause ends early when the context does; the result of the attempt
\* before it is kept, with its files.
Backoff(s) ==
  /\ At(s, "backoff")
  /\ call' = [call EXCEPT ![s] =
       IF expired THEN [Idle EXCEPT !.pc = "persist", !.status = "failed", !.files = call[s].files]
       ELSE [Idle EXCEPT !.pc = "network", !.attempt = call[s].attempt + 1]]
  /\ UNCHANGED <<concurrency, runnerVars, expired, storeVars, faults, passed>>

-----------------------------------------------------------------------------
(* Invoke up to the container. *)

EnsureNetwork(s) ==
  /\ At(s, "network")
  /\ \/ CallWorks /\ Goto(s, IF network THEN "workspace" ELSE "create_network")
     \/ CallFails /\ InvokeError(s)
  /\ UNCHANGED <<concurrency, runnerVars, expired, storeVars, passed>>

\* Two agents may both have found no network: the second creation fails.
NetworkCreate(s) ==
  /\ At(s, "create_network")
  /\ \/ CallWorks /\ ~network /\ network' = TRUE /\ Goto(s, "workspace")
     \/ CallWorks /\ network /\ network' = network /\ InvokeError(s)
     \/ CallFails /\ network' = network /\ InvokeError(s)
  /\ UNCHANGED <<concurrency, container, workspace, zombies, expired, storeVars, passed>>

\* The copy, the removal of the service's old files and the patch of the
\* lookup; every error removes the directory.  The prompt and the first
\* snapshot follow.
PrepareWorkspace(s) ==
  /\ At(s, "workspace")
  /\ \/ NoFault /\ workspace' = [workspace EXCEPT ![s] = TRUE] /\ Goto(s, "create")
     \/ Fault /\ workspace' = workspace /\ InvokeError(s)
  /\ UNCHANGED <<concurrency, container, zombies, network, expired, storeVars, passed>>

-----------------------------------------------------------------------------
(* Run of the container runner. *)

\* RunResult{} has exit code 0: only the error tells that nothing ran.
RunError(s, pc, code) ==
  call' = [call EXCEPT ![s].pc = pc, ![s].err = TRUE, ![s].code = code, ![s].limited = FALSE]

ContainerCreate(s) ==
  /\ At(s, "create")
  /\ \/ CallWorks /\ container' = [container EXCEPT ![s] = "created"] /\ Goto(s, "start")
     \/ CallFails /\ container' = container /\ RunError(s, "capture", 0)
  /\ UNCHANGED <<concurrency, workspace, zombies, network, expired, storeVars, passed>>

StartWithoutTeardown(s) ==
  /\ At(s, "start")
  /\ \/ CallWorks /\ container' = [container EXCEPT ![s] = "running"] /\ Goto(s, "wait")
     \/ CallFails /\ container' = container /\ RunError(s, "capture", 0)
  /\ UNCHANGED <<concurrency, workspace, zombies, network, expired, storeVars, passed>>

ContainerStart(s) ==
  /\ At(s, "start")
  /\ \/ CallWorks /\ container' = [container EXCEPT ![s] = "running"] /\ Goto(s, "wait")
     \/ CallFails /\ container' = container /\ RunError(s, "remove", 0)
  /\ UNCHANGED <<concurrency, workspace, zombies, network, expired, storeVars, passed>>

\* What the workspace of s holds more than at the first snapshot; the lookup
\* was patched before it.
Lookup == IF LookupPath \in DOMAIN Monorepo THEN Monorepo[LookupPath].names ELSE {}
removeServiceFromErrorLookup(s) == {v \in Lookup : <<s, v>> \notin Within}
AgentFiles(s, d) ==
  IF d.lookup
    THEN Override(d.files, [p \in {LookupPath} |-> Content(removeServiceFromErrorLookup(s) \cup {s}, NoPorts)])
    ELSE d.files
\* captureArtifacts drops what is larger than maxArtifactBytes.
captureArtifacts(s, d) ==
  LET files == AgentFiles(s, d) IN
  [p \in DOMAIN files \ d.oversized |-> files[p]]

\* The agent ends: its gates are green, or red, or it was rate limited.
AgentExits(s) ==
  /\ At(s, "wait") /\ container[s] = "running"
  /\ \E d \in Drafts[s], code \in {0, 1}, limited \in BOOLEAN :
       /\ code = 0 => ~limited
       /\ call' = [call EXCEPT ![s].pc = "remove", ![s].err = FALSE, ![s].code = code,
                               ![s].limited = limited, ![s].files = captureArtifacts(s, d)]
       /\ passed' = IF code = 0 THEN passed \cup {s} ELSE passed
  /\ container' = [container EXCEPT ![s] = "exited"]
  /\ UNCHANGED <<concurrency, workspace, zombies, network, expired, storeVars, faults>>

\* The 60 minutes of the container or the 90 of the task are over: the
\* container is stopped and the wait returns the context's error.
WaitEndsWithTask(s) ==
  /\ At(s, "wait") /\ expired
  /\ container' = [container EXCEPT ![s] = "exited"]
  /\ call' = [call EXCEPT ![s].pc = "remove", ![s].err = TRUE]
  /\ UNCHANGED <<concurrency, workspace, zombies, network, expired, storeVars, faults, passed>>

WaitEnds(s) ==
  /\ At(s, "wait")
  /\ container' = [container EXCEPT ![s] = "exited"]
  /\ \E d \in Drafts[s] :
       call' = [call EXCEPT ![s].pc = "remove", ![s].err = TRUE, ![s].code = 0 - 1,
                            ![s].limited = FALSE, ![s].files = captureArtifacts(s, d)]
  /\ UNCHANGED <<concurrency, workspace, zombies, network, expired, storeVars, faults, passed>>

\* The deferred removal has a context of its own; its failure is logged and
\* leaves the container behind.
ContainerRemove(s) ==
  /\ At(s, "remove")
  /\ \/ NoFault /\ zombies' = zombies
     \/ Fault /\ zombies' = zombies + 1
  /\ container' = [container EXCEPT ![s] = "none"]
  /\ Goto(s, "capture")
  /\ UNCHANGED <<concurrency, workspace, network, expired, storeVars, passed>>

\* The files are read and the deferred cleanup removes the workspace.
LeaveInvoke(s) ==
  /\ At(s, "capture")
  /\ workspace' = [workspace EXCEPT ![s] = FALSE]
  /\ Return(s, call[s])
  /\ UNCHANGED <<concurrency, container, zombies, network, expired, storeVars, faults, passed>>

-----------------------------------------------------------------------------
(* The result. *)

Persist(s) ==
  /\ At(s, "persist")
  /\ UpsertRecord(s, call[s].status)
  /\ Goto(s, "files")
  /\ UNCHANGED <<concurrency, runnerVars, expired, stored, passed>>

\* Also the files of a failed attempt.  A write that fails as a whole is
\* repeated file by file, so that any part of the files may be missing.
UpsertArtifacts(s) ==
  /\ At(s, "files")
  /\ LET new == {Stored(s, p, call[s].files[p]) : p \in DOMAIN call[s].files} IN
     \/ CallWorks /\ stored' = Upsert(stored, new)
     \/ expired /\ NoFault /\ stored' = stored
     \/ ~expired /\ Fault /\ \E p \in DOMAIN call[s].files :
          stored' = Upsert(stored, {f \in new : f.path # p})
  /\ call' = [call EXCEPT ![s] = [Idle EXCEPT !.pc = "ended"]]
  /\ UNCHANGED <<concurrency, runnerVars, expired, record, passed>>

Goroutine(s) ==
  \/ Acquire(s) \/ AcquireCancelled(s) \/ EnsureNetwork(s) \/ NetworkCreate(s)
  \/ PrepareWorkspace(s) \/ ContainerCreate(s) \/ ContainerStart(s)
  \/ WaitEnds(s) \/ ContainerRemove(s) \/ LeaveInvoke(s)
  \/ Backoff(s) \/ Persist(s) \/ UpsertArtifacts(s)

AgentInit ==
  /\ concurrency \in Concurrencies
  /\ call = [s \in Services |-> Idle]
  /\ container = [s \in Services |-> "none"]
  /\ workspace = [s \in Services |-> FALSE]
  /\ zombies = 0
  /\ network = FALSE
  /\ expired = FALSE
  /\ record = [s \in Services |-> "none"]
  /\ stored = {}
  /\ faults = 0
  /\ passed = {}
==============================================================================

------------------------------- MODULE Delivery -------------------------------
(***************************************************************************)
(* One generation task over its deliveries: the pipeline starts a          *)
(* goroutine per service that is not done, waits for all of them, stores   *)
(* the error lookup and takes the migration to READY or FAILED.  The task  *)
(* is tried again after an error and after a crash of the worker, also one *)
(* between that update and the acknowledgement.  What a client then pushes *)
(* or downloads is a function of the stored files.                         *)
(***************************************************************************)
EXTENDS ServiceAgent

CONSTANT
  MaxRuns   \* bound: deliveries of the task (26 by asynq's default)

ASSUME DeliveryAssumption == MaxRuns \in Nat \ {0}

VARIABLES
  task,    \* the task: where the handler is and how often it was delivered
  state    \* of the migration

taskVars == <<task, state>>
vars == <<agentVars, taskVars>>

TaskAt(pc) == task.pc = pc
TaskTo(pc) == task' = [task EXCEPT !.pc = pc]

\* Run returned an error: asynq delivers the task again or archives it.
TaskError == TaskTo(IF task.runs < MaxRuns THEN "queued" ELSE "archived")

Done == {s \in Services : record[s] = "done"}

AlreadyDoneUnlisted(s) == FALSE

\* doneSet[svc.Name]
AlreadyDone(s) == record[s] = "done"

\* ReadPackage, the first ListRecords and the loop that starts the goroutines.
\* Every contract is complete here; GenerationWorker has the other ones.
StartRun ==
  /\ TaskAt("queued")
  /\ \/ /\ NoFault
        /\ call' = [s \in Services |->
             [Idle EXCEPT !.pc = IF AlreadyDone(s) THEN "ended" ELSE "waiting"]]
        /\ task' = [pc |-> "running", runs |-> task.runs + 1]
     \/ /\ Fault
        /\ task' = [pc |-> IF task.runs + 1 < MaxRuns THEN "queued" ELSE "archived",
                    runs |-> task.runs + 1]
        /\ UNCHANGED call
  /\ expired' = FALSE
  /\ UNCHANGED <<concurrency, runnerVars, storeVars, passed, state>>

\* wg.Wait returns; the final ListRecords.
ListFinal ==
  /\ TaskAt("running")
  /\ \A s \in Services : At(s, "ended")
  /\ \/ CallWorks /\ TaskTo("aggregate")
     \/ CallFails /\ TaskError
  /\ call' = [s \in Services |-> Idle]
  /\ UNCHANGED <<concurrency, runnerVars, expired, storeVars, passed, state>>

\* A service whose files cannot be listed is left out; a failing write is
\* logged.
assembleErrorAggregator ==
  /\ TaskAt("aggregate")
  /\ \/ CallWorks /\ stored' = Upsert(stored, Aggregator(stored, Done))
     \/ CallFails /\ stored' = stored
     \/ ~expired /\ Fault /\ \E s \in Done : stored' = Upsert(stored, Aggregator(stored, Done \ {s}))
  /\ TaskTo("mark")
  /\ UNCHANGED <<concurrency, call, runnerVars, expired, record, passed, state>>

\* READY unless a record says failed.
Outcome == IF \E s \in Services : record[s] = "failed" THEN "FAILED" ELSE "READY"

\* setFinalState, whatever the state is; an update that reports an error may
\* have been applied.
Mark ==
  /\ TaskAt("mark")
  /\ \/ CallWorks /\ state' = Outcome /\ TaskTo("ack")
     \/ CallFails /\ state' \in {state, Outcome} /\ TaskError
  /\ UNCHANGED <<concurrency, call, runnerVars, expired, storeVars, passed>>

\* Run has returned nil, and asynq takes the task from its queue.
Ack ==
  /\ TaskAt("ack")
  /\ TaskTo("ended")
  /\ UNCHANGED <<agentVars, state>>

\* The 90 minutes of the task are over.
Expire ==
  /\ task.pc \in {"running", "aggregate", "mark"} /\ ~expired
  /\ expired' = TRUE
  /\ UNCHANGED <<concurrency, call, runnerVars, storeVars, faults, passed, taskVars>>

\* The worker process dies.  Its containers and directories stay, and nothing
\* looks for them at start-up.  A task that was not acknowledged is delivered
\* again, and the next delivery does not look at the state of the migration.
Crash ==
  /\ task.pc \in {"running", "aggregate", "mark", "ack"}
  /\ Fault
  /\ zombies' = zombies + Cardinality({s \in Services : container[s] # "none" \/ workspace[s]})
  /\ container' = [s \in Services |-> "none"]
  /\ workspace' = [s \in Services |-> FALSE]
  /\ call' = [s \in Services |-> Idle]
  /\ TaskError
  /\ UNCHANGED <<concurrency, network, expired, storeVars, passed, state>>

TaskStep == StartRun \/ ListFinal \/ assembleErrorAggregator \/ Mark \/ Ack

Init == AgentInit /\ task = [pc |-> "queued", runs |-> 0] /\ state = "GENERATING"

Agents(s) == (AgentExits(s) \/ Goroutine(s)) /\ UNCHANGED taskVars

Next == TaskStep \/ Expire \/ Crash \/ \E s \in Services : Agents(s)

\* The worker's goroutines run; the timer of the container bounds the wait for
\* the agent (WaitEnds), so nothing is asked of the agent itself.
Fairness == WF_vars(TaskStep) /\ \A s \in Services : WF_vars(Goroutine(s) /\ UNCHANGED taskVars)

Spec == Init /\ [][Next]_vars /\ Fairness

-----------------------------------------------------------------------------
(* Properties. *)

\* While a worker lives it never runs more agents than its semaphore admits,
\* and every container it runs is inside a call that still holds the workspace
\* the container has mounted: errors of start, wait and timeout included, no
\* call leaves a container or a directory behind (docker_container_runner.go,
\* Run; claude_agent_invoker.go, Invoke).  What a failed removal or a crash
\* leaves is counted in zombies.
ContainersAreOwned ==
  /\ Cardinality({s \in Services : container[s] # "none"}) <= concurrency
  /\ \A s \in Services :
       /\ container[s] # "none" => At(s, "start") \/ At(s, "wait") \/ At(s, "remove")
       /\ container[s] # "none" => workspace[s]
       /\ workspace[s] => Invoking(s)

\* A service is recorded as done only if a container of it has exited with
\* code 0.  Run returns exit code 0 as well when nothing was started, and a
\* stopped container leaves files behind: the error has to win
\* (pipeline.go, generateService).
DoneWasGreen == \A s \in Services : record[s] = "done" => s \in passed

\* The error lookup that the pipeline assembled resolves in the tree that a
\* client downloads from a READY migration: every <X>ErrorMessages variable it
\* lists is declared by one of the *_errors.go files of the tree, whatever was
\* lost on the way and also while the task is delivered once more
\* (error_aggregator.go reads the monorepo and the stored files of done
\* services, assembler.go picks the skeleton on its own).  Two things take a
\* variable away, and no line of the code prevents them: an *_errors.go stored
\* twice with different contents, which PublishMigration refuses to push, and a
\* file of the platform that an agent has written anew without the variable.
LookupResolves ==
  LET tree == Assemble(stored, TRUE)
      written == {f.path : f \in stored}
      rewritten == Declared([p \in DOMAIN Monorepo \cap written |-> Monorepo[p]])
  IN  state = "READY" /\ (\A p \in detectPathConflicts(stored) : ~IsErrors(p)) =>
        \A f \in stored : f.service = Pipeline =>
          f.content.names \subseteq Declared(tree) \cup rewritten

\* A push and a download of one READY migration deliver the same generated
\* files: when the conflict check lets a push through, every file pushed is in
\* the downloaded tree with that content, except the templates that the
\* assembler writes itself (service.go, PublishMigration; assembler.go).
DownloadKeepsWhatIsPushed ==
  state = "READY" /\ Publishable(stored) =>
    LET tree == Assemble(stored, TRUE) IN
    \A f \in stored : f.path.area \in Synthetic \/ tree[f.path] = f.content

\* The task keeps what GenerationRecords promises: over goroutines, retries,
\* deadlines, crashes and deliveries a done service is never begun again or
\* recorded otherwise, a result follows a green agent, files are stored only to
\* complete a result or as the pipeline's lookup and leave those of others and
\* all older paths, and although a redelivery after a crash may undo READY or
\* FAILED, the task is acknowledged only with the outcome that the records have
\* (pipeline.go, Run and generateService; mongo_generation_store.go).
StoredPaths == [o \in Services \cup {Pipeline} |-> {f.path : f \in {g \in stored : g.service = o}}]
Life == CASE TaskAt("ended") -> "acknowledged" [] TaskAt("archived") -> "archived" [] OTHER -> "open"
Owed == {s \in Services : At(s, "files")}
Records == INSTANCE GenerationRecords WITH
  life <- Life, status <- record, green <- passed, owed <- Owed, paths <- StoredPaths
TaskKeepsItsRecords == Records!Spec

\* The task ends: every goroutine returns, whatever the agent does, and the
\* migration is marked or the task is archived.
TaskEnds == <>[](task.pc \in {"ended", "archived"})
==============================================================================

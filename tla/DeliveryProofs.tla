---------------------------- MODULE DeliveryProofs ----------------------------
(***************************************************************************)
(* The agents of a generation task, for any number of services, attempts,  *)
(* faults and deliveries of the task: the semaphore bounds the containers, *)
(* no call leaves one behind, and a service that is recorded as done has   *)
(* passed its gates.                                                       *)
(***************************************************************************)
EXTENDS Delivery, FiniteSetTheorems, WellFoundedInduction, TLAPS

-----------------------------------------------------------------------------
(* The inductive invariant. *)

\* f is a function on S.
Total(f, S) == f = [x \in S |-> f[x]]

CallFields == {"pc", "attempt", "err", "code", "limited", "files", "status"}

CallsShaped == Total(call, Services) /\ \A s \in Services : Total(call[s], CallFields)

Shaped ==
  /\ CallsShaped
  /\ Total(container, Services)
  /\ Total(workspace, Services)
  /\ Total(record, Services)
  /\ Total(task, {"pc", "runs"})
  /\ concurrency \in Nat

\* Inside Run, where a container may exist, and inside the part of Invoke in
\* which the workspace does.
Running == {"start", "wait", "remove"}
Mounted == Running \cup {"create", "capture"}

Holders == {s \in Services : Holding(s)}

\* The container and the workspace of a service follow its call, the semaphore
\* admits its weight and nobody is at work unless the pipeline waits for it.
Owned ==
  /\ \A s \in Services :
       /\ container[s] # "none" => call[s].pc \in Running
       /\ call[s].pc \in Mounted => workspace[s]
       /\ workspace[s] => call[s].pc \in Mounted
  /\ Cardinality(Holders) <= concurrency
  /\ task.pc # "running" => \A s \in Services : call[s].pc = "idle"

\* The result that a call carries to its record.
Carries(k, s) ==
  /\ k.pc \in {"remove", "capture"} => k.err \/ k.code # 0 \/ s \in passed
  /\ k.pc = "persist" => k.status = "failed" \/ (k.status = "done" /\ s \in passed)

Green == DoneWasGreen /\ \A s \in Services : Carries(call[s], s)

OwnedInv == Shaped /\ Owned
GreenInv == Shaped /\ Green

-----------------------------------------------------------------------------
(* The operators that move a call. *)

\* The services are finitely many: they are the members of a sequence.
LEMMA ServicesAreFinite == IsFiniteSet(Services)
<1> DEFINE f == [i \in DOMAIN Names |-> Names[i]]
<1>1. DOMAIN Names = 1 .. Len(Names) /\ Len(Names) \in Nat
  BY NamesAssumption
<1>2. IsFiniteSet(DOMAIN Names)
  BY <1>1, FS_Interval
<1>3. f \in Surjection(DOMAIN Names, Services)
  BY DEF Surjection, Services, ToSet
<1> QED  BY <1>2, <1>3, FS_Surjection

\* s, and no other service, is now at pc in the calls.
Moved(s, pcs) ==
  /\ CallsShaped'
  /\ \A t \in Services \ {s} : call'[t] = call[t]
  /\ call'[s].pc \in pcs

\* The call of s is replaced.
LEMMA Replaced ==
  ASSUME CallsShaped, NEW s \in Services, NEW k, Total(k, CallFields),
         call' = [call EXCEPT ![s] = k]
  PROVE  Moved(s, {k.pc}) /\ call'[s] = k
BY DEF CallsShaped, Moved, Total

\* Goto changes nothing of the call but its place.
LEMMA GotoMoves ==
  ASSUME CallsShaped, NEW s \in Services, NEW pc, Goto(s, pc)
  PROVE  /\ Moved(s, {pc})
         /\ \A f \in CallFields \ {"pc"} : call'[s][f] = call[s][f]
<1> DEFINE k == [call[s] EXCEPT !.pc = pc]
<1>1. Total(k, CallFields) /\ k.pc = pc /\ \A f \in CallFields \ {"pc"} : k[f] = call[s][f]
  BY DEF CallsShaped, Total, CallFields
<1>2. call' = [call EXCEPT ![s] = k]
  BY DEF Goto
<1> HIDE DEF k
<1> QED  BY <1>1, <1>2, Replaced

\* The fresh call has the fields of a call.
LEMMA IdleShape ==
  /\ Total(Idle, CallFields)
  /\ Idle.pc = "idle" /\ Idle.err = FALSE /\ Idle.code = 0 /\ Idle.status = "none"
  /\ Idle.files = NoFiles
BY DEF Idle, Total, CallFields

\* An attempt ends in a pause or in a result, and the result is done only if
\* the attempt had no error and exit code 0.
LEMMA ReturnMoves ==
  ASSUME CallsShaped, NEW s \in Services, NEW c, Return(s, c)
  PROVE  /\ Moved(s, {"backoff", "persist"})
         /\ call'[s].pc = "persist" =>
              call'[s].status = "failed" \/ (call'[s].status = "done" /\ ~c.err /\ c.code = 0)
         /\ call'[s].files = c.files
<1> DEFINE b == [Idle EXCEPT !.pc = "backoff", !.attempt = c.attempt, !.files = c.files]
           p == [Idle EXCEPT !.pc = "persist", !.status = Status(c), !.files = c.files]
           k == IF Retries(c) THEN b ELSE p
<1>1. Total(b, CallFields) /\ b.pc = "backoff" /\ b.files = c.files
  BY IdleShape DEF Total, CallFields
<1>2. Total(p, CallFields) /\ p.pc = "persist" /\ p.status = Status(c) /\ p.files = c.files
  BY IdleShape DEF Total, CallFields
<1>3. Status(c) = "failed" \/ (Status(c) = "done" /\ ~c.err /\ c.code = 0)
  BY DEF Status, GatesPassed
<1>4. call' = [call EXCEPT ![s] = k]
  BY DEF Return
<1> HIDE DEF b, p
<1>5. Total(k, CallFields) /\ k.pc \in {"backoff", "persist"}
      /\ (k.pc = "persist" => k.status = "failed" \/ (k.status = "done" /\ ~c.err /\ c.code = 0))
      /\ k.files = c.files
  BY <1>1, <1>2, <1>3
<1> HIDE DEF k
<1> QED  BY <1>4, <1>5, Replaced DEF Moved

\* An attempt that failed before its container never ends in done.
LEMMA InvokeErrorMoves ==
  ASSUME CallsShaped, NEW s \in Services, InvokeError(s)
  PROVE  /\ Moved(s, {"backoff", "persist"})
         /\ call'[s].pc = "persist" => call'[s].status = "failed"
         /\ call'[s].files = NoFiles
<1> DEFINE c == [Idle EXCEPT !.err = TRUE, !.attempt = call[s].attempt]
<1>1. c.err /\ c.files = NoFiles
  BY IdleShape DEF Total, CallFields
<1>2. Return(s, c)
  BY DEF InvokeError
<1> HIDE DEF c
<1> QED  BY <1>1, <1>2, ReturnMoves

\* The runner's error is remembered whatever the exit code says.
LEMMA RunErrorMoves ==
  ASSUME CallsShaped, NEW s \in Services, NEW pc, NEW code, RunError(s, pc, code)
  PROVE  Moved(s, {pc}) /\ call'[s].err /\ call'[s].files = call[s].files
<1> DEFINE k == [call[s] EXCEPT !.pc = pc, !.err = TRUE, !.code = code, !.limited = FALSE]
<1>1. Total(k, CallFields) /\ k.pc = pc /\ k.err /\ k.files = call[s].files
  BY DEF CallsShaped, Total, CallFields
<1>2. call' = [call EXCEPT ![s] = k]
  BY DEF RunError, CallsShaped, Total
<1> HIDE DEF k
<1> QED  BY <1>1, <1>2, Replaced

-----------------------------------------------------------------------------
(* The steps of a goroutine. *)

\* A step of the call of s leaves everything of the other services alone, keeps
\* the container and the workspace of s where its call is, and enters the
\* semaphore only where there is room.
KeepsOwned(s) ==
  /\ CallsShaped'
  /\ Total(container', Services)
  /\ Total(workspace', Services)
  /\ concurrency' = concurrency
  /\ \A t \in Services \ {s} :
       call'[t] = call[t] /\ container'[t] = container[t] /\ workspace'[t] = workspace[t]
  /\ container'[s] # "none" => call'[s].pc \in Running
  /\ call'[s].pc \in Mounted => workspace'[s]
  /\ workspace'[s] => call'[s].pc \in Mounted
  /\ call[s].pc # "idle"
  /\ \/ Holding(s)
     \/ call'[s].pc = "ended"
     \/ Cardinality(Holders) < concurrency

\* What a call may rely on when it begins, and a service on when it is recorded.
KeepsGreen(s) ==
  /\ CallsShaped'
  /\ Total(record', Services)
  /\ passed \subseteq passed'
  /\ \A t \in Services \ {s} : call'[t] = call[t] /\ record'[t] = record[t]
  /\ Carries(call[s], s)'
  /\ record'[s] = "done" => record[s] = "done" \/ s \in passed'

\* A new attempt begins with a fresh call.
LEMMA FreshMoves ==
  ASSUME CallsShaped, NEW s \in Services, NEW n,
         call' = [call EXCEPT ![s] = [Idle EXCEPT !.pc = "network", !.attempt = n]]
  PROVE  Moved(s, {"network"}) /\ call'[s].files = NoFiles
<1> DEFINE k == [Idle EXCEPT !.pc = "network", !.attempt = n]
<1>1. Total(k, CallFields) /\ k.pc = "network" /\ k.files = NoFiles
  BY IdleShape DEF Total, CallFields
<1> HIDE DEF k
<1>2. call' = [call EXCEPT ![s] = k]
  BY DEF k
<1> QED  BY <1>1, <1>2, Replaced

\* The goroutine ends with a fresh call.
LEMMA EndedMoves ==
  ASSUME CallsShaped, NEW s \in Services,
         call' = [call EXCEPT ![s] = [Idle EXCEPT !.pc = "ended"]]
  PROVE  Moved(s, {"ended"}) /\ call'[s].files = NoFiles
<1> DEFINE k == [Idle EXCEPT !.pc = "ended"]
<1>1. Total(k, CallFields) /\ k.pc = "ended" /\ k.files = NoFiles
  BY IdleShape DEF Total, CallFields
<1> HIDE DEF k
<1>2. call' = [call EXCEPT ![s] = k]
  BY DEF k
<1> QED  BY <1>1, <1>2, Replaced

\* The pause ends in a new attempt, or in the failure before it.
LEMMA BackoffMoves ==
  ASSUME CallsShaped, NEW s \in Services, Backoff(s)
  PROVE  /\ Moved(s, {"network", "persist"})
         /\ call'[s].pc = "persist" => call'[s].status = "failed"
         /\ call'[s].files = NoFiles \/ call'[s].files = call[s].files
<1> DEFINE p == [Idle EXCEPT !.pc = "persist", !.status = "failed", !.files = call[s].files]
           n == [Idle EXCEPT !.pc = "network", !.attempt = call[s].attempt + 1]
           k == IF expired THEN p ELSE n
<1>1. Total(p, CallFields) /\ p.pc = "persist" /\ p.status = "failed" /\ p.files = call[s].files
  BY IdleShape DEF Total, CallFields
<1>2. Total(n, CallFields) /\ n.pc = "network" /\ n.files = NoFiles
  BY IdleShape DEF Total, CallFields
<1>3. call' = [call EXCEPT ![s] = k]
  BY DEF Backoff
<1> HIDE DEF p, n
<1>4. Total(k, CallFields) /\ k.pc \in {"network", "persist"}
      /\ (k.pc = "persist" => k.status = "failed")
      /\ (k.files = NoFiles \/ k.files = call[s].files)
  BY <1>1, <1>2
<1> HIDE DEF k
<1> QED  BY <1>3, <1>4, Replaced DEF Moved

\* The agent ends by itself: exit code 0 is remembered in passed.
LEMMA AgentExitsMoves ==
  ASSUME CallsShaped, NEW s \in Services, AgentExits(s)
  PROVE  /\ Moved(s, {"remove"})
         /\ passed \subseteq passed'
         /\ call'[s].code # 0 \/ s \in passed'
         /\ \E d \in Drafts[s] : call'[s].files = captureArtifacts(s, d)
<1>1. PICK d \in Drafts[s], code \in {0, 1}, limited \in BOOLEAN :
        /\ call' = [call EXCEPT ![s].pc = "remove", ![s].err = FALSE, ![s].code = code,
                                ![s].limited = limited, ![s].files = captureArtifacts(s, d)]
        /\ passed' = IF code = 0 THEN passed \cup {s} ELSE passed
  BY DEF AgentExits
<1> DEFINE files == captureArtifacts(s, d)
<1> HIDE DEF files
<1> DEFINE k == [call[s] EXCEPT !.pc = "remove", !.err = FALSE, !.code = code,
                                !.limited = limited, !.files = files]
<1>2. Total(k, CallFields) /\ k.pc = "remove" /\ k.code = code /\ k.files = files
  BY DEF CallsShaped, Total, CallFields
<1>3. call' = [call EXCEPT ![s] = k]
  BY <1>1 DEF CallsShaped, Total, files
<1> HIDE DEF k
<1>4. Moved(s, {"remove"}) /\ call'[s] = k
  BY <1>2, <1>3, Replaced
<1> QED  BY <1>1, <1>2, <1>4 DEF files

\* The wait ends with the context: an error.
LEMMA WaitEndsMoves ==
  ASSUME CallsShaped, NEW s \in Services, WaitEnds(s)
  PROVE  /\ Moved(s, {"remove"}) /\ call'[s].err
         /\ \E d \in Drafts[s] : call'[s].files = captureArtifacts(s, d)
<1>1. PICK d \in Drafts[s] :
        call' = [call EXCEPT ![s].pc = "remove", ![s].err = TRUE, ![s].code = 0 - 1,
                             ![s].limited = FALSE, ![s].files = captureArtifacts(s, d)]
  BY DEF WaitEnds
<1> DEFINE files == captureArtifacts(s, d)
<1> HIDE DEF files
<1> DEFINE k == [call[s] EXCEPT !.pc = "remove", !.err = TRUE, !.code = 0 - 1,
                                !.limited = FALSE, !.files = files]
<1>2. Total(k, CallFields) /\ k.pc = "remove" /\ k.err /\ k.files = files
  BY DEF CallsShaped, Total, CallFields
<1>3. call' = [call EXCEPT ![s] = k]
  BY <1>1 DEF CallsShaped, Total, files
<1> HIDE DEF k
<1>4. Moved(s, {"remove"}) /\ call'[s] = k
  BY <1>2, <1>3, Replaced
<1> QED  BY <1>2, <1>4 DEF files

\* Every step of a goroutine keeps its container and its workspace in step with
\* its call.
LEMMA AgentKeepsOwned ==
  ASSUME OwnedInv, NEW s \in Services, AgentExits(s) \/ Goroutine(s)
  PROVE  KeepsOwned(s)
<1> USE DEF OwnedInv, Shaped, KeepsOwned, Moved, At, runnerVars
<1>0. /\ container[s] # "none" => call[s].pc \in Running
      /\ call[s].pc \in Mounted => workspace[s]
      /\ workspace[s] => call[s].pc \in Mounted
  BY DEF Owned
<1>1. CASE AgentExits(s)
  BY <1>0, <1>1, AgentExitsMoves DEF AgentExits, Holding, Running, Mounted, Total
<1>2. CASE Acquire(s)
  BY <1>0, <1>2, FreshMoves DEF Acquire, Holding, Running, Mounted, Total, Holders
<1>3. CASE AcquireCancelled(s)
  BY <1>0, <1>3, GotoMoves DEF AcquireCancelled, Holding, Running, Mounted, Total
<1>4. CASE EnsureNetwork(s)
  BY <1>0, <1>4, GotoMoves, InvokeErrorMoves DEF EnsureNetwork, Holding, Running, Mounted, Total
<1>5. CASE NetworkCreate(s)
  BY <1>0, <1>5, GotoMoves, InvokeErrorMoves DEF NetworkCreate, Holding, Running, Mounted, Total
<1>6. CASE PrepareWorkspace(s)
  BY <1>0, <1>6, GotoMoves, InvokeErrorMoves DEF PrepareWorkspace, Holding, Running, Mounted, Total
<1>7. CASE ContainerCreate(s)
  BY <1>0, <1>7, GotoMoves, RunErrorMoves DEF ContainerCreate, Holding, Running, Mounted, Total
<1>8. CASE ContainerStart(s)
  BY <1>0, <1>8, GotoMoves, RunErrorMoves DEF ContainerStart, Holding, Running, Mounted, Total
<1>9. CASE WaitEnds(s)
  BY <1>0, <1>9, WaitEndsMoves DEF WaitEnds, Holding, Running, Mounted, Total
<1>10. CASE ContainerRemove(s)
  BY <1>0, <1>10, GotoMoves DEF ContainerRemove, Holding, Running, Mounted, Total
<1>11. CASE LeaveInvoke(s)
  BY <1>0, <1>11, ReturnMoves DEF LeaveInvoke, Holding, Running, Mounted, Total
<1>12. CASE Backoff(s)
  BY <1>0, <1>12, BackoffMoves DEF Backoff, Holding, Running, Mounted, Total
<1>13. CASE Persist(s)
  BY <1>0, <1>13, GotoMoves DEF Persist, Holding, Running, Mounted, Total
<1>14. CASE UpsertArtifacts(s)
  BY <1>0, <1>14, EndedMoves DEF UpsertArtifacts, Holding, Running, Mounted, Total
<1> QED  BY <1>1, <1>2, <1>3, <1>4, <1>5, <1>6, <1>7, <1>8, <1>9, <1>10, <1>11, <1>12, <1>13, <1>14 DEF Goroutine

\* Every step of a goroutine keeps its result honest.
LEMMA AgentKeepsGreen ==
  ASSUME GreenInv, NEW s \in Services, AgentExits(s) \/ Goroutine(s)
  PROVE  KeepsGreen(s)
<1> USE DEF GreenInv, Shaped, KeepsGreen, Moved, At, storeVars, Carries
<1>0. Carries(call[s], s)
  BY DEF Green
<1>1. CASE AgentExits(s)
  BY <1>0, <1>1, AgentExitsMoves DEF AgentExits, CallFields, Total
<1>2. CASE Acquire(s)
  BY <1>0, <1>2, FreshMoves DEF Acquire, CallFields, Total, UpsertRecord
<1>3. CASE AcquireCancelled(s)
  BY <1>0, <1>3, GotoMoves DEF AcquireCancelled, CallFields, Total
<1>4. CASE EnsureNetwork(s)
  BY <1>0, <1>4, GotoMoves, InvokeErrorMoves DEF EnsureNetwork, CallFields, Total
<1>5. CASE NetworkCreate(s)
  BY <1>0, <1>5, GotoMoves, InvokeErrorMoves DEF NetworkCreate, CallFields, Total
<1>6. CASE PrepareWorkspace(s)
  BY <1>0, <1>6, GotoMoves, InvokeErrorMoves DEF PrepareWorkspace, CallFields, Total
<1>7. CASE ContainerCreate(s)
  BY <1>0, <1>7, GotoMoves, RunErrorMoves DEF ContainerCreate, CallFields, Total
<1>8. CASE ContainerStart(s)
  BY <1>0, <1>8, GotoMoves, RunErrorMoves DEF ContainerStart, CallFields, Total
<1>9. CASE WaitEnds(s)
  BY <1>0, <1>9, WaitEndsMoves DEF WaitEnds, CallFields, Total
<1>10. CASE ContainerRemove(s)
  BY <1>0, <1>10, GotoMoves DEF ContainerRemove, CallFields, Total
<1>11. CASE LeaveInvoke(s)
  BY <1>0, <1>11, ReturnMoves DEF LeaveInvoke, CallFields, Total
<1>12. CASE Backoff(s)
  BY <1>0, <1>12, BackoffMoves DEF Backoff, CallFields, Total
<1>13. CASE Persist(s)
  BY <1>0, <1>13, GotoMoves DEF Persist, CallFields, Total, UpsertRecord
<1>14. CASE UpsertArtifacts(s)
  BY <1>0, <1>14, EndedMoves DEF UpsertArtifacts, CallFields, Total
<1> QED  BY <1>1, <1>2, <1>3, <1>4, <1>5, <1>6, <1>7, <1>8, <1>9, <1>10, <1>11, <1>12, <1>13, <1>14 DEF Goroutine

-----------------------------------------------------------------------------
(* The theorems. *)

\* All calls idle: nobody holds the semaphore.
LEMMA IdleCalls ==
  ASSUME call' = [s \in Services |-> Idle]
  PROVE  CallsShaped' /\ \A s \in Services : call'[s].pc = "idle"
BY IdleShape DEF CallsShaped, Total

\* The pipeline starts a goroutine for every service that is not done.
LEMMA StartedCalls ==
  ASSUME call' = [s \in Services |->
           [Idle EXCEPT !.pc = IF AlreadyDone(s) THEN "ended" ELSE "waiting"]]
  PROVE  CallsShaped' /\ \A s \in Services : call'[s].pc \in {"ended", "waiting"}
<1> DEFINE k(s) == [Idle EXCEPT !.pc = IF AlreadyDone(s) THEN "ended" ELSE "waiting"]
<1>1. \A s \in Services : Total(k(s), CallFields) /\ k(s).pc \in {"ended", "waiting"}
  BY IdleShape DEF Total, CallFields
<1>2. call' = [s \in Services |-> k(s)]
  OBVIOUS
<1> HIDE DEF k
<1> QED  BY <1>1, <1>2 DEF CallsShaped, Total

\* The set of holders never outgrows the semaphore when nobody enters, or when
\* one service does while there is room.
LEMMA HoldersBounded ==
  ASSUME NEW S \in SUBSET Services, NEW T \in SUBSET Services, NEW s \in Services,
         NEW n \in Nat, Cardinality(S) <= n,
         T \subseteq S \/ (T \subseteq S \cup {s} /\ Cardinality(S) < n)
  PROVE  Cardinality(T) <= n
<1>1. IsFiniteSet(S) /\ IsFiniteSet(S \cup {s})
  BY ServicesAreFinite, FS_Subset
<1>2. Cardinality(S) \in Nat /\ Cardinality(S \cup {s}) <= Cardinality(S) + 1
      /\ Cardinality(S \cup {s}) \in Nat
  BY <1>1, FS_AddElement, FS_CardinalityType
<1>3. IsFiniteSet(T) /\ Cardinality(T) \in Nat
  BY ServicesAreFinite, FS_Subset, FS_CardinalityType
<1>4. CASE T \subseteq S
  <2>1. Cardinality(T) <= Cardinality(S)
    BY <1>1, <1>4, FS_Subset
  <2> QED  BY <1>2, <1>3, <2>1
<1>5. CASE T \subseteq S \cup {s} /\ Cardinality(S) < n
  <2>1. Cardinality(T) <= Cardinality(S \cup {s})
    BY <1>1, <1>5, FS_Subset
  <2> QED  BY <1>2, <1>3, <1>5, <2>1
<1> QED  BY <1>4, <1>5

\* Nobody holds what nobody entered.
LEMMA NoHolders ==
  ASSUME concurrency' \in Nat,
         \A s \in Services : call'[s].pc \in {"idle", "waiting", "ended"}
  PROVE  (Cardinality(Holders) <= concurrency)'
<1>1. Holders' = {}
  BY DEF Holders, Holding
<1>2. Cardinality(Holders') = 0
  BY <1>1, FS_EmptySet
<1> QED  BY <1>2

\* A delivery of the task begins with every call idle.
LEMMA InitOwned == Init => OwnedInv
<1> SUFFICES ASSUME Init PROVE OwnedInv
  OBVIOUS
<1>1. Shaped
  BY IdleShape, AgentAssumption DEF Init, AgentInit, Shaped, CallsShaped, Total
<1>2. \A s \in Services : call[s].pc = "idle" /\ container[s] = "none" /\ ~workspace[s]
  BY IdleShape DEF Init, AgentInit
<1>3. Holders = {}
  BY <1>2 DEF Holders, Holding
<1>4. Cardinality(Holders) <= concurrency
  BY <1>1, <1>3, FS_EmptySet DEF Shaped
<1> QED  BY <1>1, <1>2, <1>4 DEF OwnedInv, Owned, Mounted, Running

\* The task itself starts, awaits and forgets the calls as a whole.
LEMMA TaskOwned ==
  ASSUME OwnedInv, TaskStep \/ Expire \/ Crash
  PROVE  OwnedInv'
<1> USE DEF OwnedInv, runnerVars, storeVars, taskVars
<1>0. /\ Total(task, {"pc", "runs"}) /\ concurrency \in Nat
      /\ \A s \in Services : call[s].pc = "idle" => container[s] = "none" /\ ~workspace[s]
      /\ \A s \in Services : call[s].pc = "ended" => container[s] = "none" /\ ~workspace[s]
  BY DEF Shaped, Owned, Running, Mounted
<1>1. Total(task', {"pc", "runs"})
  BY <1>0 DEF TaskStep, StartRun, ListFinal, assembleErrorAggregator, Mark, Ack, Expire, Crash,
              TaskTo, TaskError, Total
<1>2. concurrency' = concurrency /\ Total(record', Services)
  BY DEF TaskStep, StartRun, ListFinal, assembleErrorAggregator, Mark, Ack, Expire, Crash, Shaped, agentVars
<1>3. CASE call' = call /\ container' = container /\ workspace' = workspace
           /\ (task.pc # "running" \/ task'.pc = "running")
  BY <1>1, <1>2, <1>3 DEF Shaped, CallsShaped, Owned, Holders, Holding
<1>4. CASE StartRun /\ call' # call
  <2>1. \A s \in Services : container[s] = "none" /\ ~workspace[s]
    BY <1>0, <1>4 DEF StartRun, TaskAt, Owned
  <2>2. CallsShaped' /\ \A s \in Services : call'[s].pc \in {"ended", "waiting"}
    BY <1>4, StartedCalls DEF StartRun
  <2>3. container' = container /\ workspace' = workspace /\ task'.pc = "running"
    BY <1>4 DEF StartRun
  <2>4. (Cardinality(Holders) <= concurrency)'
    BY <1>0, <1>2, <2>2, NoHolders
  <2> QED  BY <1>0, <1>1, <1>2, <2>1, <2>2, <2>3, <2>4 DEF Shaped, Owned, Running, Mounted
<1>5. CASE ListFinal \/ Crash
  <2>1. \A s \in Services : container'[s] = "none" /\ ~workspace'[s]
    BY <1>0, <1>5 DEF ListFinal, Crash, At
  <2>2. CallsShaped' /\ \A s \in Services : call'[s].pc = "idle"
    BY <1>5, IdleCalls DEF ListFinal, Crash
  <2>3. Total(container', Services) /\ Total(workspace', Services)
    BY <1>5 DEF ListFinal, Crash, Shaped, Total
  <2>4. (Cardinality(Holders) <= concurrency)'
    BY <1>0, <1>2, <2>2, NoHolders
  <2> QED  BY <1>0, <1>1, <1>2, <2>1, <2>2, <2>3, <2>4 DEF Shaped, Owned, Running, Mounted
<1>6. StartRun /\ call' = call => container' = container /\ workspace' = workspace /\ task.pc # "running"
  BY DEF StartRun, TaskAt
<1>7. assembleErrorAggregator \/ Mark \/ Ack \/ Expire =>
        /\ call' = call /\ container' = container /\ workspace' = workspace
        /\ task.pc # "running" \/ task'.pc = "running"
  BY DEF assembleErrorAggregator, Mark, Ack, Expire, TaskAt, agentVars
<1> QED  BY <1>3, <1>4, <1>5, <1>6, <1>7 DEF TaskStep

\* Every step keeps containers and workspaces owned.
LEMMA NextOwned == OwnedInv /\ [Next]_vars => OwnedInv'
<1> SUFFICES ASSUME OwnedInv, [Next]_vars PROVE OwnedInv'
  OBVIOUS
<1>1. CASE UNCHANGED vars
  BY <1>1 DEF vars, agentVars, taskVars, OwnedInv, Shaped, CallsShaped, Owned, Holders, Holding
<1>2. CASE TaskStep \/ Expire \/ Crash
  BY <1>2, TaskOwned
<1>3. ASSUME NEW s \in Services, Agents(s) PROVE OwnedInv'
  <2>1. KeepsOwned(s)
    BY <1>3, AgentKeepsOwned DEF Agents
  <2>2. task' = task /\ Total(record', Services)
    <3>1. task' = task
      BY <1>3 DEF Agents, taskVars
    <3>2. Total(record', Services)
      BY <1>3 DEF Agents, AgentExits, Goroutine, Acquire, AcquireCancelled, EnsureNetwork,
           NetworkCreate, PrepareWorkspace, ContainerCreate, ContainerStart, WaitEnds,
           ContainerRemove, LeaveInvoke, Backoff, Persist, UpsertArtifacts, UpsertRecord,
           storeVars, OwnedInv, Shaped, Total
    <3> QED  BY <3>1, <3>2
  <2>3. Shaped'
    BY <2>1, <2>2 DEF OwnedInv, Shaped, KeepsOwned
  <2>4. task'.pc # "running" => FALSE
    BY <2>1, <2>2 DEF KeepsOwned, OwnedInv, Owned
  <2>5. Holders' \subseteq Holders \/ (Holders' \subseteq Holders \cup {s} /\ Cardinality(Holders) < concurrency)
    BY <2>1 DEF KeepsOwned, Holders, Holding
  <2>6. (Cardinality(Holders) <= concurrency)'
    <3>1. Holders \in SUBSET Services /\ Holders' \in SUBSET Services
      BY DEF Holders
    <3>2. concurrency \in Nat /\ Cardinality(Holders) <= concurrency /\ concurrency' = concurrency
      BY <2>1 DEF OwnedInv, Shaped, Owned, KeepsOwned
    <3> QED  BY <2>5, <3>1, <3>2, HoldersBounded
  <2>7. \A t \in Services :
          /\ container'[t] # "none" => call'[t].pc \in Running
          /\ call'[t].pc \in Mounted => workspace'[t]
          /\ workspace'[t] => call'[t].pc \in Mounted
    BY <2>1 DEF KeepsOwned, OwnedInv, Owned
  <2> QED  BY <2>3, <2>4, <2>6, <2>7 DEF OwnedInv, Owned
<1> QED  BY <1>1, <1>2, <1>3 DEF Next

\* ContainersAreOwned for every number of services, attempts, faults, deliveries
\* and every weight of the semaphore: no failing call, timeout or interleaving
\* of the goroutines leaves a container or a workspace outside the Invoke that
\* made it, and no more run than the semaphore admits.
THEOREM AgentsOwnTheirContainers == Spec => []ContainersAreOwned
<1>1. OwnedInv => ContainersAreOwned
  <2> SUFFICES ASSUME OwnedInv PROVE ContainersAreOwned
    OBVIOUS
  <2> DEFINE live == {s \in Services : container[s] # "none"}
  <2>1. live \subseteq Holders
    BY DEF OwnedInv, Owned, Holders, Holding, Running
  <2>2. Cardinality(live) <= concurrency
    <3>1. Holders \in SUBSET Services /\ live \in SUBSET Services
      BY DEF Holders
    <3>2. concurrency \in Nat /\ Cardinality(Holders) <= concurrency
      BY DEF OwnedInv, Shaped, Owned
    <3>3. CASE Services = {}
      <4>1. live = {}
        BY <3>3
      <4> QED  BY <4>1, <3>2, FS_EmptySet
    <3>4. CASE \E s : s \in Services
      <4> HIDE DEF live
      <4> QED  BY <3>1, <3>2, <3>4, <2>1, HoldersBounded
    <3> QED  BY <3>3, <3>4
  <2> QED  BY <2>2 DEF OwnedInv, Owned, ContainersAreOwned, At, Invoking, Running, Mounted
<1> QED  BY InitOwned, NextOwned, <1>1, PTL DEF Spec

\* No call carries a result at first.
LEMMA InitGreen == Init => GreenInv
<1> SUFFICES ASSUME Init PROVE GreenInv
  OBVIOUS
<1>1. Shaped
  BY InitOwned DEF OwnedInv
<1> QED  BY <1>1, IdleShape
         DEF Init, AgentInit, GreenInv, Green, DoneWasGreen, Carries

\* Every step keeps records and results honest.
LEMMA NextGreen == OwnedInv /\ GreenInv /\ [Next]_vars => GreenInv'
<1> SUFFICES ASSUME OwnedInv, GreenInv, [Next]_vars PROVE GreenInv'
  OBVIOUS
<1>0. Shaped'
  BY NextOwned DEF OwnedInv
<1>1. CASE UNCHANGED vars
  BY <1>0, <1>1 DEF vars, agentVars, GreenInv, Green, DoneWasGreen, Carries
<1>2. CASE TaskStep \/ Expire \/ Crash
  <2>1. record' = record /\ passed' = passed
    BY <1>2 DEF TaskStep, StartRun, ListFinal, assembleErrorAggregator, Mark, Ack, Expire, Crash, storeVars, agentVars
  <2>2. \/ call' = call
        \/ \A s \in Services : call'[s].pc \in {"idle", "waiting", "ended"}
    BY <1>2, IdleCalls, StartedCalls
       DEF TaskStep, StartRun, ListFinal, assembleErrorAggregator, Mark, Ack, Expire, Crash, agentVars
  <2> QED  BY <1>0, <2>1, <2>2 DEF GreenInv, Green, DoneWasGreen, Carries
<1>3. ASSUME NEW s \in Services, Agents(s) PROVE GreenInv'
  <2>1. KeepsGreen(s)
    BY <1>3, AgentKeepsGreen DEF Agents
  <2> QED  BY <1>0, <2>1 DEF KeepsGreen, GreenInv, Green, DoneWasGreen, Carries
<1> QED  BY <1>1, <1>2, <1>3 DEF Next

\* DoneWasGreen for every number of services, attempts, faults and deliveries:
\* the exit code 0 of a run that never started, the code of a container that
\* was stopped and a pause cut short never become the record "done".
THEOREM DoneMeansGreen == Spec => []DoneWasGreen
<1>1. GreenInv => DoneWasGreen
  BY DEF GreenInv, Green
<1> QED  BY InitOwned, NextOwned, InitGreen, NextGreen, <1>1, PTL DEF Spec

-----------------------------------------------------------------------------
(* Push and download. *)

\* Every stored file was generated by a service or by the pipeline.
StoredInv == \A f \in stored : f.service \in Services \cup {Pipeline}

\* Numbers that are bounded have a largest one.
LEMMA LargestMember ==
  ASSUME NEW n \in Nat, NEW S \in SUBSET (0 .. n), S # {}
  PROVE  \E x \in S : \A y \in S : y <= x
<1> DEFINE T == {n - x : x \in S}
           R == OpToRel(<, Nat)
<1>0. T \subseteq Nat /\ T # {}
  <2>1. \A x \in S : n - x \in Nat
    OBVIOUS
  <2>2. PICK x : x \in S
    OBVIOUS
  <2>3. n - x \in T
    BY <2>2
  <2> QED  BY <2>1, <2>3
<1>1. \E x \in T : \A y \in T : ~ (<<y, x>> \in R)
  <2> HIDE DEF T
  <2> QED  BY <1>0, WFMin, NatLessThanWellFounded, Zenon
<1>2. ASSUME NEW x \in T, NEW y \in T, y < x PROVE <<y, x>> \in R
  <2>1. x \in Nat /\ y \in Nat
    BY <1>0
  <2> HIDE DEF T
  <2> QED  BY <1>2, <2>1, Zenon DEF OpToRel
<1> HIDE DEF R
<1>3. PICK m \in T : \A y \in T : ~ (<<y, m>> \in R)
  BY <1>1
<1>4. \A y \in T : ~(y < m)
  BY <1>2, <1>3
<1>5. PICK x \in S : m = n - x
  OBVIOUS
<1>6. \A y \in S : y <= x
  BY <1>4, <1>5
<1> QED  BY <1>6

\* The position of a service is one of its sequence, that of the pipeline is 0.
LEMMA PositionType ==
  ASSUME NEW s \in Services \cup {Pipeline}
  PROVE  Position(s) \in 0 .. Len(Names)
<1>1. DOMAIN Names = 1 .. Len(Names) /\ Len(Names) \in Nat
  BY NamesAssumption
<1>2. CASE s = Pipeline
  BY <1>1, <1>2 DEF Position
<1>3. CASE s # Pipeline
  <2>1. \E i \in DOMAIN Names : Names[i] = s
    BY <1>3 DEF Services, ToSet
  <2>2. Position(s) \in DOMAIN Names
    BY <1>3, <2>1 DEF Position
  <2> QED  BY <1>1, <2>2
<1> QED  BY <1>2, <1>3

\* A path that is stored has a last writer, and it is one of the stored files.
LEMMA LastWriterIsStored ==
  ASSUME StoredInv, NEW f \in stored
  PROVE  LastWriter(stored, f.path) \in stored /\ LastWriter(stored, f.path).path = f.path
<1> DEFINE W == {g \in stored : g.path = f.path}
           S == {Position(g.service) : g \in W}
<1>1. \A g \in W : Position(g.service) \in 0 .. Len(Names)
  BY PositionType DEF StoredInv
<1>2. S \in SUBSET (0 .. Len(Names)) /\ S # {}
  BY <1>1
<1>3. \E x \in S : \A y \in S : y <= x
  <2> HIDE DEF S
  <2>1. Len(Names) \in Nat
    BY NamesAssumption
  <2> QED  BY <1>2, <2>1, LargestMember
<1>4. \E w \in stored : w.path = f.path
        /\ \A g \in stored : g.path = f.path => Position(g.service) <= Position(w.service)
  BY <1>3
<1> QED  BY <1>4 DEF LastWriter

\* Files written over a tree leave the other files of the tree alone.
LEMMA OverrideKeeps ==
  ASSUME NEW f, NEW g, NEW p, p \in DOMAIN f, p \notin DOMAIN g
  PROVE  p \in DOMAIN Override(f, g) /\ Override(f, g)[p] = f[p]
BY DEF Override

\* The assembler's own files are in areas of their own.
LEMMA AssembleKeeps ==
  ASSUME NEW st, NEW p, p \in DOMAIN Merge(st), p.area \notin Synthetic
  PROVE  p \in DOMAIN Assemble(st, TRUE) /\ Assemble(st, TRUE)[p] = Merge(st)[p]
<1> DEFINE t0 == Merge(st)
           t1 == generateConfigExamples(t0)
           t2 == generateServiceMakefiles(t1)
           t3 == generateGatewayCode(t2)
<1>0. p.area \notin {"config", "makefile", "gateway_main", "gateway_makefile", "gateway_config"}
  BY DEF Synthetic
<1> HIDE DEF t0
<1>1. p \in DOMAIN t1 /\ t1[p] = t0[p]
  BY <1>0, OverrideKeeps DEF t0, generateConfigExamples, Path
<1> HIDE DEF t1
<1>2. p \in DOMAIN t2 /\ t2[p] = t1[p]
  BY <1>0, <1>1, OverrideKeeps DEF generateServiceMakefiles, Path
<1> HIDE DEF t2
<1>3. p \in DOMAIN t3 /\ t3[p] = t2[p]
  BY <1>0, <1>2, OverrideKeeps DEF generateGatewayCode, Path
<1>4. t3 = Assemble(st, TRUE)
  BY DEF t0, t1, t2, Assemble
<1> QED  BY <1>1, <1>2, <1>3, <1>4 DEF t0

\* A push is refused when two files of one path differ, so any of them is the
\* content of its path.
LEMMA PushedIsDownloaded ==
  ASSUME StoredInv, Publishable(stored), NEW f \in stored, f.path.area \notin Synthetic
  PROVE  Assemble(stored, TRUE)[f.path] = f.content
<1> DEFINE w == LastWriter(stored, f.path)
<1>1. w \in stored /\ w.path = f.path
  BY LastWriterIsStored
<1>2. f.path \notin detectPathConflicts(stored)
  BY DEF Publishable
<1>3. w.content = f.content
  BY <1>1, <1>2 DEF detectPathConflicts
<1> HIDE DEF w
<1>4. f.path \in DOMAIN Artifacts(stored) /\ Artifacts(stored)[f.path] = f.content
  BY <1>3 DEF Artifacts, w
<1>5. f.path \in DOMAIN Merge(stored) /\ Merge(stored)[f.path] = f.content
  BY <1>4 DEF Merge, Override
<1> QED  BY <1>5, AssembleKeeps

\* Who may have generated what is stored.
LEMMA NextStored == StoredInv /\ [Next]_vars => StoredInv'
<1> SUFFICES ASSUME StoredInv, [Next]_vars PROVE StoredInv'
  OBVIOUS
<1>1. CASE stored' = stored
  BY <1>1 DEF StoredInv
<1>2. ASSUME NEW new, \A f \in new : f.service \in Services \cup {Pipeline},
             stored' = Upsert(stored, new)
      PROVE  StoredInv'
  BY <1>2 DEF StoredInv, Upsert
<1>3. ASSUME NEW s \in Services, UpsertArtifacts(s) PROVE StoredInv'
  <2> DEFINE new == {Stored(s, p, call[s].files[p]) : p \in DOMAIN call[s].files}
  <2>1. \A f \in new : f.service \in Services \cup {Pipeline}
    BY DEF Stored
  <2>2. \/ stored' = stored
        \/ stored' = Upsert(stored, new)
        \/ \E p : stored' = Upsert(stored, {f \in new : f.path # p})
    BY <1>3 DEF UpsertArtifacts
  <2> HIDE DEF new
  <2>3. ASSUME NEW p, stored' = Upsert(stored, {f \in new : f.path # p}) PROVE StoredInv'
    <3> DEFINE part == {f \in new : f.path # p}
    <3>1. \A f \in part : f.service \in Services \cup {Pipeline}
      BY <2>1
    <3>2. stored' = Upsert(stored, part)
      BY <2>3
    <3> HIDE DEF part
    <3> QED  BY <1>2, <3>1, <3>2
  <2> QED  BY <1>1, <1>2, <2>1, <2>2, <2>3
<1>4. CASE assembleErrorAggregator
  <2>1. \A done : \A f \in Aggregator(stored, done) : f.service \in Services \cup {Pipeline}
    BY DEF Aggregator, Stored
  <2>2. stored' = stored \/ \E done : stored' = Upsert(stored, Aggregator(stored, done))
    BY <1>4 DEF assembleErrorAggregator
  <2> QED  BY <1>1, <1>2, <2>1, <2>2
<1>5. ASSUME NEW s \in Services, Agents(s), ~UpsertArtifacts(s) PROVE stored' = stored
  BY <1>5 DEF Agents, AgentExits, Goroutine, Acquire, AcquireCancelled, EnsureNetwork,
     NetworkCreate, PrepareWorkspace, ContainerCreate, ContainerStart, WaitEnds,
     ContainerRemove, LeaveInvoke, Backoff, Persist, storeVars
<1>6. StartRun \/ ListFinal \/ Mark \/ Ack \/ Expire \/ Crash \/ UNCHANGED vars => stored' = stored
  BY DEF StartRun, ListFinal, Mark, Ack, Expire, Crash, storeVars, vars, agentVars
<1> QED  BY <1>1, <1>3, <1>4, <1>5, <1>6 DEF Next, TaskStep

\* DownloadKeepsWhatIsPushed for every monorepo, all agents' files and all
\* losses on the way: the conflict check of the push is strong enough for the
\* assembler's rule that the last writer of a path wins, whatever the order.
THEOREM PushAndDownloadAgree == Spec => []DownloadKeepsWhatIsPushed
<1>1. Init => StoredInv
  BY DEF Init, AgentInit, StoredInv
<1>2. StoredInv => DownloadKeepsWhatIsPushed
  <2> SUFFICES ASSUME StoredInv, Publishable(stored), NEW f \in stored,
                      f.path.area \notin Synthetic
               PROVE  Assemble(stored, TRUE)[f.path] = f.content
    BY DEF DownloadKeepsWhatIsPushed
  <2> QED  BY PushedIsDownloaded
<1> QED  BY <1>1, <1>2, NextStored, PTL DEF Spec

-----------------------------------------------------------------------------
(* The refinement of the records. *)

\* A goroutine that may still record something belongs to a service that is
\* not done, and what is acknowledged agrees with the records.
Undecided ==
  /\ \A s \in Services : call[s].pc \notin {"idle", "ended", "files"} => record[s] # "done"
  /\ task.pc \in {"ack", "ended"} => state = Outcome

\* What a step of the refinement may rely on.
RecordsInv == OwnedInv /\ GreenInv /\ Undecided

\* While a goroutine is at work the task is open, and its service too until the
\* result is recorded.
LEMMA AtWorkIsOpen ==
  ASSUME RecordsInv, NEW s \in Services, call[s].pc # "idle"
  PROVE  /\ task.pc = "running" /\ Life = "open"
         /\ call[s].pc \notin {"ended", "files"} => Records!Open(s)
BY DEF RecordsInv, OwnedInv, Owned, Undecided, Records!Open, Life, TaskAt

\* A step of a goroutine keeps what it may rely on: a record that becomes done
\* is that of a goroutine with only its files left to store.
LEMMA AgentUndecided ==
  ASSUME RecordsInv, NEW s \in Services, AgentExits(s) \/ Goroutine(s), UNCHANGED taskVars
  PROVE  Undecided'
<1> USE DEF RecordsInv, OwnedInv, Shaped, Moved, At, storeVars
<1>1. KeepsGreen(s)
  BY AgentKeepsGreen
<1>2. ASSUME call'[s].pc \notin {"idle", "ended", "files"} PROVE record'[s] # "done"
  <2>1. call[s].pc \notin {"idle", "ended", "files"}
    <3>1. CASE Persist(s)
      BY <3>1, GotoMoves DEF Persist
    <3>2. CASE UpsertArtifacts(s)
      BY <1>2, <3>2, EndedMoves DEF UpsertArtifacts
    <3>3. CASE AcquireCancelled(s)
      BY <3>3, GotoMoves DEF AcquireCancelled
    <3>4. CASE AgentExits(s) \/ Acquire(s) \/ EnsureNetwork(s) \/ NetworkCreate(s)
               \/ PrepareWorkspace(s) \/ ContainerCreate(s) \/ ContainerStart(s)
      BY <3>4 DEF AgentExits, Acquire, EnsureNetwork, NetworkCreate, PrepareWorkspace,
                  ContainerCreate, ContainerStart
    <3>5. CASE WaitEnds(s) \/ ContainerRemove(s) \/ LeaveInvoke(s) \/ Backoff(s)
      BY <3>5 DEF WaitEnds, ContainerRemove, LeaveInvoke, Backoff
    <3> QED  BY <3>1, <3>2, <3>3, <3>4, <3>5 DEF Goroutine
  <2>2. record[s] # "done"
    BY <2>1 DEF Undecided
  <2>3. CASE record' = record
    BY <2>2, <2>3
  <2>4. CASE Acquire(s)
    BY <2>2, <2>4 DEF Acquire, UpsertRecord, Total
  <2>5. CASE Persist(s)
    BY <1>2, <2>5, GotoMoves DEF Persist
  <2>6. record' = record \/ Acquire(s) \/ Persist(s)
    BY DEF AgentExits, Goroutine, AcquireCancelled, EnsureNetwork,
           NetworkCreate, PrepareWorkspace, ContainerCreate, ContainerStart, WaitEnds,
           ContainerRemove, LeaveInvoke, Backoff, UpsertArtifacts
  <2> QED  BY <2>3, <2>4, <2>5, <2>6
<1>3. \A t \in Services \ {s} : call'[t] = call[t] /\ record'[t] = record[t]
  BY <1>1 DEF KeepsGreen
<1>4. task'.pc = "running"
  <2>1. call[s].pc # "idle"
    BY AgentKeepsOwned DEF KeepsOwned
  <2> QED  BY <2>1, AtWorkIsOpen DEF taskVars
<1> QED  BY <1>2, <1>3, <1>4 DEF Undecided

\* So does every other step of the task: it starts goroutines only for services
\* that are not done, and decides when it ends.
LEMMA NextRecords == RecordsInv /\ [Next]_vars => RecordsInv'
<1> SUFFICES ASSUME RecordsInv, [Next]_vars PROVE RecordsInv'
  OBVIOUS
<1>0. OwnedInv' /\ GreenInv'
  BY NextOwned, NextGreen DEF RecordsInv
<1>1. CASE UNCHANGED vars
  BY <1>0, <1>1 DEF vars, agentVars, taskVars, RecordsInv, Undecided, Outcome
<1>2. ASSUME NEW s \in Services, Agents(s) PROVE Undecided'
  BY <1>2, AgentUndecided DEF Agents
<1>3. ASSUME TaskStep \/ Expire \/ Crash PROVE Undecided'
  <2>1. record' = record
    BY <1>3 DEF TaskStep, StartRun, ListFinal, assembleErrorAggregator, Mark, Ack, Expire, Crash, storeVars, agentVars
  <2>2. CASE StartRun /\ call' # call
    <3>1. \A s \in Services : call'[s].pc = IF AlreadyDone(s) THEN "ended" ELSE "waiting"
      <4> DEFINE k(s) == [Idle EXCEPT !.pc = IF AlreadyDone(s) THEN "ended" ELSE "waiting"]
      <4>1. \A s \in Services : k(s).pc = IF AlreadyDone(s) THEN "ended" ELSE "waiting"
        BY IdleShape DEF Total, CallFields
      <4>2. call' = [s \in Services |-> k(s)]
        BY <2>2 DEF StartRun
      <4> HIDE DEF k
      <4> QED  BY <4>1, <4>2
    <3>2. \A s \in Services : call'[s].pc \notin {"idle", "ended", "files"} => record'[s] # "done"
      BY <2>1, <3>1 DEF AlreadyDone
    <3> QED  BY <2>2, <3>2 DEF StartRun, Undecided
  <2>3. CASE ~(StartRun /\ call' # call)
    <3>1. call' = call \/ \A s \in Services : call'[s].pc = "idle"
      BY <1>3, <2>3, IdleCalls DEF TaskStep, ListFinal, assembleErrorAggregator, Mark, Ack, Expire, Crash, agentVars
    <3>2. task'.pc \in {"ack", "ended"} => state' = Outcome'
      <4>0. Total(task, {"pc", "runs"}) /\ Outcome' = Outcome
        BY <2>1 DEF RecordsInv, OwnedInv, Shaped, Outcome
      <4>1. CASE Mark
        BY <4>0, <4>1 DEF Mark, TaskTo, TaskError, Total
      <4>2. CASE Ack
        BY <4>0, <4>2 DEF Ack, TaskAt, RecordsInv, Undecided
      <4>3. CASE Expire
        BY <4>0, <4>3 DEF Expire, taskVars
      <4>4. CASE StartRun \/ ListFinal \/ assembleErrorAggregator \/ Crash
        BY <4>0, <4>4 DEF StartRun, ListFinal, assembleErrorAggregator, Crash, TaskTo, TaskError, Total
      <4> QED  BY <1>3, <4>1, <4>2, <4>3, <4>4 DEF TaskStep
    <3>3. \A s \in Services : call'[s].pc \notin {"idle", "ended", "files"} => record'[s] # "done"
      <4>1. \A s \in Services : call[s].pc \notin {"idle", "ended", "files"} => record[s] # "done"
        BY DEF RecordsInv, Undecided
      <4> QED  BY <2>1, <3>1, <4>1
    <3> QED  BY <3>2, <3>3 DEF Undecided
  <2> QED  BY <2>2, <2>3
<1> QED  BY <1>0, <1>1, <1>2, <1>3 DEF Next, RecordsInv

\* Paths of one owner are only added to, by an upsert of files of another they
\* are left alone.
LEMMA UpsertAddsPaths ==
  ASSUME NEW o \in Services \cup {Pipeline}, NEW new, \A f \in new : f.service = o,
         stored' = Upsert(stored, new)
  PROVE  /\ StoredPaths[o] \subseteq StoredPaths'[o]
         /\ \A q \in (Services \cup {Pipeline}) \ {o} : StoredPaths'[q] = StoredPaths[q]
<1> DEFINE P(st, q) == {f.path : f \in {g \in st : g.service = q}}
<1>1. \A q \in Services \cup {Pipeline} : StoredPaths[q] = P(stored, q) /\ StoredPaths'[q] = P(stored', q)
  BY DEF StoredPaths
<1>2. P(stored, o) \subseteq P(stored', o)
  <2> SUFFICES ASSUME NEW f \in stored, f.service = o
               PROVE  \E g \in stored' : g.service = o /\ g.path = f.path
    OBVIOUS
  <2> QED  BY DEF Upsert
<1>3. ASSUME NEW q \in (Services \cup {Pipeline}) \ {o} PROVE P(stored', q) = P(stored, q)
  <2>1. \A g : g \in stored' /\ g.service = q <=> g \in stored /\ g.service = q
    BY DEF Upsert
  <2> QED  BY <2>1
<1> HIDE DEF P
<1> QED  BY <1>1, <1>2, <1>3

\* Storing files is what GenerationRecords calls Stores.
LEMMA UpsertStores ==
  ASSUME NEW o \in Services \cup {Pipeline}, NEW new, \A f \in new : f.service = o,
         stored' = Upsert(stored, new), UNCHANGED <<Life, state, record, passed>>
  PROVE  Records!Stores(o)
<1>1. DOMAIN StoredPaths' = Records!Owners
  BY DEF StoredPaths, Records!Owners
<1> QED  BY <1>1, UpsertAddsPaths DEF Records!Stores, Records!Owners

\* Nothing stored, nothing seen.
LEMMA SamePaths == stored' = stored => StoredPaths' = StoredPaths
BY DEF StoredPaths

\* So a write that did not arrive stores, too.
LEMMA NothingStores ==
  ASSUME NEW o \in Services \cup {Pipeline}, stored' = stored,
         UNCHANGED <<Life, state, record, passed>>
  PROVE  Records!Stores(o)
<1>1. DOMAIN StoredPaths = Records!Owners
  BY DEF StoredPaths, Records!Owners
<1> QED  BY <1>1, SamePaths DEF Records!Stores

\* Only a recorded result owes files, until they are stored.
LEMMA AgentOwes ==
  ASSUME RecordsInv, NEW s \in Services, AgentExits(s) \/ Goroutine(s)
  PROVE  /\ Persist(s) => s \notin Owed /\ Owed' = Owed \cup {s}
         /\ UpsertArtifacts(s) => s \in Owed /\ Owed' = Owed \ {s}
         /\ ~Persist(s) /\ ~UpsertArtifacts(s) => Owed' = Owed
<1> USE DEF RecordsInv, OwnedInv, Shaped, Moved, At
<1>1. \A t \in Services \ {s} : call'[t] = call[t]
  BY AgentKeepsOwned DEF KeepsOwned
<1>2. CASE Persist(s)
  BY <1>1, <1>2, GotoMoves DEF Persist, Owed, UpsertArtifacts
<1>3. CASE UpsertArtifacts(s)
  BY <1>1, <1>3, EndedMoves DEF UpsertArtifacts, Owed, Persist
<1>4. CASE ~Persist(s) /\ ~UpsertArtifacts(s)
  <2>1. call[s].pc # "files" /\ call'[s].pc # "files"
    <3>1. CASE AgentExits(s)
      BY <3>1, AgentExitsMoves DEF AgentExits
    <3>2. CASE Acquire(s)
      BY <3>2, FreshMoves DEF Acquire
    <3>3. CASE AcquireCancelled(s) \/ ContainerRemove(s)
      BY <3>3, GotoMoves DEF AcquireCancelled, ContainerRemove
    <3>4. CASE EnsureNetwork(s) \/ NetworkCreate(s) \/ PrepareWorkspace(s)
      BY <3>4, GotoMoves, InvokeErrorMoves DEF EnsureNetwork, NetworkCreate, PrepareWorkspace
    <3>5. CASE ContainerCreate(s) \/ ContainerStart(s)
      BY <3>5, GotoMoves, RunErrorMoves DEF ContainerCreate, ContainerStart
    <3>6. CASE WaitEnds(s)
      BY <3>6, WaitEndsMoves DEF WaitEnds
    <3>7. CASE LeaveInvoke(s)
      BY <3>7, ReturnMoves DEF LeaveInvoke
    <3>8. CASE Backoff(s)
      BY <3>8, BackoffMoves DEF Backoff
    <3> QED  BY <1>4, <3>1, <3>2, <3>3, <3>4, <3>5, <3>6, <3>7, <3>8 DEF Goroutine
  <2> QED  BY <1>1, <1>4, <2>1 DEF Owed
<1> QED  BY <1>2, <1>3, <1>4

\* Every step of a goroutine begins, passes, finishes or stores for its service,
\* or changes nothing of the records.
LEMMA AgentRefines ==
  ASSUME RecordsInv, NEW s \in Services, AgentExits(s) \/ Goroutine(s), UNCHANGED taskVars
  PROVE  [Records!Next]_(Records!recordVars)
<1> USE DEF At, storeVars
<1>0. /\ Life = "open"
      /\ call[s].pc \notin {"ended", "files"} => Records!Open(s)
  <2>1. call[s].pc # "idle"
    BY AgentKeepsOwned DEF KeepsOwned, RecordsInv
  <2> QED  BY <2>1, AtWorkIsOpen
<1>1. state' = state /\ Life' = Life
  BY DEF taskVars, Life, TaskAt
<1>2. CASE stored' = stored /\ record' = record /\ passed' = passed /\ Owed' = Owed
  BY <1>1, <1>2, SamePaths DEF Records!recordVars
<1>3. CASE AgentExits(s)
  <2>1. Records!Open(s) /\ Owed' = Owed
    <3>1. ~Persist(s) /\ ~UpsertArtifacts(s)
      BY <1>3 DEF AgentExits, Persist, UpsertArtifacts
    <3> QED  BY <1>0, <1>3, <3>1, AgentOwes DEF AgentExits
  <2>2. /\ stored' = stored /\ record' = record
        /\ passed' = passed \/ passed' = passed \cup {s}
    BY <1>3 DEF AgentExits
  <2>3. CASE passed' = passed \cup {s}
    <3>1. Records!Pass(s)
      BY <1>1, <2>1, <2>2, <2>3, SamePaths DEF Records!Pass
    <3> QED  BY <1>0, <3>1 DEF Records!Next
  <2> QED  BY <1>2, <2>1, <2>2, <2>3
<1>4. CASE Acquire(s)
  <2>1. Records!Open(s) /\ Owed' = Owed
    <3>1. ~Persist(s) /\ ~UpsertArtifacts(s)
      BY <1>4 DEF Acquire, Persist, UpsertArtifacts
    <3> QED  BY <1>0, <1>4, <3>1, AgentOwes DEF Acquire
  <2>2. /\ stored' = stored /\ passed' = passed
        /\ record' = record \/ record' = [record EXCEPT ![s] = "generating"]
    BY <1>4 DEF Acquire, UpsertRecord
  <2>3. CASE record' = [record EXCEPT ![s] = "generating"]
    <3>1. Records!Begin(s)
      BY <1>1, <2>1, <2>2, <2>3, SamePaths DEF Records!Begin
    <3> QED  BY <1>0, <3>1 DEF Records!Next
  <2> QED  BY <1>2, <2>1, <2>2, <2>3
<1>5. CASE Persist(s)
  <2>1. Records!Open(s) /\ call[s].pc = "persist" /\ s \notin Owed /\ Owed' = Owed \cup {s}
    BY <1>0, <1>5, AgentOwes DEF Persist
  <2>2. /\ stored' = stored /\ passed' = passed
        /\ record' = record \/ record' = [record EXCEPT ![s] = call[s].status]
    BY <1>5 DEF Persist, UpsertRecord
  <2>3. call[s].status = "failed" \/ (call[s].status = "done" /\ s \in passed)
    BY <2>1 DEF RecordsInv, GreenInv, Green, Carries
  <2>4. Records!Finish(s)
    BY <1>1, <2>1, <2>2, <2>3, SamePaths DEF Records!Finish
  <2> QED  BY <1>0, <2>4 DEF Records!Next
<1>6. CASE UpsertArtifacts(s)
  <2> DEFINE new == {Stored(s, p, call[s].files[p]) : p \in DOMAIN call[s].files}
  <2>1. \A f \in new : f.service = s
    BY DEF Stored
  <2>2. record' = record /\ passed' = passed /\ s \in Owed /\ Owed' = Owed \ {s}
    BY <1>6, AgentOwes DEF UpsertArtifacts
  <2>3. \/ stored' = stored
        \/ stored' = Upsert(stored, new)
        \/ \E p : stored' = Upsert(stored, {f \in new : f.path # p})
    BY <1>6 DEF UpsertArtifacts
  <2> HIDE DEF new
  <2>4. ASSUME NEW part \in SUBSET new, stored' = Upsert(stored, part) PROVE Records!Stores(s)
    BY <1>1, <2>1, <2>2, <2>4, UpsertStores
  <2>5. stored' = stored \/ \E part \in SUBSET new : stored' = Upsert(stored, part)
    <3>1. ASSUME NEW p PROVE {f \in new : f.path # p} \in SUBSET new
      OBVIOUS
    <3> QED  BY <2>3, <3>1
  <2>6. stored' = stored => Records!Stores(s)
    BY <1>1, <2>2, NothingStores
  <2>7. Records!StoreResult(s)
    BY <2>2, <2>4, <2>5, <2>6 DEF Records!StoreResult
  <2> QED  BY <1>0, <2>7 DEF Records!Next
<1>7. ASSUME ~AgentExits(s), ~Acquire(s), ~Persist(s), ~UpsertArtifacts(s)
      PROVE  stored' = stored /\ record' = record /\ passed' = passed /\ Owed' = Owed
  <2>1. Owed' = Owed
    BY <1>7, AgentOwes
  <2> QED  BY <1>7, <2>1
       DEF Goroutine, AcquireCancelled, EnsureNetwork,
           NetworkCreate, PrepareWorkspace, ContainerCreate, ContainerStart, WaitEnds,
           ContainerRemove, LeaveInvoke, Backoff
<1> QED  BY <1>2, <1>3, <1>4, <1>5, <1>6, <1>7

\* Nothing is owed where every call is idle, waiting or over.
LEMMA NothingOwed ==
  ASSUME \A s \in Services : call[s].pc \in {"idle", "waiting", "ended"}
  PROVE  Owed = {}
BY DEF Owed, At

\* After an error the task waits for its next delivery or has had its last.
LEMMA TaskErrorLife ==
  ASSUME Total(task, {"pc", "runs"}), TaskError
  PROVE  Life' \in {"open", "archived"}
BY DEF TaskError, TaskTo, Total, Life, TaskAt

\* A step of the task that stores nothing and records nothing begins a
\* delivery, ends one, writes the outcome or is not seen.
LEMMA TaskRefines ==
  ASSUME RecordsInv, StartRun \/ ListFinal \/ Mark \/ Ack \/ Expire \/ Crash
  PROVE  [Records!Next]_(Records!recordVars)
<1>0. Total(task, {"pc", "runs"})
  BY DEF RecordsInv, OwnedInv, Shaped
<1>1. StoredPaths' = StoredPaths /\ record' = record /\ passed' = passed
  BY SamePaths DEF StartRun, ListFinal, Mark, Ack, Expire, Crash, storeVars, agentVars
<1>2. Life = "open"
  BY DEF StartRun, ListFinal, Mark, Ack, Expire, Crash, Life, TaskAt
<1>3. ASSUME Owed = {}, Owed' = {}, state' \in {state, Outcome}, Life' \in {"open", "archived"}
      PROVE  [Records!Next]_(Records!recordVars)
  <2>0. Records!Outcome = Outcome
    BY DEF Outcome, Records!Outcome
  <2>1. CASE Life' = "archived"
    <3>1. Records!Archive
      BY <1>1, <1>3, <2>0, <2>1 DEF Records!Archive
    <3> QED  BY <1>2, <3>1 DEF Records!Next
  <2>2. CASE Life' = "open" /\ state' = state
    BY <1>1, <1>2, <1>3, <2>2 DEF Records!recordVars
  <2>3. CASE Life' = "open" /\ state' = Outcome
    <3>1. Records!Decide
      BY <1>1, <1>2, <1>3, <2>0, <2>3 DEF Records!Decide
    <3> QED  BY <1>2, <3>1 DEF Records!Next
  <2> QED  BY <1>3, <2>1, <2>2, <2>3
<1>4. CASE StartRun
  <2>1. Owed = {}
    BY <1>4, NothingOwed DEF StartRun, TaskAt, RecordsInv, OwnedInv, Owned
  <2>2. Owed' = {}
    <3>1. CASE call' = call
      BY <2>1, <3>1 DEF Owed, At
    <3>2. CASE call' # call
      BY <1>4, <3>2, StartedCalls DEF StartRun, Owed, At
    <3> QED  BY <3>1, <3>2
  <2>3. state' = state /\ Life' \in {"open", "archived"}
    BY <1>4 DEF StartRun, Life, TaskAt
  <2> QED  BY <1>3, <2>1, <2>2, <2>3
<1>5. CASE ListFinal
  <2>1. Owed = {}
    BY <1>5 DEF ListFinal, Owed, At
  <2>2. Owed' = {}
    BY <1>5, IdleCalls DEF ListFinal, Owed, At
  <2>3. state' = state /\ Life' \in {"open", "archived"}
    BY <1>0, <1>5, TaskErrorLife DEF ListFinal, TaskTo, Total, Life, TaskAt
  <2> QED  BY <1>3, <2>1, <2>2, <2>3
<1>6. CASE Mark
  <2>1. Owed = {}
    BY <1>6, NothingOwed DEF Mark, TaskAt, RecordsInv, OwnedInv, Owned
  <2>2. Owed' = {}
    BY <1>6, <2>1 DEF Mark, Owed, At
  <2>3. state' \in {state, Outcome} /\ Life' \in {"open", "archived"}
    BY <1>0, <1>6, TaskErrorLife DEF Mark, TaskTo, Total, Life, TaskAt
  <2> QED  BY <1>3, <2>1, <2>2, <2>3
<1>7. CASE Ack
  <2>1. Owed = {} /\ Owed' = {} /\ state' = state
    BY <1>7, NothingOwed DEF Ack, TaskAt, RecordsInv, OwnedInv, Owned, agentVars, Owed, At
  <2>2. state = Records!Outcome
    BY <1>7 DEF Ack, TaskAt, RecordsInv, Undecided, Outcome, Records!Outcome
  <2>3. Life' = "acknowledged"
    BY <1>0, <1>7 DEF Ack, TaskTo, Total, Life, TaskAt
  <2>4. Records!Acknowledge
    BY <1>1, <2>1, <2>2, <2>3 DEF Records!Acknowledge
  <2> QED  BY <1>2, <2>4 DEF Records!Next
<1>8. CASE Expire
  <2>1. Owed' = Owed /\ state' = state /\ Life' = Life
    BY <1>8 DEF Expire, taskVars, Owed, At, Life, TaskAt
  <2> QED  BY <1>1, <2>1 DEF Records!recordVars
<1>9. CASE Crash
  <2>1. Owed' = {} /\ state' = state
    BY <1>9, IdleCalls DEF Crash, Owed, At
  <2>2. Life' \in {"open", "archived"}
    BY <1>0, <1>9, TaskErrorLife DEF Crash
  <2>3. Records!Crash \/ Records!Archive
    BY <1>1, <1>2, <2>1, <2>2 DEF Records!Crash, Records!Archive
  <2> QED  BY <1>2, <2>3 DEF Records!Next
<1> QED  BY <1>4, <1>5, <1>6, <1>7, <1>8, <1>9

\* Every step of the task is a step of GenerationRecords or changes nothing of
\* the records.
LEMMA NextRefines == RecordsInv /\ [Next]_vars => [Records!Next]_(Records!recordVars)
<1> SUFFICES ASSUME RecordsInv, [Next]_vars PROVE [Records!Next]_(Records!recordVars)
  OBVIOUS
<1>1. CASE UNCHANGED vars
  <2>1. StoredPaths' = StoredPaths /\ Owed' = Owed /\ Life' = Life
    BY <1>1 DEF vars, agentVars, taskVars, StoredPaths, Owed, At, Life, TaskAt
  <2> QED  BY <1>1, <2>1 DEF vars, agentVars, taskVars, Records!recordVars
<1>2. ASSUME NEW s \in Services, Agents(s) PROVE [Records!Next]_(Records!recordVars)
  BY <1>2, AgentRefines DEF Agents
<1>3. CASE assembleErrorAggregator
  <2>1. \A done : \A f \in Aggregator(stored, done) : f.service = Pipeline
    BY DEF Aggregator, Stored
  <2>2. /\ UNCHANGED <<state, record, passed>>
        /\ stored' = stored \/ \E done : stored' = Upsert(stored, Aggregator(stored, done))
    BY <1>3 DEF assembleErrorAggregator
  <2>3. Owed = {} /\ Owed' = {}
    BY <1>3, NothingOwed DEF assembleErrorAggregator, TaskAt, RecordsInv, OwnedInv, Owned, Owed, At
  <2>4. Life = "open" /\ Life' = "open"
    <3>1. Total(task, {"pc", "runs"})
      BY DEF RecordsInv, OwnedInv, Shaped
    <3> QED  BY <1>3, <3>1 DEF assembleErrorAggregator, TaskTo, TaskAt, Total, Life
  <2>5. ASSUME NEW done, stored' = Upsert(stored, Aggregator(stored, done))
        PROVE  Records!Stores(Pipeline)
    BY <2>1, <2>2, <2>4, <2>5, UpsertStores
  <2>6. stored' = stored => Records!Stores(Pipeline)
    BY <2>2, <2>4, NothingStores
  <2>7. Records!StoreLookup
    BY <2>2, <2>3, <2>5, <2>6 DEF Records!StoreLookup
  <2> QED  BY <2>4, <2>7 DEF Records!Next
<1> QED  BY <1>1, <1>2, <1>3, TaskRefines DEF Next, TaskStep

\* TaskKeepsItsRecords for every number of services, attempts, faults and
\* deliveries, every weight of the semaphore and every file an agent may leave:
\* the task implements GenerationRecords, also when the worker dies between the
\* update of the migration and the acknowledgement.
THEOREM RecordsAreKept == Spec => TaskKeepsItsRecords
<1>1. Init => RecordsInv
  <2> SUFFICES ASSUME Init PROVE RecordsInv
    OBVIOUS
  <2>1. Undecided
    BY IdleShape DEF Init, AgentInit, Undecided
  <2> QED  BY <2>1, InitOwned, InitGreen DEF RecordsInv
<1>2. Init => Records!Init
  <2> SUFFICES ASSUME Init PROVE Records!Init
    OBVIOUS
  <2>1. stored = {} /\ state = "GENERATING" /\ record = [s \in Services |-> "none"] /\ passed = {}
    BY DEF Init, AgentInit
  <2>2. StoredPaths = [o \in Services \cup {Pipeline} |-> {}]
    BY <2>1 DEF StoredPaths
  <2>3. Owed = {} /\ Life = "open"
    BY IdleShape DEF Init, AgentInit, Owed, At, Life, TaskAt
  <2> QED  BY <2>1, <2>2, <2>3 DEF Records!Init, Records!Owners
<1> QED  BY <1>1, <1>2, NextRecords, NextRefines, PTL
         DEF Spec, TaskKeepsItsRecords, Records!Spec

-----------------------------------------------------------------------------
(* The error lookup. *)

\* Done, and with nothing left to store.
Settled == {s \in Services : record[s] = "done" /\ call[s].pc # "files"}

\* Each path of an owner has one content, and every lookup lists only what the
\* monorepo or a settled service declares.
Listed ==
  /\ \A f, g \in stored : f.service = g.service /\ f.path = g.path => f.content = g.content
  /\ \A f \in stored : f.service = Pipeline =>
       f.content.names \subseteq scanExistingErrorVarNames \cup Overlay(stored, Settled)

LookupInv == RecordsInv /\ StoredInv /\ Listed

\* What is done and settled stays so.
LEMMA SettledGrows ==
  ASSUME RecordsInv, [Next]_vars, NEW s \in Settled
  PROVE  s \in Settled'
<1>0. s \in Services /\ record[s] = "done" /\ call[s].pc \in {"idle", "ended"}
  BY DEF Settled, RecordsInv, Undecided
<1>1. CASE UNCHANGED vars
  BY <1>0, <1>1 DEF vars, agentVars, Settled
<1>2. ASSUME NEW t \in Services, Agents(t) PROVE s \in Settled'
  <2>1. KeepsGreen(t) /\ KeepsOwned(t)
    BY <1>2, AgentKeepsGreen, AgentKeepsOwned DEF Agents, RecordsInv
  <2>2. CASE t # s
    BY <1>0, <2>1, <2>2 DEF KeepsGreen, Settled
  <2>3. CASE t = s
    <3>1. call[s].pc = "ended"
      BY <1>0, <2>1, <2>3 DEF KeepsOwned
    <3>2. FALSE
      BY <1>2, <2>3, <3>1 DEF Agents, AgentExits, Goroutine, At, Acquire, AcquireCancelled, EnsureNetwork,
         NetworkCreate, PrepareWorkspace, ContainerCreate, ContainerStart, WaitEnds,
         ContainerRemove, LeaveInvoke, Backoff, Persist, UpsertArtifacts
    <3> QED  BY <3>2
  <2> QED  BY <2>2, <2>3
<1>3. CASE TaskStep \/ Expire \/ Crash
  <2>1. record' = record
    BY <1>3 DEF TaskStep, StartRun, ListFinal, assembleErrorAggregator, Mark, Ack, Expire, Crash, storeVars, agentVars
  <2>2. call' = call \/ \A t \in Services : call'[t].pc \in {"idle", "ended", "waiting"}
    BY <1>3, IdleCalls, StartedCalls
       DEF TaskStep, StartRun, ListFinal, assembleErrorAggregator, Mark, Ack, Expire, Crash, agentVars
  <2> QED  BY <1>0, <2>1, <2>2 DEF Settled
<1> QED  BY <1>1, <1>2, <1>3 DEF Next

\* Files written by others leave the variables of a set of services alone.
LEMMA OverlayKeeps ==
  ASSUME NEW o, NEW new, \A f \in new : f.service = o, NEW D, o \notin D,
         stored' = Upsert(stored, new)
  PROVE  Overlay(stored', D) = Overlay(stored, D)
<1>1. \A f : f.service \in D => (f \in stored' <=> f \in stored)
  BY DEF Upsert
<1>2. {g \in stored' : g.service \in D /\ IsErrors(g.path)}
      = {g \in stored : g.service \in D /\ IsErrors(g.path)}
  BY <1>1
<1> QED  BY <1>2 DEF Overlay

\* More services, more variables.
LEMMA OverlayGrows ==
  ASSUME NEW st, NEW D, NEW E, D \subseteq E
  PROVE  Overlay(st, D) \subseteq Overlay(st, E)
BY DEF Overlay

\* Both facts about files are kept by an upsert.
LEMMA UpsertKeepsListed ==
  ASSUME RecordsInv, Listed, [Next]_vars,
         NEW o \in Services \cup {Pipeline}, o \notin Settled,
         NEW new, stored' = Upsert(stored, new),
         \A f \in new : f.service = o,
         \A f, g \in new : f.path = g.path => f.content = g.content,
         \A f \in new : o = Pipeline =>
           f.content.names \subseteq scanExistingErrorVarNames \cup Overlay(stored, Settled)
  PROVE  /\ \A f, g \in stored' : f.service = g.service /\ f.path = g.path => f.content = g.content
         /\ \A f \in stored' : f.service = Pipeline =>
              f.content.names \subseteq scanExistingErrorVarNames \cup Overlay(stored', Settled')
<1>1. \A f \in stored' : f \in new \/ (f \in stored /\ \A g \in new : <<f.service, f.path>> # <<g.service, g.path>>)
  BY DEF Upsert
<1>2. ASSUME NEW f \in stored', NEW g \in stored', f.service = g.service, f.path = g.path
      PROVE  f.content = g.content
  <2>1. CASE f \in new /\ g \in new
    BY <1>2, <2>1
  <2>2. CASE f \notin new /\ g \notin new
    BY <1>1, <1>2, <2>2 DEF Listed
  <2>3. CASE f \in new /\ g \notin new
    BY <1>1, <1>2, <2>3
  <2>4. CASE f \notin new /\ g \in new
    BY <1>1, <1>2, <2>4
  <2> QED  BY <2>1, <2>2, <2>3, <2>4
<1>3. ASSUME NEW f \in stored', f.service = Pipeline
      PROVE  f.content.names \subseteq scanExistingErrorVarNames \cup Overlay(stored', Settled')
  <2>1. Settled \subseteq Settled'
    BY SettledGrows
  <2>2. Overlay(stored', Settled) = Overlay(stored, Settled)
    BY OverlayKeeps
  <2>3. Overlay(stored', Settled) \subseteq Overlay(stored', Settled')
    BY <2>1, OverlayGrows
  <2>4. f.content.names \subseteq scanExistingErrorVarNames \cup Overlay(stored, Settled)
    BY <1>1, <1>3 DEF Listed
  <2> QED  BY <2>2, <2>3, <2>4
<1> QED  BY <1>2, <1>3

\* The assumption of Deliverable, for the services of the task.
LEMMA PipelineIsNoServiceHere == Pipeline \notin Services
BY PipelineIsNoService DEF Services

\* Every step keeps the lookup within what is declared.
LEMMA NextLookup == LookupInv /\ [Next]_vars => LookupInv'
<1> SUFFICES ASSUME LookupInv, [Next]_vars PROVE LookupInv'
  OBVIOUS
<1> USE DEF LookupInv
<1>0. RecordsInv' /\ StoredInv'
  BY NextRecords, NextStored
<1> DEFINE Kept ==
      /\ \A f, g \in stored' : f.service = g.service /\ f.path = g.path => f.content = g.content
      /\ \A f \in stored' : f.service = Pipeline =>
           f.content.names \subseteq scanExistingErrorVarNames \cup Overlay(stored', Settled')
<1>2. ASSUME stored' = stored PROVE Kept
  <2>1. Settled \subseteq Settled'
    BY SettledGrows
  <2>2. Overlay(stored, Settled) \subseteq Overlay(stored', Settled')
    BY <1>2, <2>1, OverlayGrows
  <2> QED  BY <1>2, <2>2 DEF Listed
<1>3. ASSUME NEW s \in Services, UpsertArtifacts(s) PROVE Kept
  <2> DEFINE new == {Stored(s, p, call[s].files[p]) : p \in DOMAIN call[s].files}
  <2>1. s \notin Settled /\ s # Pipeline
    BY <1>3, PipelineIsNoServiceHere DEF UpsertArtifacts, At, Settled
  <2>2. \A f \in new : /\ f.service = s
                       /\ f.path \in DOMAIN call[s].files /\ f.content = call[s].files[f.path]
    BY DEF Stored
  <2>4. \/ stored' = stored
        \/ stored' = Upsert(stored, new)
        \/ \E p : stored' = Upsert(stored, {f \in new : f.path # p})
    BY <1>3 DEF UpsertArtifacts
  <2> HIDE DEF new
  <2>5. ASSUME NEW part \in SUBSET new, stored' = Upsert(stored, part) PROVE Kept
    <3>1. \A f \in part : f.service = s
      BY <2>2
    <3>2. \A f, g \in part : f.path = g.path => f.content = g.content
      BY <2>2
    <3> QED  BY <2>1, <2>5, <3>1, <3>2, UpsertKeepsListed
  <2>6. stored' = stored \/ \E part \in SUBSET new : stored' = Upsert(stored, part)
    <3>1. ASSUME NEW p PROVE {f \in new : f.path # p} \in SUBSET new
      OBVIOUS
    <3> QED  BY <2>4, <3>1
  <2> QED  BY <1>2, <2>5, <2>6
<1>4. ASSUME assembleErrorAggregator PROVE Kept
  <2>1. stored' = stored \/ \E D \in SUBSET Done : stored' = Upsert(stored, Aggregator(stored, D))
    BY <1>4 DEF assembleErrorAggregator
  <2>2. Done \subseteq Settled
    <3>1. \A s \in Services : call[s].pc = "idle"
      BY <1>4 DEF assembleErrorAggregator, TaskAt, RecordsInv, OwnedInv, Owned
    <3> QED  BY <3>1 DEF Done, Settled
  <2>3. ASSUME NEW D \in SUBSET Done, stored' = Upsert(stored, Aggregator(stored, D)) PROVE Kept
    <3> DEFINE names == scanExistingErrorVarNames \cup Overlay(stored, D)
               new == Aggregator(stored, D)
    <3>1. \A f \in new : f.service = Pipeline /\ f.path = LookupPath /\ f.content.names = names
      BY DEF Aggregator, Stored, buildMessageErrorGo, Content
    <3>2. \A f, g \in new : f.content = g.content
      BY DEF Aggregator
    <3>4. names \subseteq scanExistingErrorVarNames \cup Overlay(stored, Settled)
      BY <2>2, OverlayGrows
    <3>5. Pipeline \notin Settled
      BY PipelineIsNoServiceHere DEF Settled
    <3>6. stored' = Upsert(stored, new)
      BY <2>3
    <3> HIDE DEF new, names
    <3> QED  BY <3>1, <3>2, <3>4, <3>5, <3>6, UpsertKeepsListed
  <2> QED  BY <1>2, <2>1, <2>3
<1>5. ASSUME NEW s \in Services, Agents(s), ~UpsertArtifacts(s) PROVE stored' = stored
  BY <1>5 DEF Agents, AgentExits, Goroutine, Acquire, AcquireCancelled, EnsureNetwork,
     NetworkCreate, PrepareWorkspace, ContainerCreate, ContainerStart, WaitEnds,
     ContainerRemove, LeaveInvoke, Backoff, Persist, storeVars
<1>6. StartRun \/ ListFinal \/ Mark \/ Ack \/ Expire \/ Crash \/ UNCHANGED vars => stored' = stored
  BY DEF StartRun, ListFinal, Mark, Ack, Expire, Crash, storeVars, vars, agentVars
<1>7. Kept
  <2> HIDE DEF Kept
  <2> QED  BY <1>2, <1>3, <1>4, <1>5, <1>6 DEF Next, TaskStep
<1> QED  BY <1>0, <1>7 DEF Listed

\* A file of the merged tree with errors is in the assembled one.
LEMMA MergedErrorsAreDeclared ==
  ASSUME NEW p \in DOMAIN Merge(stored), IsErrors(p), NEW x \in Merge(stored)[p].names
  PROVE  x \in Declared(Assemble(stored, TRUE))
<1>1. p.area \notin Synthetic
  BY DEF IsErrors, Synthetic
<1>2. p \in DOMAIN Assemble(stored, TRUE) /\ Assemble(stored, TRUE)[p] = Merge(stored)[p]
  BY <1>1, AssembleKeeps
<1> QED  BY <1>2 DEF Declared

\* What a settled service declares is in the tree, unless another file was
\* stored for that path.
LEMMA OverlayIsDeclared ==
  ASSUME LookupInv, NEW x \in Overlay(stored, Settled),
         \A p \in detectPathConflicts(stored) : ~IsErrors(p)
  PROVE  x \in Declared(Assemble(stored, TRUE))
<1>1. PICK f \in stored : f.service \in Settled /\ IsErrors(f.path) /\ x \in f.content.names
  BY DEF Overlay
<1> DEFINE w == LastWriter(stored, f.path)
<1>2. w \in stored /\ w.path = f.path
  BY LastWriterIsStored DEF LookupInv
<1> HIDE DEF w
<1>3. f.path \notin detectPathConflicts(stored)
  BY <1>1
<1>4. w.content = f.content
  BY <1>2, <1>3 DEF detectPathConflicts
<1>5. f.path \in DOMAIN Artifacts(stored) /\ Artifacts(stored)[f.path] = f.content
  BY <1>4 DEF Artifacts, w
<1>6. f.path \in DOMAIN Merge(stored) /\ Merge(stored)[f.path] = f.content
  BY <1>5 DEF Merge, Override
<1> QED  BY <1>1, <1>6, MergedErrorsAreDeclared

\* What a file of the monorepo declares is in the tree, because the skeleton
\* has it, unless a file was stored for its path.
LEMMA ScannedIsDeclared ==
  ASSUME NEW p \in DOMAIN Monorepo, IsErrors(p), NEW x \in Monorepo[p].names,
         p \notin {f.path : f \in stored}
  PROVE  x \in Declared(Assemble(stored, TRUE))
<1>1. p \in DOMAIN walkSkeleton /\ walkSkeleton[p] = Monorepo[p]
  BY DEF walkSkeleton, skipDir, isSkeletonFile, IsErrors
<1>2. p \notin DOMAIN Artifacts(stored)
  BY DEF Artifacts
<1>3. p \in DOMAIN Merge(stored) /\ Merge(stored)[p] = Monorepo[p]
  BY <1>1, <1>2, OverrideKeeps DEF Merge
<1> QED  BY <1>3, MergedErrorsAreDeclared

\* LookupResolves for every monorepo, all agents and all losses on the way: a
\* lookup that a failed write left from an earlier delivery still lists only
\* what the tree declares, because a service that was done then is not
\* generated again.
THEOREM LookupAlwaysResolves == Spec => []LookupResolves
<1>1. Init => LookupInv
  <2> SUFFICES ASSUME Init PROVE LookupInv
    OBVIOUS
  <2>1. stored = {}
    BY DEF Init, AgentInit
  <2>2. StoredInv /\ RecordsInv
    <3>1. StoredInv
      BY <2>1 DEF StoredInv
    <3>2. Undecided
      BY IdleShape DEF Init, AgentInit, Undecided
    <3> QED  BY <3>1, <3>2, InitOwned, InitGreen DEF RecordsInv
  <2> QED  BY <2>1, <2>2 DEF LookupInv, Listed
<1>2. LookupInv => LookupResolves
  <2> DEFINE written == {f.path : f \in stored}
             left == [p \in DOMAIN Monorepo \cap written |-> Monorepo[p]]
  <2> SUFFICES ASSUME LookupInv, \A p \in detectPathConflicts(stored) : ~IsErrors(p),
                      NEW f \in stored, f.service = Pipeline, NEW x \in f.content.names
               PROVE  x \in Declared(Assemble(stored, TRUE)) \cup Declared(left)
    BY DEF LookupResolves
  <2>1. x \in scanExistingErrorVarNames \cup Overlay(stored, Settled)
    BY DEF LookupInv, Listed
  <2>2. CASE x \in Overlay(stored, Settled)
    BY <2>2, OverlayIsDeclared
  <2>3. CASE x \in scanExistingErrorVarNames
    <3>1. PICK p \in DOMAIN Monorepo : IsErrors(p) /\ x \in Monorepo[p].names
      BY <2>3 DEF scanExistingErrorVarNames, Declared
    <3>2. CASE p \in written
      <4>1. p \in DOMAIN left /\ left[p] = Monorepo[p]
        BY <3>2
      <4> QED  BY <3>1, <4>1 DEF Declared
    <3>3. CASE p \notin written
      BY <3>1, <3>3, ScannedIsDeclared
    <3> QED  BY <3>2, <3>3
  <2> QED  BY <2>1, <2>2, <2>3
<1>3. LookupInv /\ [Next]_vars => LookupInv'
  BY NextLookup
<1> QED  BY <1>1, <1>2, <1>3, PTL DEF Spec
===============================================================================

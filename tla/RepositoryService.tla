--------------------------- MODULE RepositoryService ---------------------------
(***************************************************************************)
(* The repository service: registered git repositories, the probes that    *)
(* write what they find back to the record, and the push of a finished     *)
(* migration.  The git servers are external: a probe may meet any answer,  *)
(* and a push meets the commits somebody left on the main branch.          *)
(***************************************************************************)
EXTENDS PlatformStore

--------------------------------------------------------------------------------
(* The git client. *)

\* HTTP status of a discovery request; 0 stands for a failed connection and 500
\* for every other status.
HttpStatuses == {0, 200, 401, 403, 404, 500}

Probe(reachable, authValid) == [reachable |-> reachable, authValid |-> authValid]

\* ProbeSource: without the token first, then with it where the remote asks for
\* one; GitHub answers 404 for a private repository.
ProbeSource(anonymous, withToken, hasToken) ==
    CASE anonymous = 200 -> Probe(TRUE, TRUE)
      [] anonymous \in {401, 403} -> Probe(TRUE, hasToken /\ withToken = 200)
      [] anonymous = 404 -> IF hasToken THEN Probe(withToken = 200, withToken = 200)
                                        ELSE Probe(TRUE, FALSE)
      [] OTHER -> Probe(FALSE, FALSE)

\* TestConnection of the git client.
ProbedStatus(result) ==
    IF ~result.reachable THEN "UNREACHABLE"
    ELSE IF ~result.authValid THEN "AUTH_FAILED" ELSE "OK"

connectionStatusToState(status) ==
    CASE status = "OK" -> "CONNECTED"
      [] status = "AUTH_FAILED" -> "ERROR"
      [] OTHER -> "DISCONNECTED"

\* What a listing of the remote's refs may meet: the branches in the order of the
\* listing, with their hashes, and HEAD as a symbolic or as a plain reference.
Listings ==
    {[ok |-> TRUE, refs |-> <<[name |-> "main", hash |-> 1], [name |-> "next", hash |-> h]>>,
      symref |-> s, head |-> IF s = "" THEN 1 ELSE 0] : h \in {1, 2}, s \in {"", "next", "gone"}}
ListErrors == {"auth", "not_found", "network"}

\* mapBranchListError and branchListErrStatus: the status of a failed listing and
\* the answer of the handler.
ListErrorStatus(e) == IF e = "auth" THEN "AUTH_FAILED" ELSE "UNREACHABLE"
ListErrorAnswer(e) ==
    CASE e = "auth" -> "PermissionDenied" [] e = "not_found" -> "NotFound" [] OTHER -> "Internal"

\* ListBranches: the branch HEAD names, or those with the hash of HEAD.
IsDefault(l, b) == b.name = l.symref \/ (l.head # 0 /\ b.hash = l.head)

\* The first default branch of the listing, the stored one when there is none.
DefaultBranch(l, stored) ==
    LET found == {i \in DOMAIN l.refs : IsDefault(l, l.refs[i])} IN
    IF found = {} THEN stored
    ELSE l.refs[CHOOSE i \in found : \A j \in found : i <= j].name

--------------------------------------------------------------------------------
(* The records. *)

RepositoryFields == {"remote_url", "default_branch", "state", "connection_status", "credential_ref"}

\* CreateRepository: the caller is the owner unless another is named.  The call
\* to the identity service carries no token and is refused there, so with such a
\* client nothing is created.  Identifier and insert are one transaction.
CreateRepository(c) ==
    /\ call[c].pc = "create"
    /\ LET k == call[c]
           d == [k.given EXCEPT !.owner = IF @ = 0 THEN k.uid ELSE @]
           id == NextIdentifier("repositories") IN
       \/ /\ d.remote_url = "" \/ IdentityClient \/ DuplicateKey("repositories", id, d)
          /\ Answer(c, IF d.remote_url = "" THEN "InvalidArgument"
                       ELSE IF IdentityClient THEN "Internal" ELSE "AlreadyExists")
          /\ UNCHANGED <<storeVars, faults, touched>>
       \/ /\ d.remote_url # "" /\ ~IdentityClient /\ ~DuplicateKey("repositories", id, d)
          /\ counters' = [counters EXCEPT !["repositories"] = id]
          /\ Write("repositories", id, d)
          /\ touched' = IF <<d.state, d.connection_status>> = <<"UNSPECIFIED", "UNSPECIFIED">>
                        THEN touched ELSE touched \cup {id}
          /\ Answer(c, "OK")
          /\ UNCHANGED faults
       \/ /\ Fault
          /\ Answer(c, "Internal")
          /\ UNCHANGED <<storeVars, touched>>
    /\ UNCHANGED <<sessionVars, tokenVars, target, calls>>

ListRepositories(c) ==
    /\ call[c].pc = "read" /\ call[c].rpc = "ListRepositories"
    /\ Answer(c, "OK")
    /\ UNCHANGED <<storeVars, sessionVars, tokenVars, target, calls, faults, touched>>

\* The handlers read the record once for the owner ...
LoadRepository(c) ==
    /\ call[c].pc = "load"
    /\ call[c].rpc \in {"GetRepository", "UpdateRepository", "DeleteRepository",
                        "TestConnection", "ListBranches"}
    /\ LET k == call[c] IN
       IF k.id = 0 THEN Answer(c, "InvalidArgument")
       ELSE IF ~Live("repositories", k.id) THEN Answer(c, "NotFound")
       ELSE IF ~k.sys /\ docs["repositories"][k.id].owner # k.uid
            THEN Answer(c, "PermissionDenied")
       ELSE IF k.rpc = "GetRepository" THEN Answer(c, "OK")
       ELSE Goto(c, IF k.rpc = "DeleteRepository" THEN "delete" ELSE "reread")
    /\ UNCHANGED <<storeVars, sessionVars, tokenVars, target, calls, faults, touched>>

\* ... and the service reads it again: this is the copy that is written back.
\* An empty mask changes nothing.
ReadRepository(c) ==
    /\ call[c].pc = "reread"
    /\ LET k == call[c] IN
       IF ~Live("repositories", k.id) THEN Answer(c, "NotFound")
       ELSE call' = [call EXCEPT
              ![c].doc = IF k.rpc = "UpdateRepository"
                         THEN [f \in DOMAIN docs["repositories"][k.id] |->
                                 IF f \in k.mask \cap RepositoryFields THEN k.given[f]
                                 ELSE docs["repositories"][k.id][f]]
                         ELSE docs["repositories"][k.id],
              ![c].pc = IF k.rpc = "UpdateRepository" THEN "store" ELSE "probe"]
    /\ UNCHANGED <<storeVars, sessionVars, tokenVars, target, calls, faults, touched>>

\* Update: $set of every field, an empty credential excepted, on a live record.
Stored(id, d) ==
    [d EXCEPT !.credential_ref = IF @ = "" THEN docs["repositories"][id].credential_ref ELSE @]

\* An update whose filter has the identifier only.
UpdatableAny(id, d) == id \in DOMAIN docs["repositories"] /\ ~KeyTaken("repositories", d, id)

Updatable(id, d) == Live("repositories", id) /\ ~KeyTaken("repositories", d, id)

UpdateRepositoryWrite(c) ==
    /\ call[c].pc = "store"
    /\ LET k == call[c] IN
       \/ /\ Updatable(k.id, k.doc)
          /\ Write("repositories", k.id, Stored(k.id, k.doc))
          /\ touched' = IF k.mask \cap {"state", "connection_status"} = {}
                        THEN touched ELSE touched \cup {k.id}
          /\ Answer(c, "OK")
          /\ UNCHANGED faults
       \/ /\ ~Updatable(k.id, k.doc)
          /\ Answer(c, IF Live("repositories", k.id) THEN "Internal" ELSE "NotFound")
          /\ UNCHANGED <<docs, faults, touched>>
       \/ /\ Fault
          /\ Answer(c, "Internal")
          /\ UNCHANGED <<docs, touched>>
    /\ UNCHANGED <<counters, sessionVars, tokenVars, target, calls>>

DeleteRepository(c) ==
    /\ call[c].pc = "delete" /\ call[c].rpc = "DeleteRepository"
    /\ LET k == call[c] IN
       \/ /\ Live("repositories", k.id)
          /\ Write("repositories", k.id,
                   [docs["repositories"][k.id] EXCEPT !.deleted = TRUE, !.state = "DISCONNECTED"])
          /\ Answer(c, "OK")
       \/ /\ ~Live("repositories", k.id)
          /\ Answer(c, "NotFound")
          /\ UNCHANGED docs
    /\ UNCHANGED <<counters, sessionVars, tokenVars, target, calls, faults, touched>>

\* TestConnection: the slow part, up to two requests of 15 seconds.
TestConnectionProbe(c) ==
    /\ call[c].pc = "probe" /\ call[c].rpc = "TestConnection"
    /\ \E s1, s2 \in HttpStatuses :
         LET status == ProbedStatus(ProbeSource(s1, s2, call[c].doc.credential_ref # "")) IN
         call' = [call EXCEPT ![c].doc.connection_status = status,
                              ![c].doc.state = connectionStatusToState(status),
                              ![c].cause = "OK", ![c].pc = "persist"]
    /\ UNCHANGED <<storeVars, sessionVars, tokenVars, target, calls, faults, touched>>

\* ListBranches: the listing, then status, state and default branch.
ListBranchesProbe(c) ==
    /\ call[c].pc = "probe" /\ call[c].rpc = "ListBranches"
    /\ \/ \E l \in Listings :
            call' = [call EXCEPT ![c].doc.connection_status = "OK",
                                 ![c].doc.state = "CONNECTED",
                                 ![c].doc.default_branch = DefaultBranch(l, @),
                                 ![c].cause = "OK", ![c].pc = "persist"]
       \/ \E e \in ListErrors :
            call' = [call EXCEPT ![c].doc.connection_status = ListErrorStatus(e),
                                 ![c].doc.state = IF e = "auth" THEN "ERROR" ELSE "DISCONNECTED",
                                 ![c].cause = ListErrorAnswer(e), ![c].pc = "persist"]
    /\ UNCHANGED <<storeVars, sessionVars, tokenVars, target, calls, faults, touched>>

\* UpdateConnectionStatus in place of the whole record.
PersistStatusOnly(c) ==
    /\ call[c].pc = "persist"
    /\ IF Live("repositories", call[c].id)
       THEN docs' = [docs EXCEPT !["repositories"][call[c].id].connection_status =
                                    call[c].doc.connection_status]
       ELSE UNCHANGED docs
    /\ Answer(c, call[c].cause)
    /\ UNCHANGED <<counters, sessionVars, tokenVars, target, calls, faults, touched>>

\* The copy read before the probe is written back; the result is ignored.
PersistProbe(c) ==
    /\ call[c].pc = "persist"
    /\ LET k == call[c] IN
       \/ /\ Updatable(k.id, k.doc)
          /\ Write("repositories", k.id, Stored(k.id, k.doc))
          /\ UNCHANGED faults
       \/ /\ ~Updatable(k.id, k.doc)
          /\ UNCHANGED <<docs, faults>>
       \/ /\ Fault
          /\ UNCHANGED docs
    /\ Answer(c, call[c].cause)
    /\ UNCHANGED <<counters, sessionVars, tokenVars, target, calls, touched>>

\* ProbeSourceRepository tells what it found and keeps nothing.
ProbeSourceRepository(c) ==
    /\ call[c].pc = "probe" /\ call[c].rpc = "ProbeSourceRepository"
    /\ Answer(c, IF call[c].given.remote_url = "" THEN "InvalidArgument" ELSE "OK")
    /\ UNCHANGED <<storeVars, sessionVars, tokenVars, target, calls, faults, touched>>

--------------------------------------------------------------------------------
(* The push, as the migration service asks for it. *)

\* mapPushError of the git client.
mapPushError(cause) ==
    CASE cause = "auth" -> "REPO206"
      [] cause = "rejected" -> "REPO207"
      [] cause = "network" -> "REPO208"
      [] OTHER -> "REPO500"

\* mapError of the handler: a gRPC code and the domain code in its message.
mapError(code) ==
    CASE code \in {"REPO201", "REPO203"} -> <<"NotFound", code>>
      [] code = "REPO202" -> <<"AlreadyExists", code>>
      [] code = "REPO205" -> <<"PermissionDenied", code>>
      [] code \in {"REPO101", "REPO102", "REPO103", "REPO104"} -> <<"InvalidArgument", code>>
      [] code = "REPO204" -> <<"Internal", code>>
      [] OTHER -> <<"Internal", "REPO500">>

\* mapPushGRPCError of the migration service.
mapPushGRPCError(status) ==
    IF status[1] = "Unauthenticated" \/ status[2] = "REPO206" THEN "ErrPushAuthFailed"
    ELSE IF status = <<"FailedPrecondition", "REPO207">> THEN "ErrPushConflict"
    ELSE IF status[2] = "REPO208" THEN "ErrPushNetworkError"
    ELSE IF status[1] = "FailedPrecondition" THEN "ErrPushConflict"
    ELSE "ErrInternal"

PushFailure(cause) == mapPushGRPCError(mapError(mapPushError(cause)))

\* PushResult without a target or without files.
PushNothing(c) ==
    /\ call[c].pc = "push" /\ call[c].given.remote_url = ""
    /\ Answer(c, mapPushGRPCError(mapError("REPO104")))
    /\ UNCHANGED <<storeVars, sessionVars, tokenVars, target, calls, faults, touched>>

\* PushResult: one fresh commit without parents, pushed to main without force.
\* It is taken by an empty repository and rejected by any other; the answer of a
\* push that was taken may still be lost.
PushResult(c) ==
    /\ call[c].pc = "push" /\ call[c].given.remote_url # ""
    /\ \E t \in Targets :
       \/ /\ target[t] = << >>
          /\ target' = [target EXCEPT ![t] = <<call[c].n>>]
          /\ Answer(c, "OK")
          /\ UNCHANGED faults
       \/ /\ target[t] # << >>
          /\ Answer(c, PushFailure("rejected"))
          /\ UNCHANGED <<target, faults>>
       \/ /\ Fault
          /\ \E cause \in {"auth", "network", "other"}, taken \in BOOLEAN :
               /\ taken => cause = "network" /\ target[t] = << >>
               /\ target' = IF taken THEN [target EXCEPT ![t] = <<call[c].n>>] ELSE target
               /\ Answer(c, PushFailure(cause))
    /\ UNCHANGED <<storeVars, sessionVars, tokenVars, calls, touched>>

\* Somebody else commits to a target.
ForeignCommit(t) ==
    /\ Fault
    /\ target' = [target EXCEPT ![t] = Append(@, 0)]
    /\ UNCHANGED <<storeVars, sessionVars, tokenVars, call, calls, touched>>

RepositoryStep(c) ==
    \/ CreateRepository(c) \/ ListRepositories(c) \/ LoadRepository(c) \/ ReadRepository(c)
    \/ UpdateRepositoryWrite(c) \/ DeleteRepository(c)
    \/ TestConnectionProbe(c) \/ ListBranchesProbe(c) \/ PersistProbe(c)
    \/ ProbeSourceRepository(c) \/ PushNothing(c) \/ PushResult(c)
================================================================================

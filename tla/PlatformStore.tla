----------------------------- MODULE PlatformStore -----------------------------
(***************************************************************************)
(* What the platform services share: the documents they keep in Mongo with *)
(* their unique indexes and soft deletion, the counters that identifiers   *)
(* come from, the sessions and revoked tokens kept in Redis, and the calls *)
(* under way.  A call is a sequence of steps, and the steps of two calls   *)
(* interleave as the reads and writes of two gRPC handlers do.             *)
(*                                                                         *)
(* Payload fields that no guard reads (names, texts, times) are left out.  *)
(***************************************************************************)
EXTENDS Integers, FiniteSets, Sequences, TLC

CONSTANTS
    Callers,        \* clients; each has at most one call under way
    Targets,        \* git repositories somebody may push to
    MaxCalls,       \* bound: calls begun
    MaxFaults,      \* bound: failing store calls, sessions and tokens that lapse
    Schema,         \* SchemaType of the token configuration: "JWT" or "Paseto"
    Blacklist,      \* Blacklist of the token configuration
    IdentityClient  \* the repository service has a client of the identity service

ASSUME BoundsAssumption == MaxCalls \in Nat /\ MaxFaults \in Nat
ASSUME SettingsAssumption ==
    /\ Schema \in {"JWT", "Paseto"}
    /\ Blacklist \in BOOLEAN
    /\ IdentityClient \in BOOLEAN

VARIABLES
    docs,       \* collection -> identifier -> document
    counters,   \* system_counters: collection -> seq, 0 when there is no counter
    sessions,   \* session:data: session id -> who logged in
    userSessions, \* user:sessions: the pairs <<user, session id>>
    blacklist,  \* revoked tokens
    expired,    \* tokens past their expiry time
    wallet,     \* tokens some client was given
    nextSid,    \* the next random session id
    target,     \* git repository -> the commits on its main branch
    call,       \* client -> its call
    calls,      \* calls begun
    faults,     \* faults and lapses so far
    ended,      \* history: sessions that were deleted or ran out
    spent,      \* history: refresh tokens exchanged and revoked
    touched     \* history: repositories whose state or status a client wrote itself

storeVars   == <<docs, counters>>
sessionVars == <<sessions, userSessions, nextSid, ended>>
tokenVars   == <<blacklist, expired, wallet, spent>>
vars == <<docs, counters, sessions, userSessions, nextSid, ended, blacklist,
          expired, wallet, spent, target, call, calls, faults, touched>>

Collections == {"users", "repositories", "articles", "tags", "migrations", "summaries"}

NoToken == [sid |-> 0, grant |-> "none", n |-> 0]
NoDoc == [deleted |-> TRUE]

IdleCall ==
    [rpc |-> "none", asked |-> "none", pc |-> "idle", n |-> 0, tok |-> NoToken,
     id |-> 0, pathId |-> 0, given |-> NoDoc, mask |-> {}, uid |-> 0,
     sys |-> FALSE, sid |-> 0, doc |-> NoDoc, attempt |-> 0, cause |-> "none",
     out |-> "none", since |-> [spent |-> {}, deleted |-> {}]]

\* The call goes on with another step.
Goto(c, pc) == call' = [call EXCEPT ![c].pc = pc]

\* The call ends and its client is answered.
Answered(out) == [IdleCall EXCEPT !.out = out]
Answer(c, out) == call' = [call EXCEPT ![c] = Answered(out)]

\* A store or network call fails.
Fault == faults < MaxFaults /\ faults' = faults + 1

Put(f, k, v) == [i \in DOMAIN f \cup {k} |-> IF i = k THEN v ELSE f[i]]
Remove(f, k) == [i \in DOMAIN f \ {k} |-> f[i]]

--------------------------------------------------------------------------------
(* Documents. *)

\* The filter {identifier, delete_time: nil}.
Live(coll, id) == id \in DOMAIN docs[coll] /\ ~docs[coll][id].deleted

\* The fields of a collection's unique index beside the one on identifier.
KeyOf(coll, d) ==
    CASE coll = "users"        -> <<d.email>>
      [] coll = "repositories" -> <<d.owner, d.remote_url>>
      [] coll = "articles"     -> <<d.slug, d.owner>>

\* The index covers the soft-deleted documents as well.
KeyTaken(coll, d, id) ==
    \E i \in DOMAIN docs[coll] \ {id} : KeyOf(coll, docs[coll][i]) = KeyOf(coll, d)

\* InsertOne fails with a duplicate key on either index.
DuplicateKey(coll, id, d) == id \in DOMAIN docs[coll] \/ KeyTaken(coll, d, 0)

Write(coll, id, d) == docs' = [docs EXCEPT ![coll] = Put(@, id, d)]

--------------------------------------------------------------------------------
(* generateIdentifier: a counter per collection, made by whoever comes first. *)

initialSequenceValue == 10001
maxIdentifierRetries == 3

\* $inc the counter and take what it shows; without a counter, or when the call
\* fails, with or without its effect, try to create one.
IncrementFirst(c, coll) ==
    /\ call[c].pc = "identifier"
    /\ \/ /\ counters[coll] # 0
          /\ counters' = [counters EXCEPT ![coll] = @ + 1]
          /\ call' = [call EXCEPT ![c].id = counters[coll] + 1, ![c].pc = "insert"]
          /\ UNCHANGED faults
       \/ /\ counters[coll] = 0
          /\ call' = [call EXCEPT ![c].attempt = 1, ![c].pc = "seed"]
          /\ UNCHANGED <<counters, faults>>
       \/ /\ Fault
          /\ counters[coll] # 0
          /\ \E lost \in {0, 1} : counters' = [counters EXCEPT ![coll] = @ + lost]
          /\ call' = [call EXCEPT ![c].attempt = 1, ![c].pc = "seed"]

\* The counter of a concurrent creator is reset instead of respected.
SeedCounterResets(c, coll) ==
    /\ call[c].pc = "seed"
    /\ counters' = [counters EXCEPT ![coll] = initialSequenceValue]
    /\ call' = [call EXCEPT ![c].id = initialSequenceValue, ![c].pc = "insert"]
    /\ UNCHANGED faults

\* Insert the counter; a duplicate key says that somebody else was faster.
SeedCounter(c, coll) ==
    /\ call[c].pc = "seed"
    /\ \/ /\ counters[coll] = 0
          /\ counters' = [counters EXCEPT ![coll] = initialSequenceValue]
          /\ call' = [call EXCEPT ![c].id = initialSequenceValue, ![c].pc = "insert"]
          /\ UNCHANGED faults
       \/ /\ counters[coll] # 0
          /\ Goto(c, "increment")
          /\ UNCHANGED <<counters, faults>>
       \/ /\ Fault
          /\ Answer(c, "Internal")
          /\ UNCHANGED counters

\* After the duplicate key: $inc again, and the next attempt when that fails.
IncrementAgain(c, coll) ==
    /\ call[c].pc = "increment"
    /\ \/ /\ counters' = [counters EXCEPT ![coll] = @ + 1]
          /\ call' = [call EXCEPT ![c].id = counters[coll] + 1, ![c].pc = "insert"]
          /\ UNCHANGED faults
       \/ /\ Fault
          /\ \E lost \in {0, 1} : counters' = [counters EXCEPT ![coll] = @ + lost]
          /\ IF call[c].attempt < maxIdentifierRetries
             THEN call' = [call EXCEPT ![c].attempt = @ + 1, ![c].pc = "seed"]
             ELSE Answer(c, "Internal")

GenerateIdentifier(c, coll) ==
    /\ \/ IncrementFirst(c, coll)
       \/ SeedCounter(c, coll)
       \/ IncrementAgain(c, coll)
    /\ UNCHANGED <<docs, sessionVars, tokenVars, target, calls, touched>>

\* The identifier a transaction sees: its steps are not interleaved with others.
NextIdentifier(coll) ==
    IF counters[coll] = 0 THEN initialSequenceValue ELSE counters[coll] + 1
================================================================================

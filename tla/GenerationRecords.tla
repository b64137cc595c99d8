--------------------------- MODULE GenerationRecords ---------------------------
(***************************************************************************)
(* What one generation task promises to those who read the records of its  *)
(* migration, without goroutines, containers, retries or deliveries: a     *)
(* service is done only after an agent passed its gates, what is done      *)
(* stays done and is not generated again, files of a service are stored    *)
(* only to complete a result, by nobody else, and none is lost.  The       *)
(* outcome may be written more than once, also to undo READY or FAILED,    *)
(* but always from the records, and the task is acknowledged only while    *)
(* the outcome agrees with them.  After that it moves nothing.             *)
(***************************************************************************)
CONSTANTS
  Services,   \* services to generate
  Pipeline    \* owner of the files that the pipeline itself writes

VARIABLES
  life,     \* of the task
  state,    \* of the migration
  status,   \* service -> status of its record
  green,    \* services an agent has passed the gates of
  owed,     \* services with a result whose files are still to be stored
  paths     \* owner -> paths of its stored files

recordVars == <<life, state, status, green, owed, paths>>

Owners == Services \cup {Pipeline}

Init ==
  /\ life = "open"
  /\ state = "GENERATING"
  /\ status = [s \in Services |-> "none"]
  /\ green = {}
  /\ owed = {}
  /\ paths = [o \in Owners |-> {}]

\* What the records say of the migration.
Outcome == IF \E s \in Services : status[s] = "failed" THEN "FAILED" ELSE "READY"

\* The service is not done.
Open(s) == status[s] # "done"

\* An agent starts, for the first time or again.
Begin(s) ==
  /\ Open(s)
  /\ status' = [status EXCEPT ![s] = "generating"]
  /\ UNCHANGED <<life, state, green, owed, paths>>

\* An agent has passed its gates.
Pass(s) ==
  /\ Open(s)
  /\ green' = green \cup {s}
  /\ UNCHANGED <<life, state, status, owed, paths>>

\* An attempt has its result; the write of its record may be lost.
Finish(s) ==
  /\ Open(s) /\ s \notin owed
  /\ \/ s \in green /\ status' = [status EXCEPT ![s] = "done"]
     \/ status' = [status EXCEPT ![s] = "failed"]
     \/ status' = status
  /\ owed' = owed \cup {s}
  /\ UNCHANGED <<life, state, green, paths>>

\* Files of one owner are stored, over or beside its older ones.
Stores(o) ==
  /\ DOMAIN paths' = Owners
  /\ paths[o] \subseteq paths'[o]
  /\ \A q \in Owners \ {o} : paths'[q] = paths[q]
  /\ UNCHANGED <<life, state, status, green>>

StoreResult(s) == s \in owed /\ owed' = owed \ {s} /\ Stores(s)

\* The pipeline's own file, when no result is under way.
StoreLookup == owed = {} /\ owed' = owed /\ Stores(Pipeline)

Decide ==
  /\ owed = {}
  /\ state' = Outcome
  /\ UNCHANGED <<life, status, green, owed, paths>>

\* The process dies, and with it the files it still had to store.
Crash ==
  /\ owed' = {}
  /\ UNCHANGED <<life, state, status, green, paths>>

Acknowledge ==
  /\ state = Outcome /\ owed = {}
  /\ life' = "acknowledged"
  /\ UNCHANGED <<state, status, green, owed, paths>>

\* The last delivery failed or crashed, perhaps in the write of the outcome.
Archive ==
  /\ life' = "archived" /\ owed' = {}
  /\ state' = state \/ (owed = {} /\ state' = Outcome)
  /\ UNCHANGED <<status, green, paths>>

Next ==
  /\ life = "open"
  /\ \/ \E s \in Services : Begin(s) \/ Pass(s) \/ Finish(s) \/ StoreResult(s)
     \/ StoreLookup \/ Decide \/ Crash \/ Acknowledge \/ Archive

Spec == Init /\ [][Next]_recordVars
===============================================================================

--------------------------- MODULE AnalysisLifecycle ---------------------------
(***************************************************************************)
(* What an analysis promises to those who refer to it, without services,   *)
(* tasks or retries: it is created once, ends once, and what it describes  *)
(* never changes after that. The one thing that may still happen to a      *)
(* COMPLETED analysis is that a migration claims it, if nobody owns it.    *)
(***************************************************************************)
EXTENDS Integers

CONSTANTS
  Ids,      \* identifiers of analyses
  Owners,   \* migrations that may own one
  Shas      \* commits an analysis may describe; 0 is unknown

VARIABLES state, owner, sha

lifecycleVars == <<state, owner, sha>>

Init ==
  /\ state = [s \in Ids |-> "none"]
  /\ owner = [s \in Ids |-> 0]
  /\ sha   = [s \in Ids |-> 0]

\* RunAnalysis creates it, for a migration or for nobody.
Create(s, o) ==
  /\ state[s] = "none"
  /\ state' = [state EXCEPT ![s] = "RUNNING"]
  /\ owner' = [owner EXCEPT ![s] = o]
  /\ UNCHANGED sha

\* A worker's results are accepted, and with them the commit.
Complete(s, h) ==
  /\ state[s] = "RUNNING"
  /\ state' = [state EXCEPT ![s] = "COMPLETED"]
  /\ sha' = [sha EXCEPT ![s] = h]
  /\ UNCHANGED owner

\* The last attempt failed, or another analysis took its place.
Fail(s) ==
  /\ state[s] = "RUNNING"
  /\ state' = [state EXCEPT ![s] = "FAILED"]
  /\ UNCHANGED <<owner, sha>>

\* A migration reuses a COMPLETED analysis that has no owner.
Claim(s, o) ==
  /\ state[s] = "COMPLETED" /\ owner[s] = 0
  /\ owner' = [owner EXCEPT ![s] = o]
  /\ UNCHANGED <<state, sha>>

Next ==
  \E s \in Ids :
    \/ \E o \in Owners \cup {0} : Create(s, o)
    \/ \E h \in Shas : Complete(s, h)
    \/ Fail(s)
    \/ \E o \in Owners : Claim(s, o)

Spec == Init /\ [][Next]_lifecycleVars
=============================================================================

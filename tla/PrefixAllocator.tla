--------------------------- MODULE PrefixAllocator ---------------------------
(***************************************************************************)
(* DeterministicPrefixAllocator: the error prefixes of the services that   *)
(* one decomposition worker process has designed.  A prefix is the first   *)
(* two letters of the name with its third letter, or with a counter that   *)
(* starts at 2 when that one belongs to another name.  An entry is never   *)
(* given back; the table is lost when the process ends.                    *)
(***************************************************************************)
EXTENDS Integers, TLC

CONSTANTS
  Names,       \* the service names
  Letters,     \* name -> <<its first two letters, its third one>>, in upper case
  MaxSuffix    \* the last counter tried: 99 in the code

\* A third character is a number: the digit that it is, or 100 and more for a
\* letter, so that the name AR2 and the counter 2 of AR meet as in the code.
ASSUME AllocatorAssumption ==
  /\ \A n \in Names : Letters[n][2] \in Nat
  /\ MaxSuffix \in Nat \ {0}

VARIABLE assigned   \* prefix -> the first service name that claimed it

Ranks == 1..MaxSuffix   \* the clean base, then the counters 2 to MaxSuffix
Candidate(name, k) ==
  IF k = 1 THEN <<Letters[name][1], Letters[name][2]>> ELSE <<Letters[name][1], k>>

Usable(name, k) ==   \* free, or the name's own
  Candidate(name, k) \in DOMAIN assigned => assigned[Candidate(name, k)] = name

SettlesOnCounter(name, k) ==
  (k = 1 /\ Usable(name, 1)) \/ (k = 2 /\ ~Usable(name, 1))

\* The k-th candidate is the one that the loop stops at.
Settles(name, k) == Usable(name, k) /\ \A j \in 1..(k - 1) : ~Usable(name, j)

Exhausted(name) == \A k \in Ranks : ~Usable(name, k)

Claim(name, k) ==
  /\ Settles(name, k)
  /\ assigned' = [p \in DOMAIN assigned \cup {Candidate(name, k)} |->
                    IF p = Candidate(name, k) THEN name ELSE assigned[p]]

AllocatorInit == assigned = <<>>

Restart == assigned' = <<>>
==============================================================================

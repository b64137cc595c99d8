---------------------------- MODULE MCMiltonPrism ----------------------------
(* The instances of MiltonPrism that TLC checks; the bounds are in the cfgs. *)
EXTENDS MiltonPrism, TLC

\* Create requests that name no analysis, or one to adopt.
SourceDrafts == {[EmptyDraft EXCEPT !.source = s] : s \in SummaryRef}

\* One that brings a reference to the last analysis.
LinkedDrafts == SourceDrafts \cup {[EmptyDraft EXCEPT !.summary = MaxSummaries]}

\* One that brings everything the engine writes: a reference, a plan, a verdict with
\* its override, and a roadmap with what is derived from it.
FilledDraft ==
  [ source |-> 0, summary |-> MaxSummaries, planned |-> TRUE, services |-> Services,
    verdict |-> "NOT_MIGRABLE", override |-> TRUE, roadmap |-> "steps",
    enriched |-> TRUE, blueprint |-> TRUE ]

FilledDrafts == SourceDrafts \cup {FilledDraft}

\* Services are interchangeable: plans, contracts and outcomes are left to
\* chance, and the filters of the runs that use this are closed under renaming.
ServiceSymmetry == Permutations(Services)
CallerSymmetry  == Permutations(Callers)
Symmetry        == ServiceSymmetry \cup CallerSymmetry
=============================================================================

----------------------------- MODULE MCSourceFacts -----------------------------
(* The first boot knows every source, or every one but the pull requests'. *)
EXTENDS SourceFacts
FirstPlansDef == {Sources, Sources \ PullSources}
FirstListsDef == {Tickets}
================================================================================

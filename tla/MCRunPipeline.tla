--------------------------- MODULE MCRunPipeline ---------------------------
(* Small instances of RunPipeline.  Invocations are model values.            *)
EXTENDS RunPipeline

CONSTANTS p1, p2, p3, c1

\* Bound: beside a stage command only one pipeline runs, and there is a hand
\* that edits; its mode is PUBLISH.
SmallCompany ==
  \/ Orchestrated
  \/ mode[p1] = "PUBLISH" /\ \A p \in Pipelines \ {p1} : pc[p] = "idle"

\* A started process that is not killed keeps executing: provider calls and file
\* accesses return or raise.  Nobody has to start or kill one.
FairBounded ==
  /\ Init /\ [][Next /\ SmallCompany']_vars
  /\ WF_vars(\E p \in Proc : Step(p))

\* An invocation ends, and frees the Run, unless it is killed
\* (orchestrator.resume_pipeline).
InvocationsEnd == <>[](\A p \in Proc : pc[p] \in {"idle", "done"})
=============================================================================

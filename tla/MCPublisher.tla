----------------------------- MODULE MCPublisher -----------------------------
(* Small instances of Publisher.  Invocations are model values.              *)
EXTENDS Publisher, TLC

CONSTANT p1

\* Invocations of one kind are interchangeable (not sound for liveness).
Interchangeable == Permutations(Pipelines) \cup Permutations(Clis)

\* Bound: beside a publish command only one pipeline runs, and there is an
\* editor.
SmallCompany ==
  IF Orchestrated THEN article = ApprovedText
  ELSE \A p \in Pipelines \ {p1} : pc[p] = "idle"

\* Bound: the article is edited once.
BoundedStep ==
  /\ Next
  /\ article' # article => article = ApprovedText
  /\ SmallCompany'

Bounded == Init /\ [][BoundedStep]_vars

\* A started process that is not killed keeps executing; nobody has to start
\* one, kill one, edit a file or remove a lock.
FairBounded == Bounded /\ WF_vars(\E p \in Proc : Proceed(p))

\* Invocations end, unless they are killed: flood control and refusals cannot
\* hold one (and its lock) for ever.
InvocationsEnd == <>[](\A p \in Proc : pc[p] \in {"idle", "done"} \/ p \in dead)
=============================================================================

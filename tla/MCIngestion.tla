----------------------------- MODULE MCIngestion -----------------------------
(* Small instances of Admission, and of Ingestion in it.  Invocations and     *)
(* contents are model values.                                                 *)
EXTENDS Admission, TLC

\* Invocations of one kind are interchangeable.
Interchangeable ==
  Permutations(Workers) \cup Permutations(Operators)

CONSTANT TicksSee  \* the contents producers send where ticks ingest

\* Bound: operators' commands meet each other, ticks meet producers.
SmallCompany ==
  \/ /\ OnlyTicks
     /\ \A f \in Folders, e \in Event : box[f][e] \in TicksSee \cup {None}
  \/ \A p \in Workers \cup Producers : pc[p] = "idle" /\ look[p].at = "none"

Bounded ==
  AdmissionInit /\ [][AdmissionNext /\ SmallCompany']_admissionVars
=============================================================================

------------------------------ MODULE Admission ------------------------------
(***************************************************************************)
(* Who may put an event into the inbox: services/admission.py, asked by     *)
(* services/event_intake.py (a tick fetches what a remote producer offers,  *)
(* before it reconciles, under the worker lock) and by services/producer.py *)
(* (a command, without it).  Both look through the ledger and some of the   *)
(* folders, one after the other, and submit what they found nowhere.        *)
(***************************************************************************)
EXTENDS Ingestion, Naturals, Sequences

VARIABLE
  look   \* look[p]: the lookup an invocation is making

admissionVars == <<vars, look>>

\* SEARCHED, in its order.
SearchedAtRest == <<"incoming", "processed", "failed">>
SearchedBackwards == <<"failed", "processed", "processing", "incoming">>
Searched == <<"incoming", "processing", "processed", "failed">>

\* A step of the lookup: none yet, the ledger, a folder, what follows
\* AdmissionState.NEW, or over.
LookAt == {"none", "ledger", "submit", "place", "over"} \cup Folders

Lookup == [at : LookAt, event : Event, offer : Payload, known : BOOLEAN]

AdmissionTypeOK ==
  /\ TypeOK
  /\ look \in [Proc -> Lookup]

Looking(p) == p \notin dead /\ look[p].at \notin {"none", "over"}
\* Over is as it began: the rest is forgotten.
Blank(l) ==
  [at |-> l, event |-> CHOOSE e \in Event : TRUE,
   offer |-> CHOOSE d \in Payload : TRUE, known |-> FALSE]
Onto(p, l) ==
  look' = [look EXCEPT ![p] = IF l = "over" THEN Blank(l) ELSE [@ EXCEPT !.at = l]]

AdmissionInit ==
  /\ Init
  /\ look = [p \in Proc |-> Blank("none")]

\* There is a trace of the event.
Known(e) ==
  \/ ledger[e] # Absent
  \/ \E f \in {"incoming", "processing", "processed", "failed"} : There(f, e)

\* Validated against the schema and the types a producer may ask for; then the
\* lookup starts.
Offer(p) ==
  /\ look[p].at = "none"
  /\ \/ p \in Workers /\ At(p, "list_orphans")
     \/ p \in Producers /\ At(p, "idle")
  /\ \E e \in Event, d \in Payload \ Malformed :
       look' = [look EXCEPT ![p] =
                  [at |-> "ledger", event |-> e, offer |-> d, known |-> Known(e)]]
  /\ UNCHANGED vars

\* Any entry, readable or not, is a reason not to submit.
LookInLedger(p) ==
  /\ Looking(p)
  /\ look[p].at = "ledger"
  /\ Onto(p, IF ledger[look[p].event] = Absent THEN Searched[1] ELSE "over")
  /\ UNCHANGED vars

\* existing_copy: a file is one too, whatever it says (DUPLICATE or CONFLICT).
LookInFolder(p) ==
  /\ Looking(p)
  /\ \E i \in 1 .. Len(Searched) :
       /\ look[p].at = Searched[i]
       /\ Onto(p, IF There(Searched[i], look[p].event) THEN "over"
                  ELSE IF i = Len(Searched) THEN "submit"
                  ELSE Searched[i + 1])
  /\ UNCHANGED vars

\* Inbox.submit: refused if one is waiting, ...
CheckQueue(p) ==
  /\ Looking(p)
  /\ look[p].at = "submit"
  /\ Onto(p, IF There("incoming", look[p].event) THEN "over" ELSE "place")
  /\ UNCHANGED vars

\* ... then renamed into place.
Admit(p) ==
  /\ Looking(p)
  /\ look[p].at = "place"
  /\ box' = [box EXCEPT !["incoming"][look[p].event] = look[p].offer]
  /\ Onto(p, "over")
  /\ UNCHANGED <<lockVars, ledger, run, localVars>>

\* An OSError: _fetch_remote_events swallows it, a command ends.
GiveUp(p) ==
  /\ Looking(p)
  /\ Onto(p, "over")
  /\ UNCHANGED vars

\* A lookup remembers (for the properties) whether the event was somewhere all
\* the while, moving only ahead.
Ahead ==
  {<<"incoming", "processing">>, <<"processing", "processed">>,
   <<"processing", "failed">>}
Forward(e) ==
  \A f \in Folders :
    There(f, e) /\ ~There(f, e)' => \E m \in Ahead : m[1] = f /\ There(m[2], e)'

Remembered(p) ==
  [look[p] EXCEPT !.known =
     @ /\ \A e \in Event : e = look[p].event => Known(e)' /\ Forward(e)]

\* While it looks, an invocation does nothing else; a producer does one thing.
Elsewhere ==
  /\ Next
  /\ \A p \in Proc :
       Looking(p) \/ (p \in Producers /\ look[p].at # "none") => pc'[p] = pc[p]
  /\ look' = [p \in Proc |-> IF Looking(p) THEN Remembered(p) ELSE look[p]]

AdmissionNext ==
  \/ \E p \in Proc :
       \/ Offer(p) \/ LookInLedger(p) \/ LookInFolder(p) \/ CheckQueue(p)
       \/ Admit(p) \/ GiveUp(p)
  \/ Elsewhere

AdmissionSpec == AdmissionInit /\ [][AdmissionNext]_admissionVars

-----------------------------------------------------------------------------
(* Properties *)

\* A lookup is not atomic, and still does not miss an event that is on its way
\* through the inbox: one it calls new was absent at some moment of the lookup,
\* or went back (put back, deferred, expired) while it was being looked for. And
\* what a tick is about to admit from the remote producer is not being worked
\* on, was not worked on and was not refused before: in particular what a killed
\* tick left in processing/, which this tick has yet to reconcile.
LookupMissesNothing ==
  /\ \A p \in Proc : look[p].at \in {"submit", "place"} => ~look[p].known
  /\ OnlyTicks =>
       \A p \in Workers :
         p \notin dead /\ look[p].at \in {"submit", "place"} =>
           LET e == look[p].event IN
           /\ ledger[e] = Absent
           /\ \A f \in {"processing", "processed", "failed"} : ~There(f, e)
=============================================================================

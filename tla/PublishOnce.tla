----------------------------- MODULE PublishOnce -----------------------------
(***************************************************************************)
(* What publishing a Run promises, whatever the processes, locks and files  *)
(* behind it: one attempt, whose chunks reach the channel in order, each    *)
(* once, and an outcome that is true of what readers can see.               *)
(***************************************************************************)
EXTENDS Naturals

CONSTANTS
  Message,    \* messages that could be posted; each has a .chunk
  NChunks     \* chunks in the article

VARIABLES
  phase,      \* "approved", "attempting" or "closed"
  delivered,  \* the messages readers can see
  outcome     \* what was recorded, "NONE" until closed

vars == <<phase, delivered, outcome>>

Seen == {m.chunk : m \in delivered}

Init ==
  /\ phase = "approved"
  /\ delivered = {}
  /\ outcome = "NONE"

Begin ==
  /\ phase = "approved"
  /\ phase' = "attempting"
  /\ UNCHANGED <<delivered, outcome>>

\* The next chunk in order appears; one that is there never appears again.
Deliver ==
  /\ phase = "attempting"
  /\ \E m \in Message :
       /\ Seen = 1..m.chunk - 1
       /\ delivered' = delivered \cup {m}
  /\ UNCHANGED <<phase, outcome>>

Close ==
  /\ phase = "attempting"
  /\ phase' = "closed"
  /\ outcome' \in {"UNCERTAIN"}
       \cup (IF Seen = 1..NChunks THEN {"PUBLISHED"} ELSE {})
       \cup (IF Seen = {} THEN {"FAILED"} ELSE {})
       \cup (IF Seen \notin {{}, 1..NChunks} THEN {"PARTIAL"} ELSE {})
  /\ UNCHANGED delivered

Next == Begin \/ Deliver \/ Close

Spec == Init /\ [][Next]_vars
=============================================================================

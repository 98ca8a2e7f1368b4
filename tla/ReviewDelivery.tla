---------------------------- MODULE ReviewDelivery ----------------------------
(***************************************************************************)
(* Showing an approved Run to a human: services/review_delivery.py, called  *)
(* for every Run by each automation tick (automation.py, _deliver_reviews). *)
(*                                                                         *)
(* Ticks follow one another under the worker lock, but a delivery takes no  *)
(* Run lock: it loads manifest.json, works for seconds and writes its copy  *)
(* back, while an operator may publish the same Run.  Each access to the    *)
(* disk or to Telegram is a step; a tick may be killed before any of them.  *)
(***************************************************************************)
EXTENDS Naturals

CONSTANTS
  NChunks,      \* messages a review copy takes
  MaxRetries,   \* MAX_RATE_LIMIT_RETRIES
  Publishing,   \* whether an operator may publish meanwhile
  MaxCrashes    \* bound: ticks killed, or ended by an unforeseen exception

ASSUME SizeAssumption ==
  /\ NChunks \in Nat \ {0}
  /\ MaxRetries \in Nat
  /\ MaxCrashes \in Nat
  /\ Publishing \in BOOLEAN

VARIABLES
  manifest,   \* manifest.json: the status and the artifacts it knows of
  intent,     \* review_delivery_intent.json exists
  result,     \* the status in review_delivery_result.json
  old,        \* the Run is past max_run_age_minutes
  inbox,      \* the chunks in the operator's chat, each as often as it came
  pc,         \* where the tick stands
  copy,       \* the manifest it loaded
  confirmed,  \* chunks Telegram confirmed to it
  retries,    \* flood-control answers to the chunk at hand
  outcome,    \* how the sending ended
  pub,        \* where an operator's publication stands
  pubCopy,    \* the manifest that loaded
  crashes     \* ticks killed so far

diskVars == <<manifest, intent, result>>
tickVars == <<pc, copy, confirmed, retries, outcome>>
pubVars == <<pub, pubCopy>>
vars == <<diskVars, old, inbox, tickVars, pubVars, crashes>>

Statuses == {"READY_TO_PUBLISH", "PUBLISHING", "PUBLISHED", "PUBLISH_BLOCKED"}
Records == {"review_intent", "review_result", "publish_result"}
Manifest == [status : Statuses, artifacts : SUBSET Records]
Delivery == {"DELIVERED", "PARTIAL", "FAILED", "UNCERTAIN"}

Ready == [status |-> "READY_TO_PUBLISH", artifacts |-> {}]

TypeOK ==
  /\ manifest \in Manifest
  /\ intent \in BOOLEAN
  /\ result \in Delivery \cup {"NONE"}
  /\ old \in BOOLEAN
  /\ inbox \in [1 .. NChunks -> Nat]
  /\ pc \in {"idle", "commit", "record_intent", "send", "result", "record_result"}
  /\ copy \in Manifest
  /\ confirmed \in 0 .. NChunks
  /\ retries \in 0 .. MaxRetries
  /\ outcome \in Delivery
  /\ pub \in {"idle", "begin", "end", "done"}
  /\ pubCopy \in Manifest
  /\ crashes \in 0 .. MaxCrashes
  /\ pc \in {"record_intent", "send"} => intent /\ result = "NONE"

Init ==
  /\ manifest = Ready
  /\ intent = FALSE
  /\ result = "NONE"
  /\ old = FALSE
  /\ inbox = [c \in 1 .. NChunks |-> 0]
  /\ pc = "idle"
  /\ copy = Ready
  /\ confirmed = 0
  /\ retries = 0
  /\ outcome = "UNCERTAIN"
  /\ pub = "idle"
  /\ pubCopy = Ready
  /\ crashes = 0

Goto(l) == pc' = l

\* What a tick had in memory is gone when it leaves the Run.
Leave ==
  /\ Goto("idle")
  /\ copy' = Ready
  /\ confirmed' = 0
  /\ retries' = 0
  /\ outcome' = "UNCERTAIN"

\* is_eligible.  A Run that is READY_TO_PUBLISH has its article and decision.
EligibleUnlessShown(m) ==
  m.status = "READY_TO_PUBLISH" /\ result = "NONE" /\ ~old
Eligible(m) ==
  m.status = "READY_TO_PUBLISH" /\ result = "NONE" /\ ~intent /\ ~old

OrphanOfReady == intent /\ result = "NONE" /\ manifest.status = "READY_TO_PUBLISH"
Orphan == intent /\ result = "NONE"

\* deliver_review: an intent without a result is closed as UNCERTAIN, whatever
\* the Run's status and age, and nothing is sent.
Open ==
  /\ pc = "idle"
  /\ copy' = manifest
  /\ \/ Eligible(manifest) /\ Goto("commit")
     \/ ~Eligible(manifest) /\ Orphan /\ Goto("result")
  /\ UNCHANGED <<diskVars, old, inbox, confirmed, retries, outcome, pubVars,
                 crashes>>

\* Telegram cannot be asked before the intent is durable.
Commit ==
  /\ pc = "commit"
  /\ intent' = TRUE
  /\ copy' = [copy EXCEPT !.artifacts = @ \cup {"review_intent"}]
  /\ Goto("record_intent")
  /\ UNCHANGED <<manifest, result, old, inbox, confirmed, retries, outcome,
                 pubVars, crashes>>

Save == manifest' = copy

RecordIntent ==
  /\ pc = "record_intent"
  /\ Save
  /\ Goto("send")
  /\ UNCHANGED <<intent, result, old, inbox, copy, confirmed, retries, outcome,
                 pubVars, crashes>>

Ended(s) == outcome' = s /\ Goto("result")
Came(c) == inbox' = [inbox EXCEPT ![c] = @ + 1]
SomeOrNone == IF confirmed > 0 THEN "PARTIAL" ELSE "FAILED"

\* One request for the next chunk and its answer.
Confirmed ==
  /\ Came(confirmed + 1)
  /\ confirmed' = confirmed + 1
  /\ retries' = 0
  /\ IF confirmed + 1 = NChunks
       THEN Ended("DELIVERED")
       ELSE UNCHANGED <<pc, outcome>>

Flooded ==
  /\ UNCHANGED <<inbox, confirmed>>
  /\ IF retries < MaxRetries
       THEN retries' = retries + 1 /\ UNCHANGED <<pc, outcome>>
       ELSE Ended(SomeOrNone) /\ UNCHANGED retries

Refused ==
  /\ Ended(SomeOrNone)
  /\ UNCHANGED <<inbox, confirmed, retries>>

\* No answer, or one that cannot be read: it may have arrived.
Ambiguous ==
  /\ Ended("UNCERTAIN")
  /\ Came(confirmed + 1) \/ UNCHANGED inbox
  /\ UNCHANGED <<confirmed, retries>>

Send ==
  /\ pc = "send"
  /\ Confirmed \/ Flooded \/ Refused \/ Ambiguous
  /\ UNCHANGED <<diskVars, old, copy, pubVars, crashes>>

CommitResult ==
  /\ pc = "result"
  /\ result' = outcome
  /\ copy' = [copy EXCEPT !.artifacts = @ \cup {"review_result"}]
  /\ Goto("record_result")
  /\ UNCHANGED <<manifest, intent, old, inbox, confirmed, retries, outcome,
                 pubVars, crashes>>

\* The manifest goes back as it was loaded before the sending.
RecordResult ==
  /\ pc = "record_result"
  /\ Save
  /\ Leave
  /\ UNCHANGED <<intent, result, old, inbox, pubVars, crashes>>

\* Killed; or an exception _send does not catch, which the tick only logs.
Interrupted ==
  /\ pc # "idle"
  /\ crashes < MaxCrashes
  /\ crashes' = crashes + 1
  /\ Leave
  /\ UNCHANGED <<diskVars, old, inbox, pubVars>>

\* A tick's instant is read when it starts.
GrowOld ==
  /\ pc = "idle"
  /\ ~old
  /\ old' = TRUE
  /\ UNCHANGED <<diskVars, inbox, tickVars, pubVars, crashes>>

(***************************************************************************)
(* An operator publishes the Run (Publisher looks inside)                  *)
(***************************************************************************)
PublishLoad ==
  /\ Publishing
  /\ pub = "idle"
  /\ manifest.status = "READY_TO_PUBLISH"
  /\ pubCopy' = manifest
  /\ pub' = "begin"
  /\ UNCHANGED <<diskVars, old, inbox, tickVars, crashes>>

PublishBegin ==
  /\ pub = "begin"
  /\ pubCopy' = [pubCopy EXCEPT !.status = "PUBLISHING"]
  /\ manifest' = pubCopy'
  /\ pub' = "end"
  /\ UNCHANGED <<intent, result, old, inbox, tickVars, crashes>>

PublishEnd ==
  /\ pub = "end"
  /\ \E s \in {"PUBLISHED", "PUBLISH_BLOCKED"} :
       pubCopy' = [status |-> s,
                   artifacts |-> pubCopy.artifacts \cup {"publish_result"}]
  /\ manifest' = pubCopy'
  /\ pub' = "done"
  /\ UNCHANGED <<intent, result, old, inbox, tickVars, crashes>>

Tick ==
  \/ Open \/ Commit \/ RecordIntent \/ Send \/ CommitResult \/ RecordResult

Next ==
  Tick \/ Interrupted \/ GrowOld \/ PublishLoad \/ PublishBegin \/ PublishEnd

Spec == Init /\ [][Next]_vars

\* The scheduler starts a tick every minute, and each looks at every Run.
FairSpec == Spec /\ WF_vars(Tick)

-----------------------------------------------------------------------------
(***************************************************************************)
(* Properties                                                              *)
(***************************************************************************)

\* A review copy keeps the promise of a publication (PublishOnce): recorded
\* before the first message, its chunks shown in order and each once, one
\* attempt, and a recorded outcome that is true of what the operator sees, also
\* after a crash, after a lost answer and with a publication in between.
Copies == UNION {[chunk : {c}, nth : 1 .. inbox[c]] : c \in 1 .. NChunks}

Promise == INSTANCE PublishOnce WITH
  Message <- [chunk : 1 .. NChunks, nth : 1 .. 2],
  phase <- IF ~intent THEN "approved"
           ELSE IF result = "NONE" THEN "attempting" ELSE "closed",
  delivered <- Copies,
  outcome <- IF result = "DELIVERED" THEN "PUBLISHED" ELSE result

ReviewKeepsPromise == Promise!Spec

\* An attempt whose ending nobody recorded is closed by a later tick: the Run
\* is not left undecided for ever, even once it is published or old.
EveryIntentCloses == intent ~> result # "NONE"
=============================================================================

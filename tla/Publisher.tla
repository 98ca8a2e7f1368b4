------------------------------ MODULE Publisher ------------------------------
(***************************************************************************)
(* Publishing one gate-approved Run: services/publisher.py, called by the  *)
(* orchestrator under the per-Run lock (pipeline-run, pipeline-resume and  *)
(* the automation worker) or by the `publish` command, which takes no lock. *)
(*                                                                         *)
(* Each process is one invocation and makes at most one attempt, so an     *)
(* attempt id is its process.  A step is one access to the Run directory or *)
(* one exchange with Telegram; between two steps any other process may run, *)
(* this one may be killed, and any step may raise instead of completing.   *)
(***************************************************************************)
EXTENDS RunLock, Naturals

CONSTANTS
  Pipelines,     \* orchestrated invocations, mode PUBLISH: they take the lock
  Clis,          \* `publish --run-id` invocations: they do not
  NChunks,       \* messages the approved article is split into
  MaxRetries,    \* MAX_RATE_LIMIT_RETRIES
  Texts,         \* contents claude_final.md may hold on disk
  ApprovedText   \* the content the gate's decision names by digest

ASSUME InvocationsAssumption ==
  /\ Proc = Pipelines \cup Clis
  /\ Pipelines \cap Clis = {}
ASSUME ChunksAssumption == NChunks \in Nat \ {0} /\ MaxRetries \in Nat
ASSUME TextsAssumption == ApprovedText \in Texts

VARIABLES
  manifest,   \* manifest.json: the Run's status
  gate,       \* publish_decision.json: "APPROVED", "BLOCKED", or approved by
              \* a gate version this publisher does not know: "UNSUPPORTED"
  article,    \* claude_final.md on disk
  intent,     \* publish_intent.json: the attempt it names, NoProc if absent
  result,     \* publish_result.json, or NoResult
  posted,     \* messages readers can see: [by, chunk, try, text]
  pc,         \* where each invocation stands
  snap,       \* the manifest status each invocation holds in memory
  text,       \* the article each invocation snapshotted
  idx,        \* the chunk an invocation sends next; idx - 1 are confirmed
  tries,      \* 429 retries of that chunk
  landed,     \* whether the request in flight was accepted by Telegram
  verdict     \* the delivery status (and the attempt) about to be recorded

runVars == <<manifest, gate, article, intent, result, posted>>
localVars == <<pc, snap, text, idx, tries, landed, verdict>>
vars == <<lockVars, runVars, localVars>>

Outcomes == {"PUBLISHED", "FAILED", "PARTIAL", "UNCERTAIN"}
StatusByOutcome ==
  [o \in Outcomes |->
     CASE o = "PUBLISHED" -> "PUBLISHED"
       [] o = "FAILED"    -> "PUBLISH_FAILED"
       [] o = "PARTIAL"   -> "PARTIALLY_PUBLISHED"
       [] o = "UNCERTAIN" -> "PUBLISH_UNCERTAIN"]
AttemptedStatuses ==
  {"PUBLISHED", "PUBLISH_FAILED", "PARTIALLY_PUBLISHED", "PUBLISH_UNCERTAIN"}
Statuses ==
  {"READY_TO_PUBLISH", "PUBLISH_BLOCKED", "PUBLISHING"} \cup AttemptedStatuses

Result == [attempt : Proc, status : Outcomes, confirmed : 0..NChunks]
NoResult == [attempt |-> NoProc, status |-> "NONE", confirmed |-> 0]
Message == [by : Proc, chunk : 1..NChunks, try : 0..MaxRetries, text : Texts]

PcValues ==
  {"idle", "drive", "load", "no_result", "orphan", "approve", "no_intent",
   "commit_intent", "save_publishing", "send", "reply", "result_absent",
   "commit_result", "save_outcome", "event", "save_event", "release", "done"}

\* Between reading the manifest and the last reply there is a chunk to send;
\* from then on there is an outcome to record.
Sending ==
  {"no_result", "orphan", "approve", "no_intent", "commit_intent",
   "save_publishing", "send", "reply"}
Recording == {"result_absent", "commit_result", "save_outcome"}

\* Strong enough to be inductive by itself.
TypeOK ==
  /\ LockTypeOK
  /\ manifest \in Statuses
  /\ gate \in {"APPROVED", "BLOCKED", "UNSUPPORTED"}
  /\ article \in Texts
  /\ intent \in Proc \cup {NoProc}
  /\ result \in Result \cup {NoResult}
  /\ posted \subseteq Message
  /\ pc \in [Proc -> PcValues]
  /\ snap \in [Proc -> Statuses]
  /\ text \in [Proc -> Texts]
  /\ idx \in [Proc -> 1..NChunks + 1]
  /\ tries \in [Proc -> 0..MaxRetries]
  /\ landed \in [Proc -> BOOLEAN]
  /\ verdict \in [Proc -> Result \cup {NoResult}]
  /\ \A p \in Proc : pc[p] \in Sending => idx[p] \in 1..NChunks
  /\ \A p \in Proc : pc[p] \in Recording => verdict[p] \in Result

Init ==
  /\ LockInit
  /\ \/ manifest = "READY_TO_PUBLISH" /\ gate \in {"APPROVED", "UNSUPPORTED"}
     \/ manifest = "PUBLISH_BLOCKED" /\ gate = "BLOCKED"
  /\ article = ApprovedText
  /\ intent = NoProc
  /\ result = NoResult
  /\ posted = {}
  /\ pc = [p \in Proc |-> "idle"]
  /\ snap = [p \in Proc |-> manifest]
  /\ text = [p \in Proc |-> ApprovedText]
  /\ idx = [p \in Proc |-> 1]
  /\ tries = [p \in Proc |-> 0]
  /\ landed = [p \in Proc |-> FALSE]
  /\ verdict = [p \in Proc |-> NoResult]

At(p, l) == p \notin dead /\ pc[p] = l
Goto(p, l) == pc' = [pc EXCEPT ![p] = l]
Confirmed(p) == idx[p] - 1

\* Where an invocation goes when publish_run raises or returns: an orchestrated
\* one still has its `with RunLock` to leave.
Leave(p) == IF p \in Pipelines THEN "release" ELSE "done"

-----------------------------------------------------------------------------
(* The orchestrator around publish_run *)

\* resume_pipeline: take the lock, or RunLockedError.
StartPipeline(p) ==
  /\ p \in Pipelines
  /\ At(p, "idle")
  /\ \/ Acquire(p) /\ Goto(p, "drive")
     \/ Refuse(p) /\ Goto(p, "done")
  /\ UNCHANGED <<runVars, snap, text, idx, tries, landed, verdict>>

\* _cmd_publish calls publish_run straight away.
StartCli(p) ==
  /\ p \in Clis
  /\ At(p, "idle")
  /\ Goto(p, "load")
  /\ UNCHANGED <<lockVars, runVars, snap, text, idx, tries, landed, verdict>>

\* _drive: only READY_TO_PUBLISH has a due stage here; every other status a
\* publishing Run can have ends the invocation (_terminal_result).
Drive(p) ==
  /\ At(p, "drive")
  /\ Goto(p, IF manifest = "READY_TO_PUBLISH" THEN "load" ELSE "release")
  /\ UNCHANGED <<lockVars, runVars, snap, text, idx, tries, landed, verdict>>

\* _record_event re-reads the manifest and appends to what it read ...
LoadForEvent(p) ==
  /\ At(p, "event")
  /\ snap' = [snap EXCEPT ![p] = manifest]
  /\ Goto(p, "save_event")
  /\ UNCHANGED <<lockVars, runVars, text, idx, tries, landed, verdict>>

\* ... and writes all of it back, status included.  PUBLISHED loops to _drive;
\* anything else is _stopped.
SaveEvent(p) ==
  /\ At(p, "save_event")
  /\ manifest' = snap[p]
  /\ Goto(p, IF verdict[p].status = "PUBLISHED" THEN "drive" ELSE "release")
  /\ UNCHANGED <<lockVars, gate, article, intent, result, posted,
                 snap, text, idx, tries, landed, verdict>>

ReleaseLock(p) ==
  /\ At(p, "release")
  /\ Release(p)
  /\ Goto(p, "done")
  /\ UNCHANGED <<runVars, snap, text, idx, tries, landed, verdict>>

-----------------------------------------------------------------------------
(* publish_run: preconditions *)

LoadManifest(p) ==
  /\ At(p, "load")
  /\ snap' = [snap EXCEPT ![p] = manifest]
  /\ idx' = [idx EXCEPT ![p] = 1]
  /\ tries' = [tries EXCEPT ![p] = 0]
  /\ Goto(p, "no_result")
  /\ UNCHANGED <<lockVars, runVars, text, landed, verdict>>

RequireNoResult(p) ==
  /\ At(p, "no_result")
  /\ Goto(p, IF result # NoResult THEN Leave(p) ELSE "orphan")
  /\ UNCHANGED <<lockVars, runVars, snap, text, idx, tries, landed, verdict>>

\* A plausible bug: an interrupted attempt is resumed instead of being closed.
AfterOrphanCheckResumes(p) ==
  IF intent # NoProc THEN "send"
  ELSE IF snap[p] = "READY_TO_PUBLISH" THEN "approve" ELSE Leave(p)

\* _check_orphan_intent, then _require_publishable: an intent without a result
\* closes the Run and sends nothing; without one, the status read when the
\* manifest was loaded decides.
AfterOrphanCheck(p) ==
  IF intent # NoProc THEN "result_absent"
  ELSE IF snap[p] = "READY_TO_PUBLISH" THEN "approve" ELSE Leave(p)

CheckOrphanIntent(p) ==
  /\ At(p, "orphan")
  /\ Goto(p, AfterOrphanCheck(p))
  /\ verdict' = IF intent = NoProc THEN verdict
                ELSE [verdict EXCEPT ![p] =
                 [attempt |-> intent, status |-> "UNCERTAIN", confirmed |-> 0]]
  /\ UNCHANGED <<lockVars, runVars, snap, text, idx, tries, landed>>

\* A plausible bug: the approval is checked, the bytes it names are not.
ApprovalHoldsUnverified == gate = "APPROVED"

\* _load_approved: the bytes on disk are the ones the decision names, and the
\* decision is an approval this publisher understands.
ApprovalHolds == article = ApprovedText /\ gate = "APPROVED"

\* The article is read once; everything afterwards works from the snapshot.
LoadApproved(p) ==
  /\ At(p, "approve")
  /\ Goto(p, IF ApprovalHolds THEN "no_intent" ELSE Leave(p))
  /\ text' = IF ApprovalHolds THEN [text EXCEPT ![p] = article] ELSE text
  /\ UNCHANGED <<lockVars, runVars, snap, idx, tries, landed, verdict>>

-----------------------------------------------------------------------------
(* publish_run: the durable intent *)

\* commit_artifacts, first half: refuse if the target exists.
CheckIntentAbsent(p) ==
  /\ At(p, "no_intent")
  /\ Goto(p, IF intent # NoProc THEN Leave(p) ELSE "commit_intent")
  /\ UNCHANGED <<lockVars, runVars, snap, text, idx, tries, landed, verdict>>

\* commit_artifacts, second half: os.replace, which overwrites what it finds.
CommitIntent(p) ==
  /\ At(p, "commit_intent")
  /\ intent' = p
  /\ Goto(p, "save_publishing")
  /\ UNCHANGED <<lockVars, manifest, gate, article, result, posted,
                 snap, text, idx, tries, landed, verdict>>

SavePublishing(p) ==
  /\ At(p, "save_publishing")
  /\ manifest' = "PUBLISHING"
  /\ snap' = [snap EXCEPT ![p] = "PUBLISHING"]
  /\ Goto(p, "send")
  /\ UNCHANGED <<lockVars, gate, article, intent, result, posted,
                 text, idx, tries, landed, verdict>>

-----------------------------------------------------------------------------
(* _deliver: chunks in order, stopping at the first thing that is not success *)

\* The request leaves.  Telegram accepts and posts it, or it never does; the
\* process does not know which until (unless) it reads a reply.
SendChunk(p) ==
  /\ At(p, "send")
  /\ \E accepted \in BOOLEAN :
       /\ landed' = [landed EXCEPT ![p] = accepted]
       /\ posted' = IF accepted
                      THEN posted \cup {[by |-> p, chunk |-> idx[p],
                                         try |-> tries[p], text |-> text[p]]}
                      ELSE posted
  /\ Goto(p, "reply")
  /\ UNCHANGED <<lockVars, manifest, gate, article, intent, result,
                 snap, text, idx, tries, verdict>>

Conclude(p, outcome, confirmed) ==
  /\ verdict' = [verdict EXCEPT ![p] =
                   [attempt |-> p, status |-> outcome, confirmed |-> confirmed]]
  /\ Goto(p, "result_absent")

\* A plausible bug: any refusal is FAILED, whatever was delivered before it.
RefusalOutcomeFailed(p) == "FAILED"

\* PARTIAL if messages else FAILED.
RefusalOutcome(p) == IF Confirmed(p) > 0 THEN "PARTIAL" ELSE "FAILED"

\* ok: true with a message id: the next chunk, or PUBLISHED after the last.
ReplyConfirmed(p) ==
  /\ At(p, "reply")
  /\ landed[p]
  /\ IF idx[p] = NChunks
       THEN Conclude(p, "PUBLISHED", idx[p])
       ELSE Goto(p, "send") /\ UNCHANGED verdict
  /\ idx' = [idx EXCEPT ![p] = @ + 1]
  /\ tries' = [tries EXCEPT ![p] = 0]
  /\ UNCHANGED <<lockVars, runVars, snap, text, landed>>

RetriesSpent(p) == tries[p] >= MaxRetries

\* A plausible bug: the retry is not counted.
NextTryUncounted(p) == tries[p]
NextTry(p) == tries[p] + 1

\* 429: Telegram says it did not accept the request, so the same chunk may go
\* again, MaxRetries times.
ReplyRateLimited(p) ==
  /\ At(p, "reply")
  /\ ~landed[p]
  /\ IF RetriesSpent(p)
       THEN Conclude(p, RefusalOutcome(p), Confirmed(p)) /\ UNCHANGED tries
       ELSE /\ tries' = [tries EXCEPT ![p] = NextTry(p)]
            /\ Goto(p, "send")
            /\ UNCHANGED verdict
  /\ UNCHANGED <<lockVars, runVars, snap, text, idx, landed>>

\* 400, 401, 403 and other explicit refusals: nothing was delivered.
ReplyRefused(p) ==
  /\ At(p, "reply")
  /\ ~landed[p]
  /\ Conclude(p, RefusalOutcome(p), Confirmed(p))
  /\ UNCHANGED <<lockVars, runVars, snap, text, idx, tries, landed>>

\* A plausible bug: a timed-out request is sent again.
ReplyAmbiguousRetried(p) ==
  /\ At(p, "reply")
  /\ tries[p] < MaxRetries
  /\ tries' = [tries EXCEPT ![p] = @ + 1]
  /\ Goto(p, "send")
  /\ UNCHANGED <<lockVars, runVars, snap, text, idx, landed, verdict>>

\* Timeout, reset, 5xx, unparseable or incomplete reply: the message may be
\* there.  Never retried, whatever happened to it.
ReplyAmbiguous(p) ==
  /\ At(p, "reply")
  /\ Conclude(p, "UNCERTAIN", Confirmed(p))
  /\ UNCHANGED <<lockVars, runVars, snap, text, idx, tries, landed>>

-----------------------------------------------------------------------------
(* _commit_result *)

\* PUBLISHED is refused unless every chunk was confirmed; then the first half
\* of commit_artifacts.
CheckResultAbsent(p) ==
  /\ At(p, "result_absent")
  /\ Goto(p, IF \/ result # NoResult
               \/ /\ verdict[p].status = "PUBLISHED"
                  /\ verdict[p].confirmed # NChunks
             THEN Leave(p) ELSE "commit_result")
  /\ UNCHANGED <<lockVars, runVars, snap, text, idx, tries, landed, verdict>>

\* A plausible bug: the manifest moves although the result was not written.
CommitResultLost(p) ==
  /\ At(p, "commit_result")
  /\ Goto(p, "save_outcome")
  /\ UNCHANGED <<lockVars, runVars, snap, text, idx, tries, landed, verdict>>

CommitResult(p) ==
  /\ At(p, "commit_result")
  /\ result' = verdict[p]
  /\ Goto(p, "save_outcome")
  /\ UNCHANGED <<lockVars, manifest, gate, article, intent, posted,
                 snap, text, idx, tries, landed, verdict>>

\* Only now does the manifest move to match it.
SaveOutcome(p) ==
  /\ At(p, "save_outcome")
  /\ manifest' = StatusByOutcome[verdict[p].status]
  /\ Goto(p, IF p \in Pipelines THEN "event" ELSE "done")
  /\ UNCHANGED <<lockVars, gate, article, intent, result, posted,
                 snap, text, idx, tries, landed, verdict>>

-----------------------------------------------------------------------------
(* Faults and people *)

\* Any step may raise instead of completing (an OSError from the file system, an
\* unexpected provider exception): publish_run catches nothing of the kind.
Raise(p) ==
  /\ p \notin dead
  /\ pc[p] \notin {"idle", "release", "done"}
  /\ Goto(p, Leave(p))
  /\ UNCHANGED <<lockVars, runVars, snap, text, idx, tries, landed, verdict>>

\* The process is killed, or the machine goes down.
Crash(p) ==
  /\ pc[p] \notin {"idle", "done"}
  /\ Kill(p)
  /\ UNCHANGED <<runVars, localVars>>

\* Somebody edits claude_final.md.
EditArticle ==
  /\ article' \in Texts \ {article}
  /\ UNCHANGED <<lockVars, manifest, gate, intent, result, posted, localVars>>

OperatorRemovesLock ==
  /\ HumanRemovesLock
  /\ UNCHANGED <<runVars, localVars>>

-----------------------------------------------------------------------------
PublishRun(p) ==
  \/ LoadManifest(p) \/ RequireNoResult(p) \/ CheckOrphanIntent(p)
  \/ LoadApproved(p) \/ CheckIntentAbsent(p) \/ CommitIntent(p)
  \/ SavePublishing(p)
  \/ SendChunk(p)
  \/ ReplyConfirmed(p) \/ ReplyRateLimited(p) \/ ReplyRefused(p)
  \/ ReplyAmbiguous(p)
  \/ CheckResultAbsent(p) \/ CommitResult(p) \/ SaveOutcome(p)

\* What an invocation does of its own once it has been started.
Proceed(p) ==
  \/ PublishRun(p)
  \/ Drive(p) \/ LoadForEvent(p) \/ SaveEvent(p) \/ ReleaseLock(p)

Next ==
  \/ \E p \in Proc :
       \/ StartPipeline(p) \/ StartCli(p) \/ Proceed(p)
       \/ Raise(p) \/ Crash(p)
  \/ EditArticle
  \/ OperatorRemovesLock

Spec == Init /\ [][Next]_vars

-----------------------------------------------------------------------------
(* What publishing promises *)

ChunksBy(p) == {m.chunk : m \in {x \in posted : x.by = p}}

\* No chunk of the article reaches the channel twice ("Send an approved Run to
\* Telegram, once"): neither two invocations, nor a resume after a kill, nor a
\* retried request can post what is already there.
AtMostOnce == \A m, n \in posted : m.chunk = n.chunk => m = n

\* The manifest claims an outcome only beside a result that records the same
\* outcome, so the claim can be checked.
StatusMatchesResult ==
  manifest \in AttemptedStatuses =>
    result # NoResult /\ manifest = StatusByOutcome[result.status]

\* Whatever is recorded is true of the attempt it names: PUBLISHED means all of
\* its chunks are in the channel, FAILED none, PARTIAL exactly the confirmed
\* ones, and UNCERTAIN at most one beyond them (or an orphan, which counts none).
OutcomeIsTruthful ==
  result # NoResult =>
    LET there == ChunksBy(result.attempt)
        known == 1..result.confirmed
    IN  CASE result.status = "PUBLISHED" -> there = 1..NChunks
          [] result.status = "FAILED"    -> there = {}
          [] result.status = "PARTIAL"   -> there = known /\ known # {}
          [] result.status = "UNCERTAIN" -> known \subseteq there

\* Only the bytes the gate approved go out, even when claude_final.md is edited
\* while they are being sent, and only from an approval the publisher supports.
OnlyApprovedText ==
  posted # {} => gate = "APPROVED" /\ \A m \in posted : m.text = ApprovedText

-----------------------------------------------------------------------------
(* The abstract promise this protocol keeps when every invocation is locked *)

Promise == INSTANCE PublishOnce WITH
  phase     <- IF result # NoResult THEN "closed"
               ELSE IF intent # NoProc THEN "attempting" ELSE "approved",
  delivered <- posted,
  outcome   <- result.status

\* With every invocation locked, the protocol implements PublishOnce: one
\* attempt, its chunks in order and once each, and a truthful recorded outcome.
PublishesOnce == Promise!Spec

\* No publish command has been given so far.
Orchestrated == \A c \in Clis : pc[c] = "idle"

\* While only orchestrated invocations have run, no chunk is posted twice, ...
LockedPostsOnce == Orchestrated => AtMostOnce

\* ... the manifest claims an outcome only beside a result that records it, ...
LockedIsConsistent == Orchestrated => StatusMatchesResult

\* ... and together they keep the promise of PublishOnce, step by step.
LockedKeepsPromise ==
  /\ Promise!Init
  /\ [][Orchestrated' => [Promise!Next]_(Promise!vars)]_vars

-----------------------------------------------------------------------------
(* Why: the inductive invariant of an instance whose invocations all lock *)

Running(p) == p \notin dead /\ pc[p] \notin {"idle", "done"}
RunningAt(p, ls) == p \notin dead /\ pc[p] \in ls
Seen == {m.chunk : m \in posted}

\* Only the owner of the lock file is between its first step and its last.
SoleRunner == \A p \in Proc : Running(p) => lockFile = p

\* The files appear in order, and posts belong to the attempt on record.
FilesInOrder ==
  /\ intent = NoProc => posted = {} /\ result = NoResult
  /\ \A m \in posted : m.by = intent

\* What the owner may still conclude from what it checked earlier.
ChecksStillHold ==
  \A p \in Proc :
    /\ RunningAt(p, {"approve", "no_intent", "commit_intent"}) => intent = NoProc
    /\ RunningAt(p, {"save_publishing", "send", "reply"}) => intent = p
    /\ RunningAt(p, {"orphan", "approve", "no_intent", "commit_intent",
                     "save_publishing", "send", "reply", "result_absent",
                     "commit_result"}) => result = NoResult
    /\ RunningAt(p, {"save_event"}) => snap[p] = manifest

\* Readers see exactly the chunks confirmed so far, plus the one in flight.
Progress ==
  \A p \in Proc :
    /\ RunningAt(p, {"no_result", "orphan", "approve", "no_intent",
                     "commit_intent", "save_publishing"}) => idx[p] = 1
    /\ RunningAt(p, {"save_publishing"}) => posted = {}
    /\ RunningAt(p, {"send"}) => idx[p] <= NChunks /\ Seen = 1..idx[p] - 1
    /\ RunningAt(p, {"reply"}) =>
         /\ idx[p] <= NChunks
         /\ Seen = IF landed[p] THEN 1..idx[p] ELSE 1..idx[p] - 1

\* What is about to be recorded is true, and what was recorded is that.
VerdictHolds ==
  \A p \in Proc :
    /\ RunningAt(p, {"result_absent", "commit_result"}) =>
         /\ intent # NoProc
         /\ verdict[p] \in Result
         /\ verdict[p].status = "PUBLISHED" => Seen = 1..NChunks
         /\ verdict[p].status = "FAILED" => Seen = {}
         /\ verdict[p].status = "PARTIAL" => Seen \notin {{}, 1..NChunks}
    /\ RunningAt(p, {"save_outcome", "event", "save_event"}) =>
         result = verdict[p] /\ result # NoResult

\* The inductive invariant of the orchestrated system.
LockedInv ==
  /\ SoleRunner
  /\ FilesInOrder
  /\ ChecksStillHold
  /\ Progress
  /\ VerdictHolds
  /\ AtMostOnce
  /\ StatusMatchesResult
=============================================================================

---------------------------- MODULE RunPipeline ----------------------------
(***************************************************************************)
(* One Run from NORMALIZED to the publish gate's decision: the loop of      *)
(* services/orchestrator.py under the Run's lock, the stages it drives      *)
(* (writer, digest writer, trade plan, reviewer, finalizer, the two gates)  *)
(* and the stage commands of cli.py, which take no lock.  Every stage loads *)
(* the manifest, checks its inputs, asks its provider, commits its files    *)
(* (storage/run_store.py) and only then saves the manifest it loaded.       *)
(*                                                                         *)
(* A process is one invocation.  The publish stage is module Publisher.     *)
(***************************************************************************)
EXTENDS RunLock, Naturals

CONSTANTS
  Pipelines,   \* orchestrated invocations
  Commands,    \* write-draft, review-draft, finalize and gate-publish
  Editor,      \* a hand that edits a file
  None,        \* no file, no digest
  Kinds        \* the article types Runs are created for

ASSUME PartiesAssumption ==
  /\ Proc = Pipelines \cup Commands
  /\ Pipelines \cap Commands = {}
  /\ Editor \notin Proc
  /\ None \notin Proc \cup {Editor}
ASSUME KindsAssumption ==
  /\ Kinds # {}
  /\ Kinds \subseteq {"ANALYSIS", "NEWS_DIGEST", "TRADE_PLAN"}

VARIABLES
  kind,      \* the Run's article type, fixed when it was created
  disk,      \* the Run's files
  manifest,  \* manifest.json: the status, and the digest of every file
  pc,        \* where each invocation stands
  mode,      \* how far a pipeline may go
  stage,     \* the stage an invocation is in
  ran,       \* whether a pipeline ran the review itself
  mem,       \* the manifest it holds in memory
  doc,       \* what it is about to commit
  todo,      \* the files it still has to rename into place
  next       \* what a pipeline does after recording an event

runVars == <<kind, disk, manifest>>
localVars == <<pc, mode, stage, ran, mem, doc, todo, next>>
vars == <<lockVars, runVars, localVars>>

\* The trade plan's twelve files are "plan" and the page itself, "final".
Files ==
  {"snapshot", "draft", "writer", "review", "plan", "final", "finalizer",
   "decision"}

\* A process writes a file at most once, so its name stands for the digest.
Digest == Proc \cup {Editor}
\* NEEDS_REVISION takes the way of PASS, with one more provider call.
Verdicts == {"NONE", "PASS", "REJECT", "APPROVED", "BLOCKED"}
\* A file: who wrote it, its verdict, and the digests it names.
Doc == [by : Digest, verdict : Verdicts, basis : [Files -> Digest \cup {None}]]
Empty == [f \in Files |-> None]
NoDoc == [by |-> None, verdict |-> "NONE", basis |-> Empty]

Statuses ==
  {"NORMALIZED", "DRAFTED", "REVIEWED", "FINALIZED", "READY_TO_PUBLISH",
   "PUBLISH_BLOCKED"}
Manifest == [status : Statuses, refs : [Files -> Digest \cup {None}]]
Created == [status |-> "NORMALIZED", refs |-> Empty]

Modes == {"GENERATE_ONLY", "READY_FOR_PUBLISH", "PUBLISH"}
Stages == {"WRITE", "REVIEW", "FINALIZE", "GATE"}

\* A standalone write-draft and gate-publish are the analysis ones, whatever
\* the Run is for.
Route(p) == IF p \in Commands THEN "ANALYSIS" ELSE kind

Outputs(p) ==
  CASE stage[p] = "WRITE"    -> IF Route(p) = "TRADE_PLAN" THEN {"plan", "final"}
                                ELSE {"draft", "writer"}
    [] stage[p] = "REVIEW"   -> {"review"}
    [] stage[p] = "FINALIZE" -> {"final", "finalizer"}
    [] OTHER                 -> {"decision"}

PcValues ==
  {"idle", "drive", "verdict", "load", "require", "announce", "snapshot",
   "capture", "provider", "verify", "judge", "sign", "check", "rename", "save",
   "load_event", "save_event", "release", "done"}

TypeOK ==
  /\ LockTypeOK
  /\ kind \in Kinds
  /\ disk \in [Files -> Doc \cup {NoDoc}]
  /\ manifest \in Manifest
  /\ pc \in [Proc -> PcValues]
  /\ mode \in [Proc -> Modes]
  /\ stage \in [Proc -> Stages]
  /\ ran \in [Proc -> BOOLEAN]
  /\ mem \in [Proc -> Manifest]
  /\ doc \in [Proc -> Doc \cup {NoDoc}]
  /\ todo \in [Proc -> SUBSET Files]
  /\ next \in [Proc -> {"drive", "stop", "leave"}]
  /\ \A p \in Proc : pc[p] = "rename" =>
       todo[p] # {} /\ todo[p] \subseteq Outputs(p) /\ doc[p] \in Doc

Init ==
  /\ LockInit
  /\ kind \in Kinds
  /\ disk = [f \in Files |-> NoDoc]
  /\ manifest = Created
  /\ pc = [p \in Proc |-> "idle"]
  /\ mode = [p \in Proc |-> "PUBLISH"]
  /\ stage = [p \in Proc |-> "WRITE"]
  /\ ran = [p \in Proc |-> FALSE]
  /\ mem = [p \in Proc |-> Created]
  /\ doc = [p \in Proc |-> NoDoc]
  /\ todo = [p \in Proc |-> {}]
  /\ next = [p \in Proc |-> "drive"]

\* What an invocation had in memory is gone when it ends.
Forget(p) ==
  /\ mode' = [mode EXCEPT ![p] = "PUBLISH"]
  /\ stage' = [stage EXCEPT ![p] = "WRITE"]
  /\ ran' = [ran EXCEPT ![p] = FALSE]
  /\ mem' = [mem EXCEPT ![p] = Created]
  /\ doc' = [doc EXCEPT ![p] = NoDoc]
  /\ todo' = [todo EXCEPT ![p] = {}]
  /\ next' = [next EXCEPT ![p] = "drive"]

At(p, l) == p \notin dead /\ pc[p] = l
Goto(p, l) == pc' = [pc EXCEPT ![p] = l]
There(f) == disk[f] # NoDoc

-----------------------------------------------------------------------------
(* The orchestrator's loop *)

\* A plausible bug: a lock that is already there is taken for a stale one.
StartPipelineTakesOver(p) ==
  /\ p \in Pipelines
  /\ At(p, "idle")
  /\ lockFile' = p
  /\ held' = held \cup {p}
  /\ Goto(p, "drive")
  /\ UNCHANGED <<dead, runVars, mode, stage, ran, mem, doc, todo, next>>

StartPipeline(p) ==
  /\ p \in Pipelines
  /\ At(p, "idle")
  /\ \/ /\ Acquire(p)
        /\ \E m \in Modes : mode' = [mode EXCEPT ![p] = m]
        /\ Goto(p, "drive")
     \/ Refuse(p) /\ Goto(p, "done") /\ UNCHANGED mode
  /\ UNCHANGED <<runVars, stage, ran, mem, doc, todo, next>>

StartCommand(p) ==
  /\ p \in Commands
  /\ At(p, "idle")
  /\ \E s \in Stages : stage' = [stage EXCEPT ![p] = s]
  /\ Goto(p, "load")
  /\ UNCHANGED <<lockVars, runVars, mode, ran, mem, doc, todo, next>>

\* _DUE_STAGE; a status without one ends the invocation.
DueStage(status) ==
  CASE status = "NORMALIZED" -> "WRITE"
    [] status = "DRAFTED"    -> "REVIEW"
    [] status = "REVIEWED"   -> "FINALIZE"
    [] status = "FINALIZED"  -> "GATE"
    [] OTHER                 -> "NONE"

\* _CEILING, short of the publish stage.
Within(m) ==
  IF m = "GENERATE_ONLY" THEN {"WRITE", "REVIEW", "FINALIZE"} ELSE Stages

\* One turn of _drive.  A Run met at REVIEWED has its verdict read first.
Drive(p) ==
  /\ At(p, "drive")
  /\ LET due == DueStage(manifest.status) IN
       IF due \in Within(mode[p])
         THEN /\ stage' = [stage EXCEPT ![p] = due]
              /\ Goto(p, IF due = "FINALIZE" /\ ~ran[p] THEN "verdict" ELSE "load")
         ELSE UNCHANGED stage /\ Goto(p, "release")
  /\ UNCHANGED <<lockVars, runVars, mode, ran, mem, doc, todo, next>>

\* _record_event: load, append, save.
LoadEvent(p) ==
  /\ At(p, "load_event")
  /\ mem' = [mem EXCEPT ![p] = manifest]
  /\ Goto(p, "save_event")
  /\ UNCHANGED <<lockVars, runVars, mode, stage, ran, doc, todo, next>>

\* ... and on: the next turn, a second event (_stopped), or the end.
SaveEvent(p) ==
  /\ At(p, "save_event")
  /\ manifest' = mem[p]
  /\ ran' = [ran EXCEPT ![p] = @ \/ stage[p] = "REVIEW"]
  /\ next' = [next EXCEPT ![p] = IF @ = "stop" THEN "leave" ELSE @]
  /\ Goto(p, CASE next[p] = "drive" -> "drive"
               [] next[p] = "stop"  -> "load_event"
               [] OTHER             -> "release")
  /\ mem' = [mem EXCEPT ![p] = Created]
  /\ doc' = [doc EXCEPT ![p] = NoDoc]
  /\ UNCHANGED <<lockVars, kind, disk, mode, stage, todo>>

\* The end of an invocation; a pipeline frees the Run.
Finish(p) ==
  /\ At(p, "release")
  /\ Release(p)
  /\ Goto(p, "done")
  /\ Forget(p)
  /\ UNCHANGED runVars

-----------------------------------------------------------------------------
(* What a stage requires *)

\* A plausible bug: a file is used as it is found.
VerifiedUnchecked(m, f) == There(f)

\* verify_artifact: on disk, and with the digest the manifest records.
Verified(m, f) == There(f) /\ m.refs[f] = disk[f].by

\* load_verified_inputs of the reviewer and of the finalizer: every file is
\* the recorded one, and what one says of another is so.
WriterAgrees(m) ==
  /\ Verified(m, "draft") /\ Verified(m, "writer")
  /\ disk["writer"].basis["draft"] = disk["draft"].by
ReviewAgrees(m) ==
  /\ WriterAgrees(m) /\ Verified(m, "review")
  /\ \A f \in {"draft", "writer"} : disk["review"].basis[f] = disk[f].by

InputsGood(p) ==
  CASE stage[p] = "REVIEW"   -> /\ WriterAgrees(mem[p])
                                /\ \/ kind # "NEWS_DIGEST"
                                   \/ Verified(mem[p], "snapshot")
    [] stage[p] = "FINALIZE" -> /\ ReviewAgrees(mem[p])
                                /\ disk["review"].verdict # "REJECT"
    [] OTHER                 -> TRUE

\* _check_resumed_verdict.
CheckVerdict(p) ==
  /\ At(p, "verdict")
  /\ IF ReviewAgrees(manifest) /\ disk["review"].verdict # "REJECT"
       THEN Goto(p, "load") /\ UNCHANGED next
       ELSE Goto(p, "load_event") /\ next' = [next EXCEPT ![p] = "leave"]
  /\ UNCHANGED <<lockVars, runVars, mode, stage, ran, mem, doc, todo>>

Load(p) ==
  /\ At(p, "load")
  /\ mem' = [mem EXCEPT ![p] = manifest]
  /\ Goto(p, "require")
  /\ UNCHANGED <<lockVars, runVars, mode, stage, ran, doc, todo, next>>

\* A plausible bug: a failed stage is tried again at once.
AfterFailureRetries == "drive"

AfterFailure == "leave"

\* _record_failure saves the manifest as it was loaded; the gates just raise.
Fail(p) ==
  /\ Goto(p, IF stage[p] = "GATE" THEN "release" ELSE "save")
  /\ next' = [next EXCEPT ![p] = AfterFailure]

\* The digests the new files will name: the inputs as read, and each other.
Names(p) ==
  [f \in Files |->
     IF f \in Outputs(p) THEN p
     ELSE IF (f \in {"draft", "writer"} /\ stage[p] \in {"REVIEW", "FINALIZE"})
             \/ (f = "review" /\ stage[p] = "FINALIZE")
       THEN disk[f].by
     ELSE None]

\* A digest has its facts on disk before it asks for words about them; a plan
\* announces itself.
FirstStep(p) ==
  IF stage[p] = "GATE" THEN "verify"
  ELSE IF stage[p] # "WRITE" THEN "provider"
  ELSE IF Route(p) = "NEWS_DIGEST" THEN "snapshot"
  ELSE IF Route(p) = "TRADE_PLAN" THEN "announce"
  ELSE "provider"

\* _require_ready, _require_reviewable, _require_finalizable, _require_gateable:
\* nothing committed yet, the right status, the inputs as recorded.
Require(p) ==
  /\ At(p, "require")
  /\ IF /\ \A f \in Outputs(p) : ~There(f)
        /\ DueStage(mem[p].status) = stage[p]
        /\ InputsGood(p)
       THEN /\ doc' = [doc EXCEPT ![p] =
                         [by |-> p, basis |-> Names(p), verdict |->
                            IF stage[p] = "FINALIZE" THEN disk["review"].verdict
                            ELSE "NONE"]]
            /\ Goto(p, FirstStep(p))
            /\ UNCHANGED next
       ELSE Fail(p) /\ UNCHANGED doc
  /\ UNCHANGED <<lockVars, runVars, mode, stage, ran, mem, todo>>

-----------------------------------------------------------------------------
(* What it asks for *)

\* write_trade_plan saves its start event before it observes the market.
Announce(p) ==
  /\ At(p, "announce")
  /\ manifest' = mem[p]
  /\ Goto(p, "provider")
  /\ UNCHANGED <<lockVars, kind, disk, mode, stage, ran, mem, doc, todo, next>>

\* A plausible bug: the snapshot is captured afresh by every attempt.
EnsureSnapshotAnew(p) ==
  /\ At(p, "snapshot")
  /\ Goto(p, "capture")
  /\ UNCHANGED <<lockVars, runVars, mode, stage, ran, mem, doc, todo, next>>

\* ensure_digest_snapshot: an existing one is verified and used.
EnsureSnapshot(p) ==
  /\ At(p, "snapshot")
  /\ IF ~There("snapshot") THEN Goto(p, "capture") /\ UNCHANGED next
     ELSE IF Verified(mem[p], "snapshot") THEN Goto(p, "provider") /\ UNCHANGED next
     ELSE Fail(p)
  /\ UNCHANGED <<lockVars, runVars, mode, stage, ran, mem, doc, todo>>

\* write_digest_snapshot commits the file; its digest stays in memory until the
\* stage saves the manifest.
Capture(p) ==
  /\ At(p, "capture")
  /\ \/ /\ disk' = [disk EXCEPT !["snapshot"] =
                      [by |-> p, verdict |-> "NONE", basis |-> Empty]]
        /\ mem' = [mem EXCEPT ![p].refs["snapshot"] = p]
        /\ Goto(p, "provider")
        /\ UNCHANGED next
     \/ Fail(p) /\ UNCHANGED <<disk, mem>>
  /\ UNCHANGED <<lockVars, kind, manifest, mode, stage, ran, doc, todo>>

\* One provider call, checked: an answer, or a recorded failure.  (A finalizer
\* that passes the draft through calls nobody.)
CallProvider(p) ==
  /\ At(p, "provider")
  /\ \/ /\ \E v \in IF stage[p] = "REVIEW" THEN {"PASS", "REJECT"}
                    ELSE {doc[p].verdict} :
             doc' = [doc EXCEPT ![p].verdict = v]
        /\ Goto(p, "check")
        /\ UNCHANGED next
     \/ Fail(p) /\ UNCHANGED doc
  /\ UNCHANGED <<lockVars, runVars, mode, stage, ran, mem, todo>>

\* The files a gate will not do without.
Evidence(p) ==
  IF Route(p) = "TRADE_PLAN" THEN {"plan", "final"}
  ELSE {"draft", "writer", "review", "final", "finalizer"}

\* What a decision names is what the gate checked; but the gate of a plan reads
\* the page once more.
AfterJudging(p) == IF Route(p) = "TRADE_PLAN" THEN "sign" ELSE "check"

\* _check_integrity, first half: the digests.
VerifyEvidence(p) ==
  /\ At(p, "verify")
  /\ IF \A f \in Evidence(p) : Verified(mem[p], f)
       THEN /\ doc' = [doc EXCEPT ![p].basis =
                         [f \in Files |->
                            IF f \in Evidence(p) THEN disk[f].by ELSE None]]
            /\ Goto(p, "judge")
       ELSE /\ doc' = [doc EXCEPT ![p].verdict = "BLOCKED"]
            /\ Goto(p, AfterJudging(p))
  /\ UNCHANGED <<lockVars, runVars, mode, stage, ran, mem, todo, next>>

\* Second half: the files are read once more, and what they say of each other
\* is held against the digests just verified.  (_check_render_match: the page is
\* the text the plan says was rendered.)
ChainAgrees(p) ==
  LET named == doc[p].basis IN
  IF Route(p) = "TRADE_PLAN" THEN disk["plan"].basis["final"] = disk["final"].by
  ELSE
    /\ disk["writer"].basis["draft"] = named["draft"]
    /\ \A f \in {"draft", "writer"} : disk["review"].basis[f] = named[f]
    /\ \A f \in {"draft", "writer", "review", "final"} :
         disk["finalizer"].basis[f] = named[f]
    /\ disk["review"].verdict # "REJECT"
    /\ disk["finalizer"].verdict = disk["review"].verdict

\* The other checks read the text, and may object.
Judge(p) ==
  /\ At(p, "judge")
  /\ \E v \in {"APPROVED", "BLOCKED"} :
       /\ v = "APPROVED" => ChainAgrees(p)
       /\ doc' = [doc EXCEPT ![p].verdict = v]
  /\ Goto(p, AfterJudging(p))
  /\ UNCHANGED <<lockVars, runVars, mode, stage, ran, mem, todo, next>>

\* gate_trade_plan: the decision names the page as it is read now, if there is
\* one, and no other file.
Sign(p) ==
  /\ At(p, "sign")
  /\ doc' = [doc EXCEPT ![p].basis = [Empty EXCEPT !["final"] = disk["final"].by]]
  /\ Goto(p, "check")
  /\ UNCHANGED <<lockVars, runVars, mode, stage, ran, mem, todo, next>>

-----------------------------------------------------------------------------
(* commit_artifacts, then save_manifest *)

CheckAbsent(p) ==
  /\ At(p, "check")
  /\ IF \E f \in Outputs(p) : There(f)
       THEN Goto(p, "release") /\ UNCHANGED todo
       ELSE Goto(p, "rename") /\ todo' = [todo EXCEPT ![p] = Outputs(p)]
  /\ UNCHANGED <<lockVars, runVars, mode, stage, ran, mem, doc, next>>

NewStatus(p) ==
  CASE stage[p] = "WRITE"    -> IF Route(p) = "TRADE_PLAN" THEN "FINALIZED"
                                ELSE "DRAFTED"
    [] stage[p] = "REVIEW"   -> "REVIEWED"
    [] stage[p] = "FINALIZE" -> "FINALIZED"
    [] OTHER                 -> IF doc[p].verdict = "APPROVED" THEN "READY_TO_PUBLISH"
                                ELSE "PUBLISH_BLOCKED"

\* A plausible bug: the first rename counts as the whole commit.
LastRenameAny(p, f) == TRUE

LastRename(p, f) == todo[p] = {f}

\* os.replace, file by file; after the last one the manifest in memory names
\* them all.
Rename(p) ==
  /\ At(p, "rename")
  /\ \E f \in todo[p] :
       /\ disk' = [disk EXCEPT ![f] = doc[p]]
       /\ todo' = [todo EXCEPT ![p] = @ \ {f}]
       /\ IF LastRename(p, f)
            THEN /\ mem' = [mem EXCEPT ![p] =
                      [status |-> NewStatus(p),
                       refs |-> [g \in Files |->
                          IF g \in Outputs(p) THEN p ELSE mem[p].refs[g]]]]
                 /\ next' = [next EXCEPT ![p] =
                      IF doc[p].verdict \in {"REJECT", "BLOCKED"} THEN "stop"
                      ELSE "drive"]
                 /\ Goto(p, "save")
            ELSE UNCHANGED <<mem, next, pc>>
  /\ UNCHANGED <<lockVars, kind, manifest, mode, stage, ran, doc>>

Save(p) ==
  /\ At(p, "save")
  /\ manifest' = mem[p]
  /\ Goto(p, IF p \in Pipelines THEN "load_event" ELSE "release")
  /\ UNCHANGED <<lockVars, kind, disk, mode, stage, ran, mem, doc, todo, next>>

-----------------------------------------------------------------------------
(* Faults and people *)

\* Any step may raise.  Between two renames commit_artifacts unlinks what it
\* renamed.
Raise(p) ==
  /\ p \notin dead
  /\ pc[p] \notin {"idle", "release", "done"}
  /\ disk' = [f \in Files |->
                IF pc[p] = "rename" /\ f \in Outputs(p) \ todo[p] THEN NoDoc
                ELSE disk[f]]
  /\ Goto(p, "release")
  /\ UNCHANGED <<lockVars, kind, manifest, mode, stage, ran, mem, doc, todo, next>>

Crash(p) ==
  /\ pc[p] \notin {"idle", "done"}
  /\ Kill(p)
  /\ Goto(p, "done")
  /\ Forget(p)
  /\ UNCHANGED runVars

OperatorRemovesLock ==
  /\ HumanRemovesLock
  /\ UNCHANGED <<runVars, localVars>>

\* A hand rewrites a file, with a kinder verdict or the same.  Bounded: one file.
Edit ==
  /\ Commands # {}
  /\ \A f \in Files : disk[f].by # Editor
  /\ \E f \in Files : \E v \in {disk[f].verdict, "PASS", "APPROVED"} :
       /\ There(f)
       /\ disk' = [disk EXCEPT ![f].by = Editor, ![f].verdict = v]
  /\ UNCHANGED <<lockVars, kind, manifest, localVars>>

\* Steps that invocation p takes by itself once started.
Step(p) ==
  \/ Drive(p) \/ CheckVerdict(p) \/ Load(p) \/ Require(p) \/ Announce(p)
  \/ EnsureSnapshot(p) \/ Capture(p) \/ CallProvider(p)
  \/ VerifyEvidence(p) \/ Judge(p) \/ Sign(p)
  \/ CheckAbsent(p) \/ Rename(p) \/ Save(p)
  \/ LoadEvent(p) \/ SaveEvent(p) \/ Finish(p)

Next ==
  \/ \E p \in Proc :
       StartPipeline(p) \/ StartCommand(p) \/ Step(p) \/ Raise(p) \/ Crash(p)
  \/ OperatorRemovesLock
  \/ Edit

Spec == Init /\ [][Next]_vars

-----------------------------------------------------------------------------
(* What holds as long as every invocation is orchestrated *)

\* No command started, nothing edited.
Orchestrated ==
  /\ \A c \in Commands : pc[c] = "idle"
  /\ \A f \in Files : disk[f].by # Editor

Rank(status) ==
  CASE status = "NORMALIZED" -> 0
    [] status = "DRAFTED"    -> 1
    [] status = "REVIEWED"   -> 2
    [] status = "FINALIZED"  -> 3
    [] OTHER                 -> 4

\* What a Run records is never undone, however invocations fail, die and follow
\* each other.  "A Run's status moves CREATED -> NORMALIZED -> DRAFTED -> ...":
\* never back, and a decision once saved is the decision.  A file the manifest
\* records is not replaced or removed, by a retry or by the roll-back of a commit
\* that failed.
RecordOnlyGrows ==
  [][Orchestrated' =>
       /\ Rank(manifest.status) <= Rank(manifest'.status)
       /\ Rank(manifest.status) = 4 => manifest'.status = manifest.status
       /\ \A f \in Files : manifest.refs[f] # None => disk'[f] = disk[f]]_vars

Completed(status) ==
  (IF Rank(status) >= 1 /\ kind # "TRADE_PLAN" THEN {"draft", "writer"} ELSE {})
  \cup (IF Rank(status) >= 2 /\ kind # "TRADE_PLAN" THEN {"review"} ELSE {})
  \cup (IF Rank(status) >= 3 THEN {"final"} ELSE {})
  \cup (IF Rank(status) = 4 THEN {"decision"} ELSE {})

\* "A manifest that says a stage completed always describes files that exist":
\* the files of every stage passed are recorded, and what is recorded is there.
ManifestIsTrue ==
  Orchestrated =>
    /\ \A f \in Files : manifest.refs[f] # None => Verified(manifest, f)
    /\ \A f \in Completed(manifest.status) : manifest.refs[f] # None

\* What the docs promise of a resume: the stage the status says is due can run
\* ("Retrying after a failure is allowed, because no artifacts exist"; "a
\* resumed Run loads" its snapshot), once nobody is at work.
DueStageCanRun ==
  (\A p \in Proc : pc[p] \in {"idle", "done"}) =>
    CASE manifest.status = "NORMALIZED" ->
           /\ \A f \in {"draft", "writer", "plan", "final"} : ~There(f)
           /\ There("snapshot") => Verified(manifest, "snapshot")
      [] manifest.status = "DRAFTED"   -> ~There("review")
      [] manifest.status = "REVIEWED"  -> ~There("final") /\ ~There("finalizer")
      [] manifest.status = "FINALIZED" -> ~There("decision")
      [] OTHER -> TRUE

-----------------------------------------------------------------------------
(* What holds with commands and hands at work beside the pipeline *)

\* If the files an approval of an article names are the ones on disk, then nobody
\* edited them, the review judged exactly that draft and did not reject it, and
\* the final article was made from that draft and that review.  The approval of a
\* plan names the page alone, as read after the checks: if an orchestrated stage
\* wrote that page, it is the one the plan was rendered to (a page a hand or a
\* command put there meanwhile is approved unread).
ApprovedIsReviewed ==
  LET named == disk["decision"].basis
      chain == {f \in Files : named[f] # None} \ {"decision"}
  IN  /\ disk["decision"].verdict = "APPROVED"
      /\ disk["decision"].by # Editor
      /\ \A f \in chain : disk[f].by = named[f]
      => \/ /\ chain \subseteq {"final"}
            /\ named["final"] \in Pipelines =>
                 disk["plan"].by \in {named["final"], Editor}
         \/ /\ chain = {"draft", "writer", "review", "final", "finalizer"}
            /\ Editor \notin {named[f] : f \in chain}
            /\ named["draft"] = named["writer"]
            /\ named["final"] = named["finalizer"]
            /\ disk["review"].verdict = "PASS"
            /\ \A f \in {"draft", "writer"} :
                 /\ disk["review"].basis[f] = named[f]
                 /\ disk["finalizer"].basis[f] = named[f]
            /\ disk["finalizer"].basis["review"] = named["review"]
=============================================================================

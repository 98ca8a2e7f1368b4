-------------------------- MODULE RunPipelineProofs --------------------------
(***************************************************************************)
(* Theorems of RunPipeline, for any invocations, commands and article      *)
(* types: the types of its variables, what its record promises as long as  *)
(* every invocation is orchestrated (ManifestIsTrue, RecordOnlyGrows), and *)
(* what an approval says whoever is at work (ApprovedIsReviewed).          *)
(*                                                                         *)
(* The record rests on one inductive invariant.  The lock lets one pipeline*)
(* work at a time (LockInv), so what it holds in memory only adds to what  *)
(* the manifest says (MemInv), and both are true of the disk.  A command,  *)
(* once it has started, never counts as idle again: from then on nothing is*)
(* claimed.  An edited file stays where it is, under another digest.       *)
(*                                                                         *)
(* For the approval of an article no lock is used, and the digests of two  *)
(* readings may be of different files. A manifest records the files of a   *)
(* stage together (Shapes), so the digests a gate verifies belong together *)
(* (Named). The one file that is never rolled back is the review: it is a  *)
(* commit of its own. Once the review an approval names is on disk its     *)
(* writer has nothing left to write (Spoken), and if another one replaces  *)
(* it, it does not come back. A final article may come back, written anew  *)
(* by the same pipeline; but then it was made from the review that is on   *)
(* disk (Finalizing). What the gate read in between is therefore what the  *)
(* digests say (Fitting).                                                  *)
(*                                                                         *)
(* The approval of a plan names only the page, as read after the checks.   *)
(* Commands write no plan, so the lock does help: while a gate is at work  *)
(* nobody puts a plan in place, and a plan once there is never replaced    *)
(* (Page, PlanningInv).                                                    *)
(***************************************************************************)
EXTENDS RunPipeline, TLAPS

\* A stage whose requirements were met has something to commit.
Prepared ==
  {"announce", "snapshot", "capture", "provider", "verify", "judge", "sign", "check",
   "rename"}
\* Where the manifest in memory is one that was loaded or is about to be saved.
Holding == Prepared \cup {"require", "save", "save_event"}

Resting == {"idle", "done"}

CommandsIdle == \A c \in Commands : pc[c] = "idle"

DocInv ==
  \A p \in Proc : pc[p] \in Prepared =>
    doc[p] \in Doc /\ doc[p].by = p /\ DueStage(mem[p].status) = stage[p]

LockInv ==
  \A p \in Pipelines : pc[p] \notin Resting => lockFile = p /\ p \notin dead

\* What a manifest records is on disk, as recorded or edited since.
TrueOfDisk(m) ==
  \A f \in Files : m.refs[f] # None => disk[f].by \in {m.refs[f], Editor}

\* Every stage it says was passed has its files recorded.
Whole(m) == \A f \in Completed(m.status) : m.refs[f] # None

\* It says what the other says, or more.
Continues(m, n) ==
  /\ Rank(n.status) <= Rank(m.status)
  /\ Rank(n.status) = 4 => m.status = n.status
  /\ \A f \in Files : n.refs[f] # None => m.refs[f] = n.refs[f]

MemInv(p) ==
  /\ pc[p] \in Holding =>
       TrueOfDisk(mem[p]) /\ Whole(mem[p]) /\ Continues(mem[p], manifest)
  /\ pc[p] = "capture" => ~There("snapshot")
  /\ pc[p] = "rename" => \A f \in Outputs(p) :
       /\ mem[p].refs[f] = None
       /\ f \in todo[p] => ~There(f)
       /\ f \notin todo[p] => disk[f].by \in {p, Editor}

RecordInv ==
  CommandsIdle =>
    /\ LockInv
    /\ TrueOfDisk(manifest) /\ Whole(manifest)
    /\ \A p \in Pipelines : MemInv(p)

Inv == TypeOK /\ DocInv /\ RecordInv

\* What a step does to the record.
Grows ==
  /\ Continues(manifest', manifest)
  /\ \A f \in Files : manifest.refs[f] # None => disk'[f] = disk[f]

-----------------------------------------------------------------------------
(* Types *)

\* Where p goes next; nobody else moves.
LEMMA GotoType ==
  ASSUME NEW p \in Proc, NEW l \in PcValues, pc \in [Proc -> PcValues], Goto(p, l)
  PROVE  /\ pc' \in [Proc -> PcValues]
         /\ pc'[p] = l
         /\ \A q \in Proc \ {p} : pc'[q] = pc[q]
BY DEF Goto

\* The labels are strings, told apart by their text.
LEMMA OutputsType ==
  ASSUME NEW p \in Proc
  PROVE  Outputs(p) \subseteq Files /\ Outputs(p) # {} /\ "snapshot" \notin Outputs(p)
BY DEF Outputs, Files

LEMMA DocEmpty == Empty \in [Files -> Digest \cup {None}]
BY DEF Empty

\* An absent file has no author, and an author is somebody.
LEMMA AbsentFile ==
  ASSUME TypeOK, NEW f \in Files
  PROVE  /\ There(f) <=> disk[f].by # None
         /\ There(f) <=> disk[f] \in Doc
         /\ disk[f].by \in Digest \cup {None}
         /\ disk[f].verdict \in Verdicts
BY PartiesAssumption DEF TypeOK, There, Doc, NoDoc, Digest, Verdicts

\* What the stage an invocation is in takes a Run from.
LEMMA DueStageType ==
  ASSUME NEW m \in Modes, NEW status \in Statuses, DueStage(status) \in Within(m)
  PROVE  DueStage(status) \in Stages
BY DEF Within, Stages

\* Forgetting leaves well-typed memory.
LEMMA ForgetType ==
  ASSUME TypeOK, NEW p \in Proc, Forget(p)
  PROVE  /\ mode' \in [Proc -> Modes] /\ stage' \in [Proc -> Stages]
         /\ ran' \in [Proc -> BOOLEAN] /\ mem' \in [Proc -> Manifest]
         /\ doc' \in [Proc -> Doc \cup {NoDoc}]
         /\ todo' \in [Proc -> SUBSET Files]
         /\ next' \in [Proc -> {"drive", "stop", "leave"}]
         /\ \A q \in Proc \ {p} :
              stage'[q] = stage[q] /\ mem'[q] = mem[q] /\ doc'[q] = doc[q]
              /\ todo'[q] = todo[q]
<1>1. Created \in Manifest
  BY DocEmpty DEF Created, Manifest, Statuses
<1>2. "PUBLISH" \in Modes /\ "WRITE" \in Stages
  BY DEF Modes, Stages
<1> QED
  BY <1>1, <1>2 DEF TypeOK, Forget

\* A failure goes to the end of the invocation or to the saving of its event.
LEMMA FailType ==
  ASSUME TypeOK, NEW p \in Proc, Fail(p)
  PROVE  /\ pc' \in [Proc -> PcValues]
         /\ pc'[p] \in {"release", "save"}
         /\ \A q \in Proc \ {p} : pc'[q] = pc[q]
         /\ next' \in [Proc -> {"drive", "stop", "leave"}]
<1>1. pc \in [Proc -> PcValues] /\ next \in [Proc -> {"drive", "stop", "leave"}]
  BY DEF TypeOK
<1>2. Goto(p, "release") \/ Goto(p, "save")
  BY DEF Fail
<1>3. next' \in [Proc -> {"drive", "stop", "leave"}]
  BY <1>1 DEF Fail, AfterFailure
<1>4. {"release", "save"} \subseteq PcValues
  BY DEF PcValues
<1>5. /\ pc' \in [Proc -> PcValues]
      /\ pc'[p] \in {"release", "save"}
      /\ \A q \in Proc \ {p} : pc'[q] = pc[q]
  BY <1>1, <1>2, <1>4 DEF Goto
<1> QED
  BY <1>3, <1>5

LEMMA OutputsStay ==
  ASSUME NEW q, stage'[q] = stage[q], kind' = kind
  PROVE  Outputs(q)' = Outputs(q)
BY DEF Outputs, Route

Typed == TypeOK /\ DocInv

\* What p has to show after a step of its own.
MyTypes(p) ==
  /\ pc[p] = "rename" =>
       todo[p] # {} /\ todo[p] \subseteq Outputs(p) /\ doc[p] \in Doc
  /\ pc[p] \in Prepared =>
       doc[p] \in Doc /\ doc[p].by = p /\ DueStage(mem[p].status) = stage[p]

\* A step of p leaves everybody else's memory alone.
OthersStay(p) ==
  \A q \in Proc \ {p} :
    /\ pc'[q] = pc[q] /\ stage'[q] = stage[q] /\ doc'[q] = doc[q]
    /\ mem'[q] = mem[q] /\ todo'[q] = todo[q]

SimpleTypes ==
  /\ LockTypeOK
  /\ disk \in [Files -> Doc \cup {NoDoc}]
  /\ manifest \in Manifest
  /\ pc \in [Proc -> PcValues]
  /\ mode \in [Proc -> Modes]
  /\ stage \in [Proc -> Stages]
  /\ ran \in [Proc -> BOOLEAN]
  /\ mem \in [Proc -> Manifest]
  /\ doc \in [Proc -> Doc \cup {NoDoc}]
  /\ todo \in [Proc -> SUBSET Files]
  /\ next \in [Proc -> {"drive", "stop", "leave"}]

LEMMA TypesOfOne ==
  ASSUME Typed, NEW p \in Proc, kind' = kind, SimpleTypes', OthersStay(p),
         MyTypes(p)'
  PROVE  Typed'
<1>1. ASSUME NEW q \in Proc
      PROVE  MyTypes(q)'
  <2>1. CASE q = p
    BY <2>1
  <2>2. CASE q # p
    <3>1. MyTypes(q)
      BY DEF Typed, TypeOK, DocInv, MyTypes
    <3>2. /\ pc'[q] = pc[q] /\ stage'[q] = stage[q] /\ doc'[q] = doc[q]
          /\ mem'[q] = mem[q] /\ todo'[q] = todo[q]
      BY <2>2 DEF OthersStay
    <3>3. Outputs(q)' = Outputs(q)
      BY <3>2, OutputsStay
    <3>4. DueStage(mem[q].status)' = DueStage(mem[q].status)
      BY <3>2 DEF DueStage
    <3> QED
      BY <3>1, <3>2, <3>3, <3>4 DEF MyTypes
  <2> QED
    BY <2>1, <2>2
<1>2. DocInv'
  BY <1>1 DEF DocInv, MyTypes
<1>3. \A q \in Proc : (pc[q] = "rename" =>
         todo[q] # {} /\ todo[q] \subseteq Outputs(q) /\ doc[q] \in Doc)'
  BY <1>1 DEF MyTypes
<1>4. kind' \in Kinds
  BY DEF Typed, TypeOK
<1> QED
  BY <1>2, <1>3, <1>4 DEF Typed, TypeOK, SimpleTypes

LEMMA SimpleOfTyped == TypeOK => SimpleTypes
BY DEF TypeOK, SimpleTypes

LEMMA MineOfTyped ==
  ASSUME Typed, NEW p \in Proc
  PROVE  MyTypes(p)
BY DEF Typed, TypeOK, DocInv, MyTypes

\* The steps that only read the record, or forget.
LEMMA ReadersTyped ==
  ASSUME Typed, NEW p \in Proc,
         \/ StartPipeline(p) \/ StartCommand(p) \/ Drive(p) \/ LoadEvent(p)
         \/ CheckVerdict(p) \/ Load(p) \/ Finish(p) \/ Crash(p)
  PROVE  Typed'
<1> USE SimpleOfTyped DEF Typed
<1>1. CASE StartPipeline(p)
  <2>1. SimpleTypes'
    BY <1>1 DEF StartPipeline, Acquire, Refuse, lockVars, LockTypeOK, runVars, Goto,
       SimpleTypes, PcValues
  <2>2. pc'[p] \in {"drive", "done"} /\ OthersStay(p)
    BY <1>1 DEF StartPipeline, Goto, SimpleTypes, OthersStay
  <2> QED
    BY <1>1, <2>1, <2>2, TypesOfOne DEF StartPipeline, runVars, MyTypes, Prepared
<1>2. CASE StartCommand(p)
  <2>1. SimpleTypes'
    BY <1>2 DEF StartCommand, lockVars, LockTypeOK, runVars, Goto, SimpleTypes, PcValues
  <2>2. pc'[p] = "load" /\ OthersStay(p)
    BY <1>2 DEF StartCommand, Goto, SimpleTypes, OthersStay
  <2> QED
    BY <1>2, <2>1, <2>2, TypesOfOne DEF StartCommand, runVars, MyTypes, Prepared
<1>3. CASE Drive(p)
  <2> DEFINE due == DueStage(manifest.status)
  <2>1. stage' \in [Proc -> Stages]
    <3>1. due \in Within(mode[p]) => due \in Stages
      BY DueStageType DEF SimpleTypes, Manifest
    <3> QED
      BY <1>3, <3>1 DEF Drive, SimpleTypes
  <2>2. pc' \in [Proc -> PcValues] /\ pc'[p] \in {"verdict", "load", "release"}
    BY <1>3 DEF Drive, Goto, SimpleTypes, PcValues
  <2>3. OthersStay(p)
    BY <1>3 DEF Drive, Goto, SimpleTypes, OthersStay
  <2>4. SimpleTypes'
    BY <1>3, <2>1, <2>2 DEF Drive, lockVars, LockTypeOK, runVars, SimpleTypes
  <2> QED
    BY <1>3, <2>2, <2>3, <2>4, TypesOfOne DEF Drive, runVars, MyTypes, Prepared
<1>4. CASE LoadEvent(p)
  <2>1. SimpleTypes'
    BY <1>4 DEF LoadEvent, lockVars, LockTypeOK, runVars, Goto, SimpleTypes, PcValues
  <2>2. pc'[p] = "save_event" /\ OthersStay(p)
    BY <1>4 DEF LoadEvent, Goto, SimpleTypes, OthersStay
  <2> QED
    BY <1>4, <2>1, <2>2, TypesOfOne DEF LoadEvent, runVars, MyTypes, Prepared
<1>5. CASE CheckVerdict(p)
  <2>1. pc' \in [Proc -> PcValues] /\ pc'[p] \in {"load", "load_event"}
    BY <1>5 DEF CheckVerdict, Goto, SimpleTypes, PcValues
  <2>2. next' \in [Proc -> {"drive", "stop", "leave"}]
    BY <1>5 DEF CheckVerdict, SimpleTypes
  <2>3. SimpleTypes'
    BY <1>5, <2>1, <2>2 DEF CheckVerdict, lockVars, LockTypeOK, runVars, SimpleTypes
  <2>4. OthersStay(p)
    BY <1>5 DEF CheckVerdict, Goto, SimpleTypes, OthersStay
  <2> QED
    BY <1>5, <2>1, <2>3, <2>4, TypesOfOne DEF CheckVerdict, runVars, MyTypes, Prepared
<1>6. CASE Load(p)
  <2>1. SimpleTypes'
    BY <1>6 DEF Load, lockVars, LockTypeOK, runVars, Goto, SimpleTypes, PcValues
  <2>2. pc'[p] = "require" /\ OthersStay(p)
    BY <1>6 DEF Load, Goto, SimpleTypes, OthersStay
  <2> QED
    BY <1>6, <2>1, <2>2, TypesOfOne DEF Load, runVars, MyTypes, Prepared
<1>7. CASE Finish(p)
  <2>1. LockTypeOK'
    BY <1>7 DEF Finish, Release, LockTypeOK, SimpleTypes
  <2>2. pc' \in [Proc -> PcValues] /\ pc'[p] = "done"
    BY <1>7 DEF Finish, Goto, SimpleTypes, PcValues
  <2>3. SimpleTypes'
    BY <1>7, <2>1, <2>2, ForgetType DEF Finish, runVars, SimpleTypes
  <2>4. OthersStay(p)
    BY <1>7, ForgetType DEF Finish, Goto, SimpleTypes, OthersStay
  <2> QED
    BY <1>7, <2>2, <2>3, <2>4, TypesOfOne DEF Finish, runVars, MyTypes, Prepared
<1>8. CASE Crash(p)
  <2>1. LockTypeOK'
    BY <1>8 DEF Crash, Kill, LockTypeOK, SimpleTypes
  <2>2. pc' \in [Proc -> PcValues] /\ pc'[p] = "done"
    BY <1>8 DEF Crash, Goto, SimpleTypes, PcValues
  <2>3. SimpleTypes'
    BY <1>8, <2>1, <2>2, ForgetType DEF Crash, runVars, SimpleTypes
  <2>4. OthersStay(p)
    BY <1>8, ForgetType DEF Crash, Goto, SimpleTypes, OthersStay
  <2> QED
    BY <1>8, <2>2, <2>3, <2>4, TypesOfOne DEF Crash, runVars, MyTypes, Prepared
<1> QED
  BY <1>1, <1>2, <1>3, <1>4, <1>5, <1>6, <1>7, <1>8

\* A first step is one of those a stage prepared for.
LEMMA FirstStepType ==
  ASSUME NEW p \in Proc
  PROVE  FirstStep(p) \in Prepared \ {"capture", "rename"}
BY DEF FirstStep, Prepared

\* Where its requirements are met, a stage holds a document of its own.
LEMMA RequireTyped ==
  ASSUME Typed, NEW p \in Proc, Require(p)
  PROVE  Typed'
<1> DEFINE new == [by |-> p, basis |-> Names(p), verdict |->
                     IF stage[p] = "FINALIZE" THEN disk["review"].verdict ELSE "NONE"]
<1>1. SimpleTypes
  BY SimpleOfTyped DEF Typed
<1>2. CASE doc' = [doc EXCEPT ![p] = new] /\ Goto(p, FirstStep(p)) /\ next' = next
           /\ DueStage(mem[p].status) = stage[p]
  <2>1. Names(p) \in [Files -> Digest \cup {None}]
    <3>1. \A f \in Files : disk[f].by \in Digest \cup {None}
      BY AbsentFile DEF Typed
    <3> QED
      BY <3>1 DEF Names, Digest
  <2>2. new \in Doc
    <3>1. "review" \in Files
      BY DEF Files
    <3>2. disk["review"].verdict \in Verdicts
      BY <3>1, AbsentFile DEF Typed
    <3> QED
      BY <2>1, <3>2 DEF Doc, Digest, Verdicts
  <2>3. FirstStep(p) \in PcValues /\ FirstStep(p) # "rename"
    BY FirstStepType DEF Prepared, PcValues
  <2>4. pc' \in [Proc -> PcValues] /\ pc'[p] = FirstStep(p)
    BY <1>1, <1>2, <2>3 DEF Goto, SimpleTypes
  <2>5. doc' \in [Proc -> Doc \cup {NoDoc}] /\ doc'[p] = new
    BY <1>1, <1>2, <2>2 DEF SimpleTypes
  <2>6. SimpleTypes'
    BY <1>1, <1>2, <2>4, <2>5, Require(p) DEF Require, lockVars, LockTypeOK, runVars,
       SimpleTypes
  <2>7. OthersStay(p)
    BY <1>1, <1>2, Require(p) DEF Require, Goto, SimpleTypes, OthersStay
  <2>8. DueStage(mem[p].status)' = stage'[p]
    BY <1>2, Require(p) DEF Require, DueStage
  <2>9. MyTypes(p)'
    BY <2>2, <2>3, <2>4, <2>5, <2>8 DEF MyTypes
  <2> QED
    BY <2>6, <2>7, <2>9, Require(p), TypesOfOne DEF Require, runVars
<1>3. CASE Fail(p) /\ doc' = doc
  <2>1. SimpleTypes'
    BY <1>1, <1>3, Require(p), FailType DEF Typed, Require, lockVars, LockTypeOK,
       runVars, SimpleTypes
  <2>2. OthersStay(p) /\ pc'[p] \notin Prepared
    BY <1>1, <1>3, Require(p), FailType DEF Typed, Require, SimpleTypes, OthersStay,
       Prepared
  <2> QED
    BY <2>1, <2>2, Require(p), TypesOfOne DEF Require, runVars, MyTypes, Prepared
<1> QED
  BY <1>2, <1>3, Require(p) DEF Require

\* What the providers, the snapshot and the gate's checks leave.
LEMMA AskersTyped ==
  ASSUME Typed, NEW p \in Proc,
         \/ Announce(p) \/ EnsureSnapshot(p) \/ Capture(p) \/ CallProvider(p)
         \/ VerifyEvidence(p) \/ Judge(p) \/ Sign(p) \/ CheckAbsent(p)
  PROVE  Typed'
<1> USE SimpleOfTyped DEF Typed
<1>1. MyTypes(p)
  BY MineOfTyped
<1>2. CASE Announce(p)
  <2>1. SimpleTypes'
    BY <1>2 DEF Announce, lockVars, LockTypeOK, Goto, SimpleTypes, PcValues
  <2>2. pc'[p] = "provider" /\ OthersStay(p)
    BY <1>2 DEF Announce, Goto, SimpleTypes, OthersStay
  <2>3. MyTypes(p)'
    BY <1>1, <1>2, <2>2 DEF Announce, At, MyTypes, Prepared, DueStage
  <2> QED
    BY <1>2, <2>1, <2>2, <2>3, TypesOfOne DEF Announce
<1>3. CASE EnsureSnapshot(p)
  <2>1. /\ pc' \in [Proc -> PcValues]
        /\ pc'[p] \in {"capture", "provider", "release", "save"}
        /\ \A q \in Proc \ {p} : pc'[q] = pc[q]
        /\ next' \in [Proc -> {"drive", "stop", "leave"}]
    BY <1>3, FailType DEF EnsureSnapshot, Goto, SimpleTypes, PcValues
  <2>2. SimpleTypes'
    BY <1>3, <2>1 DEF EnsureSnapshot, lockVars, LockTypeOK, runVars, SimpleTypes
  <2>3. OthersStay(p)
    BY <1>3, <2>1 DEF EnsureSnapshot, OthersStay
  <2>4. MyTypes(p)'
    BY <1>1, <1>3, <2>1 DEF EnsureSnapshot, At, MyTypes, Prepared, DueStage
  <2> QED
    BY <1>3, <2>2, <2>3, <2>4, TypesOfOne DEF EnsureSnapshot, runVars
<1>4. CASE Capture(p)
  <2> DEFINE snap == [by |-> p, verdict |-> "NONE", basis |-> Empty]
  <2>1. /\ pc' \in [Proc -> PcValues]
        /\ pc'[p] \in {"provider", "release", "save"}
        /\ \A q \in Proc \ {p} : pc'[q] = pc[q]
        /\ next' \in [Proc -> {"drive", "stop", "leave"}]
    BY <1>4, FailType DEF Capture, Goto, SimpleTypes, PcValues
  <2>2. snap \in Doc
    BY DocEmpty DEF Doc, Digest, Verdicts
  <2>3. disk' \in [Files -> Doc \cup {NoDoc}]
    BY <1>4, <2>2 DEF Capture, SimpleTypes
  <2>4. mem' \in [Proc -> Manifest] /\ mem'[p].status = mem[p].status
        /\ \A q \in Proc \ {p} : mem'[q] = mem[q]
    <3>1. CASE mem' = [mem EXCEPT ![p].refs["snapshot"] = p]
      <4>1. mem[p] \in Manifest
        BY DEF SimpleTypes
      <4>2. [mem[p] EXCEPT !.refs["snapshot"] = p] \in Manifest
        BY <4>1 DEF Manifest, Digest
      <4> QED
        BY <3>1, <4>2 DEF SimpleTypes
    <3>2. CASE mem' = mem
      BY <3>2 DEF SimpleTypes
    <3> QED
      BY <1>4, <3>1, <3>2 DEF Capture
  <2>5. SimpleTypes'
    BY <1>4, <2>1, <2>3, <2>4 DEF Capture, lockVars, LockTypeOK, SimpleTypes
  <2>6. OthersStay(p)
    BY <1>4, <2>1, <2>4 DEF Capture, OthersStay
  <2>7. DueStage(mem[p].status)' = DueStage(mem[p].status)
    BY <2>4 DEF DueStage
  <2>8. MyTypes(p)'
    BY <1>1, <1>4, <2>1, <2>7 DEF Capture, At, MyTypes, Prepared
  <2> QED
    BY <1>4, <2>5, <2>6, <2>8, TypesOfOne DEF Capture
<1>5. CASE CallProvider(p)
  <2>1. /\ pc' \in [Proc -> PcValues]
        /\ pc'[p] \in {"check", "release", "save"}
        /\ \A q \in Proc \ {p} : pc'[q] = pc[q]
        /\ next' \in [Proc -> {"drive", "stop", "leave"}]
    BY <1>5, FailType DEF CallProvider, Goto, SimpleTypes, PcValues
  <2>2. doc[p] \in Doc /\ doc[p].by = p /\ DueStage(mem[p].status) = stage[p]
    BY <1>1, <1>5 DEF MyTypes, CallProvider, At, Prepared
  <2>3. /\ doc' \in [Proc -> Doc \cup {NoDoc}]
        /\ doc'[p] \in Doc /\ doc'[p].by = p
        /\ \A q \in Proc \ {p} : doc'[q] = doc[q]
    <3>1. CASE doc' = doc
      BY <2>2, <3>1 DEF SimpleTypes
    <3>2. CASE \E v \in IF stage[p] = "REVIEW" THEN {"PASS", "REJECT"}
                        ELSE {doc[p].verdict} :
                 doc' = [doc EXCEPT ![p].verdict = v]
      <4>1. PICK v \in Verdicts : doc' = [doc EXCEPT ![p].verdict = v]
        BY <2>2, <3>2 DEF Verdicts, Doc
      <4> QED
        BY <2>2, <4>1 DEF SimpleTypes, Doc
    <3> QED
      BY <1>5, <3>1, <3>2 DEF CallProvider
  <2>4. SimpleTypes'
    BY <1>5, <2>1, <2>3 DEF CallProvider, lockVars, LockTypeOK, runVars, SimpleTypes
  <2>5. OthersStay(p)
    BY <1>5, <2>1, <2>3 DEF CallProvider, OthersStay
  <2>6. MyTypes(p)'
    BY <1>5, <2>1, <2>2, <2>3 DEF CallProvider, MyTypes, DueStage
  <2> QED
    BY <1>5, <2>4, <2>5, <2>6, TypesOfOne DEF CallProvider, runVars
<1>6. CASE VerifyEvidence(p)
  <2>1. doc[p] \in Doc /\ doc[p].by = p /\ DueStage(mem[p].status) = stage[p]
    BY <1>1, <1>6 DEF MyTypes, VerifyEvidence, At, Prepared
  <2>2. /\ pc' \in [Proc -> PcValues] /\ pc'[p] \in {"judge", "sign", "check"}
        /\ \A q \in Proc \ {p} : pc'[q] = pc[q]
    BY <1>6 DEF VerifyEvidence, Goto, SimpleTypes, PcValues, AfterJudging
  <2>3. /\ doc' \in [Proc -> Doc \cup {NoDoc}]
        /\ doc'[p] \in Doc /\ doc'[p].by = p
        /\ \A q \in Proc \ {p} : doc'[q] = doc[q]
    <3> DEFINE named == [f \in Files |-> IF f \in Evidence(p) THEN disk[f].by ELSE None]
    <3>1. named \in [Files -> Digest \cup {None}]
      BY AbsentFile
    <3>2. CASE doc' = [doc EXCEPT ![p].basis = named]
      BY <2>1, <3>1, <3>2 DEF SimpleTypes, Doc
    <3>3. CASE doc' = [doc EXCEPT ![p].verdict = "BLOCKED"]
      BY <2>1, <3>3 DEF SimpleTypes, Doc, Verdicts
    <3> QED
      BY <1>6, <3>2, <3>3 DEF VerifyEvidence
  <2>4. SimpleTypes'
    BY <1>6, <2>2, <2>3 DEF VerifyEvidence, lockVars, LockTypeOK, runVars, SimpleTypes
  <2>5. OthersStay(p)
    BY <1>6, <2>2, <2>3 DEF VerifyEvidence, OthersStay
  <2>6. MyTypes(p)'
    BY <1>6, <2>1, <2>2, <2>3 DEF VerifyEvidence, MyTypes, DueStage
  <2> QED
    BY <1>6, <2>4, <2>5, <2>6, TypesOfOne DEF VerifyEvidence, runVars
<1>7. CASE Judge(p)
  <2>1. doc[p] \in Doc /\ doc[p].by = p /\ DueStage(mem[p].status) = stage[p]
    BY <1>1, <1>7 DEF MyTypes, Judge, At, Prepared
  <2>2. /\ pc' \in [Proc -> PcValues] /\ pc'[p] \in {"sign", "check"}
        /\ \A q \in Proc \ {p} : pc'[q] = pc[q]
    BY <1>7 DEF Judge, Goto, SimpleTypes, PcValues, AfterJudging
  <2>3. PICK v \in {"APPROVED", "BLOCKED"} : doc' = [doc EXCEPT ![p].verdict = v]
    BY <1>7 DEF Judge
  <2>4. /\ doc' \in [Proc -> Doc \cup {NoDoc}]
        /\ doc'[p] \in Doc /\ doc'[p].by = p
        /\ \A q \in Proc \ {p} : doc'[q] = doc[q]
    BY <2>1, <2>3 DEF SimpleTypes, Doc, Verdicts
  <2>5. SimpleTypes'
    BY <1>7, <2>2, <2>4 DEF Judge, lockVars, LockTypeOK, runVars, SimpleTypes
  <2>6. OthersStay(p)
    BY <1>7, <2>2, <2>4 DEF Judge, OthersStay
  <2>7. MyTypes(p)'
    BY <1>7, <2>1, <2>2, <2>4 DEF Judge, MyTypes, DueStage
  <2> QED
    BY <1>7, <2>5, <2>6, <2>7, TypesOfOne DEF Judge, runVars
<1>9. CASE Sign(p)
  <2>1. doc[p] \in Doc /\ doc[p].by = p /\ DueStage(mem[p].status) = stage[p]
    BY <1>1, <1>9 DEF MyTypes, Sign, At, Prepared
  <2>2. /\ pc' \in [Proc -> PcValues] /\ pc'[p] = "check"
        /\ \A q \in Proc \ {p} : pc'[q] = pc[q]
    BY <1>9 DEF Sign, Goto, SimpleTypes, PcValues
  <2>3. [Empty EXCEPT !["final"] = disk["final"].by] \in [Files -> Digest \cup {None}]
    BY DocEmpty, AbsentFile DEF Files
  <2>4. /\ doc' \in [Proc -> Doc \cup {NoDoc}]
        /\ doc'[p] \in Doc /\ doc'[p].by = p
        /\ \A q \in Proc \ {p} : doc'[q] = doc[q]
    BY <1>9, <2>1, <2>3 DEF Sign, SimpleTypes, Doc
  <2>5. SimpleTypes'
    BY <1>9, <2>2, <2>4 DEF Sign, lockVars, LockTypeOK, runVars, SimpleTypes
  <2>6. OthersStay(p)
    BY <1>9, <2>2, <2>4 DEF Sign, OthersStay
  <2>7. MyTypes(p)'
    BY <1>9, <2>1, <2>2, <2>4 DEF Sign, MyTypes, DueStage
  <2> QED
    BY <1>9, <2>5, <2>6, <2>7, TypesOfOne DEF Sign, runVars
<1>8. CASE CheckAbsent(p)
  <2>1. /\ pc' \in [Proc -> PcValues] /\ pc'[p] \in {"release", "rename"}
        /\ \A q \in Proc \ {p} : pc'[q] = pc[q]
    BY <1>8 DEF CheckAbsent, Goto, SimpleTypes, PcValues
  <2>2. /\ todo' \in [Proc -> SUBSET Files]
        /\ pc'[p] = "rename" => todo'[p] = Outputs(p)
        /\ \A q \in Proc \ {p} : todo'[q] = todo[q]
    BY <1>8, <2>1, OutputsType DEF CheckAbsent, Goto, SimpleTypes
  <2>3. SimpleTypes'
    BY <1>8, <2>1, <2>2 DEF CheckAbsent, lockVars, LockTypeOK, runVars, SimpleTypes
  <2>4. OthersStay(p)
    BY <1>8, <2>1, <2>2 DEF CheckAbsent, OthersStay
  <2>5. Outputs(p)' = Outputs(p)
    BY <1>8, OutputsStay DEF CheckAbsent, runVars
  <2>6. MyTypes(p)'
    BY <1>1, <1>8, <2>1, <2>2, <2>5, OutputsType DEF CheckAbsent, At, MyTypes, Prepared,
       DueStage
  <2> QED
    BY <1>8, <2>3, <2>4, <2>6, TypesOfOne DEF CheckAbsent, runVars
<1> QED
  BY <1>2, <1>3, <1>4, <1>5, <1>6, <1>7, <1>8, <1>9

\* After the last rename: the manifest in memory with the files just committed.
Committed(p) ==
  [status |-> NewStatus(p),
   refs |-> [g \in Files |-> IF g \in Outputs(p) THEN p ELSE mem[p].refs[g]]]

LEMMA CommittedType ==
  ASSUME TypeOK, NEW p \in Proc
  PROVE  /\ Committed(p) \in Manifest
         /\ Committed(p).status = NewStatus(p)
         /\ \A g \in Files : Committed(p).refs[g] =
              IF g \in Outputs(p) THEN p ELSE mem[p].refs[g]
<1>1. NewStatus(p) \in Statuses
  BY DEF NewStatus, Statuses
<1>2. mem[p] \in Manifest
  BY DEF TypeOK
<1>3. [g \in Files |-> IF g \in Outputs(p) THEN p ELSE mem[p].refs[g]]
        \in [Files -> Digest \cup {None}]
  BY <1>2 DEF Manifest, Digest
<1> QED
  BY <1>1, <1>3 DEF Committed, Manifest

\* The files go into place one by one; what is left is still the stage's own.
LEMMA RenameTyped ==
  ASSUME Typed, NEW p \in Proc, Rename(p)
  PROVE  Typed'
<1>1. SimpleTypes /\ MyTypes(p)
  BY SimpleOfTyped, MineOfTyped DEF Typed
<1>2. /\ pc[p] = "rename" /\ todo[p] \subseteq Outputs(p)
      /\ doc[p] \in Doc /\ doc[p].by = p /\ DueStage(mem[p].status) = stage[p]
  BY <1>1, Rename(p) DEF Rename, At, MyTypes, Prepared
<1>3. PICK f \in todo[p] :
        /\ disk' = [disk EXCEPT ![f] = doc[p]]
        /\ todo' = [todo EXCEPT ![p] = @ \ {f}]
        /\ IF LastRename(p, f)
             THEN /\ mem' = [mem EXCEPT ![p] = Committed(p)]
                  /\ next' = [next EXCEPT ![p] =
                       IF doc[p].verdict \in {"REJECT", "BLOCKED"} THEN "stop"
                       ELSE "drive"]
                  /\ Goto(p, "save")
             ELSE UNCHANGED <<mem, next, pc>>
  BY Rename(p) DEF Rename, Committed
<1>4. /\ disk' \in [Files -> Doc \cup {NoDoc}]
      /\ todo' \in [Proc -> SUBSET Files] /\ todo'[p] = todo[p] \ {f}
      /\ \A q \in Proc \ {p} : todo'[q] = todo[q]
  BY <1>1, <1>2, <1>3 DEF SimpleTypes
<1>5. CASE LastRename(p, f)
  <2>1. Committed(p) \in Manifest
    BY CommittedType DEF Typed
  <2>2. /\ mem' \in [Proc -> Manifest] /\ next' \in [Proc -> {"drive", "stop", "leave"}]
        /\ pc' \in [Proc -> PcValues] /\ pc'[p] = "save"
        /\ \A q \in Proc \ {p} : mem'[q] = mem[q] /\ pc'[q] = pc[q]
    BY <1>1, <1>3, <1>5, <2>1 DEF SimpleTypes, Goto, PcValues
  <2>3. SimpleTypes'
    BY <1>1, <1>4, <2>2, Rename(p) DEF Rename, lockVars, LockTypeOK, SimpleTypes
  <2>4. OthersStay(p)
    BY <1>4, <2>2, Rename(p) DEF Rename, OthersStay
  <2> QED
    BY <2>2, <2>3, <2>4, Rename(p), TypesOfOne DEF Rename, MyTypes, Prepared
<1>6. CASE ~LastRename(p, f)
  <2>1. UNCHANGED <<mem, next, pc>>
    BY <1>3, <1>6
  <2>2. SimpleTypes'
    BY <1>1, <1>4, <2>1, Rename(p) DEF Rename, lockVars, LockTypeOK, SimpleTypes
  <2>3. OthersStay(p)
    BY <1>4, <2>1, Rename(p) DEF Rename, OthersStay
  <2>4. todo'[p] # {} /\ todo'[p] \subseteq Outputs(p)'
    <3>1. Outputs(p)' = Outputs(p)
      BY Rename(p), OutputsStay DEF Rename
    <3> QED
      BY <1>2, <1>3, <1>4, <1>6, <3>1 DEF LastRename
  <2>5. MyTypes(p)'
    BY <1>2, <2>1, <2>4, Rename(p) DEF Rename, MyTypes, DueStage
  <2> QED
    BY <2>2, <2>3, <2>5, Rename(p), TypesOfOne DEF Rename
<1> QED
  BY <1>5, <1>6

\* The steps that save a manifest or undo a commit.
LEMMA WritersTyped ==
  ASSUME Typed, NEW p \in Proc, Save(p) \/ SaveEvent(p) \/ Raise(p)
  PROVE  Typed'
<1> USE SimpleOfTyped DEF Typed
<1>1. CASE Save(p)
  <2>1. /\ pc' \in [Proc -> PcValues] /\ pc'[p] \in {"load_event", "release"}
        /\ \A q \in Proc \ {p} : pc'[q] = pc[q]
    BY <1>1 DEF Save, Goto, SimpleTypes, PcValues
  <2>2. SimpleTypes'
    BY <1>1, <2>1 DEF Save, lockVars, LockTypeOK, SimpleTypes
  <2> QED
    BY <1>1, <2>1, <2>2, TypesOfOne DEF Save, OthersStay, MyTypes, Prepared
<1>2. CASE SaveEvent(p)
  <2>1. /\ pc' \in [Proc -> PcValues] /\ pc'[p] \in {"drive", "load_event", "release"}
        /\ \A q \in Proc \ {p} : pc'[q] = pc[q]
    BY <1>2 DEF SaveEvent, Goto, SimpleTypes, PcValues
  <2>2. /\ ran' \in [Proc -> BOOLEAN]
        /\ next' \in [Proc -> {"drive", "stop", "leave"}]
    BY <1>2 DEF SaveEvent, SimpleTypes
  <2>3. Created \in Manifest
    BY DocEmpty DEF Created, Manifest, Statuses
  <2>4. SimpleTypes'
    BY <1>2, <2>1, <2>2, <2>3 DEF SaveEvent, lockVars, LockTypeOK, SimpleTypes
  <2>5. OthersStay(p)
    BY <1>2, <2>1 DEF SaveEvent, OthersStay, SimpleTypes
  <2> QED
    BY <1>2, <2>1, <2>4, <2>5, TypesOfOne DEF SaveEvent, MyTypes, Prepared
<1>3. CASE Raise(p)
  <2>1. /\ pc' \in [Proc -> PcValues] /\ pc'[p] = "release"
        /\ \A q \in Proc \ {p} : pc'[q] = pc[q]
    BY <1>3 DEF Raise, Goto, SimpleTypes, PcValues
  <2>2. disk' \in [Files -> Doc \cup {NoDoc}]
    BY <1>3 DEF Raise, SimpleTypes
  <2>3. SimpleTypes'
    BY <1>3, <2>1, <2>2 DEF Raise, lockVars, LockTypeOK, SimpleTypes
  <2> QED
    BY <1>3, <2>1, <2>3, TypesOfOne DEF Raise, OthersStay, MyTypes, Prepared
<1> QED
  BY <1>1, <1>2, <1>3

\* People change no invocation's memory.
LEMMA PeopleTyped ==
  ASSUME Typed, OperatorRemovesLock \/ Edit
  PROVE  Typed'
<1>1. /\ UNCHANGED <<kind, manifest, localVars>>
      /\ LockTypeOK' /\ disk' \in [Files -> Doc \cup {NoDoc}]
  <2>1. CASE OperatorRemovesLock
    BY <2>1 DEF OperatorRemovesLock, HumanRemovesLock, LockTypeOK, runVars, Typed, TypeOK
  <2>2. CASE Edit
    <3>1. PICK f \in Files, v \in Verdicts :
            There(f) /\ disk' = [disk EXCEPT ![f].by = Editor, ![f].verdict = v]
      <4>1. \A f \in Files : disk[f].verdict \in Verdicts
        BY AbsentFile DEF Typed
      <4> QED
        BY <2>2, <4>1 DEF Edit, Verdicts
    <3>2. disk[f] \in Doc
      BY <3>1, AbsentFile DEF Typed
    <3>3. disk' \in [Files -> Doc \cup {NoDoc}]
      BY <3>1, <3>2 DEF Typed, TypeOK, Doc, Digest
    <3> QED
      BY <2>2, <3>3 DEF Edit, lockVars, LockTypeOK, Typed, TypeOK
  <2> QED
    BY <2>1, <2>2
<1>2. TypeOK'
  <2>1. \A p \in Proc : Outputs(p)' = Outputs(p)
    BY <1>1, OutputsStay DEF localVars
  <2> QED
    BY <1>1, <2>1 DEF Typed, TypeOK, localVars
<1>3. DocInv'
  <2>1. \A p \in Proc : DueStage(mem[p].status)' = DueStage(mem[p].status)
    BY <1>1 DEF localVars, DueStage
  <2> QED
    BY <1>1, <2>1 DEF Typed, DocInv, localVars
<1> QED
  BY <1>2, <1>3 DEF Typed

LEMMA NextTyped ==
  ASSUME Typed, [Next]_vars
  PROVE  Typed'
<1>1. CASE UNCHANGED vars
  <2>1. \A p \in Proc : /\ Outputs(p)' = Outputs(p)
                        /\ DueStage(mem[p].status)' = DueStage(mem[p].status)
    BY <1>1, OutputsStay DEF vars, runVars, localVars, DueStage
  <2>2. TypeOK'
    BY <1>1, <2>1 DEF vars, lockVars, runVars, localVars, Typed, TypeOK, LockTypeOK
  <2>3. DocInv'
    BY <1>1, <2>1 DEF vars, localVars, Typed, DocInv
  <2> QED
    BY <2>2, <2>3 DEF Typed
<1>2. ASSUME NEW p \in Proc,
             StartPipeline(p) \/ StartCommand(p) \/ Step(p) \/ Raise(p) \/ Crash(p)
      PROVE  Typed'
  BY <1>2, ReadersTyped, RequireTyped, AskersTyped, RenameTyped, WritersTyped DEF Step
<1> QED
  BY <1>1, <1>2, PeopleTyped DEF Next

LEMMA InitTyped == Init => Typed
<1> SUFFICES ASSUME Init PROVE Typed
  OBVIOUS
<1>1. Created \in Manifest
  BY DocEmpty DEF Created, Manifest, Statuses
<1>2. TypeOK
  BY <1>1 DEF Init, TypeOK, LockInit, LockTypeOK, PcValues, Modes, Stages
<1>3. DocInv
  BY DEF Init, DocInv, Prepared
<1> QED
  BY <1>2, <1>3 DEF Typed

LEMMA AlwaysTyped == Spec => []Typed
BY InitTyped, NextTyped, PTL DEF Spec

\* The run's files, its manifest and every invocation's memory keep their types;
\* an invocation that is renaming has something of its own left to rename.
THEOREM TypeCorrect == Spec => []TypeOK
<1>1. Typed => TypeOK
  BY DEF Typed
<1> QED
  BY <1>1, AlwaysTyped, PTL

-----------------------------------------------------------------------------
(* The record *)

\* A pipeline at work has the lock, so the others rest.
LEMMA Alone ==
  ASSUME CommandsIdle, RecordInv, NEW p \in Proc, pc[p] \notin Resting
  PROVE  /\ p \in Pipelines /\ p \notin dead /\ lockFile = p
         /\ \A q \in Pipelines \ {p} : pc[q] \in Resting
         /\ TrueOfDisk(manifest) /\ Whole(manifest) /\ MemInv(p)
<1>1. p \in Pipelines
  BY PartiesAssumption DEF CommandsIdle, Resting
<1> QED
  BY <1>1 DEF RecordInv, LockInv

LEMMA ContinuesItself ==
  ASSUME NEW m \in Manifest
  PROVE  Continues(m, m)
BY DEF Continues, Manifest, Statuses, Rank

LEMMA RankType ==
  ASSUME NEW status \in Statuses
  PROVE  /\ Rank(status) \in 0..4
         /\ DueStage(status) \in Stages => Rank(status) < 4
BY DEF Rank, Statuses, DueStage, Stages

\* No step brings a command back to idle.
LEMMA CommandsStayIdle ==
  ASSUME Typed, NEW p \in Proc, NEW l \in PcValues \ {"idle"}, Goto(p, l), CommandsIdle'
  PROVE  CommandsIdle /\ p \notin Commands
<1>1. pc \in [Proc -> PcValues] /\ Commands \subseteq Proc
  BY PartiesAssumption DEF Typed, TypeOK
<1>2. pc'[p] = l /\ \A q \in Proc \ {p} : pc'[q] = pc[q]
  BY <1>1 DEF Goto
<1> QED
  BY <1>1, <1>2 DEF CommandsIdle

\* What p has to show after a step: the record grew, and is still true.
MyRecord(p) ==
  /\ Grows
  /\ TrueOfDisk(manifest)' /\ Whole(manifest)'
  /\ MemInv(p)'

\* A working p may end, or keep the lock.
LEMMA RecordOfOne ==
  ASSUME Typed, RecordInv, CommandsIdle, NEW p \in Proc,
         pc[p] \notin Resting,
         \A q \in Proc \ {p} : pc'[q] = pc[q],
         pc'[p] \in Resting \/ UNCHANGED lockVars,
         MyRecord(p)
  PROVE  RecordInv' /\ Grows
<1>1. /\ p \in Pipelines /\ p \notin dead /\ lockFile = p
      /\ \A q \in Pipelines \ {p} : pc[q] \in Resting
  BY Alone
<1>2. \A q \in Pipelines \ {p} : pc'[q] \in Resting
  BY <1>1, PartiesAssumption
<1>3. LockInv'
  BY <1>1, <1>2 DEF LockInv, lockVars
<1>4. ASSUME NEW q \in Pipelines
      PROVE  MemInv(q)'
  <2>1. CASE q = p
    BY <2>1 DEF MyRecord
  <2>2. CASE q # p
    BY <1>2, <2>2 DEF MemInv, Resting, Holding, Prepared
  <2> QED
    BY <2>1, <2>2
<1> QED
  BY <1>3, <1>4 DEF RecordInv, MyRecord

\* Nothing is said of memory where nothing is held.
LEMMA RecordStays ==
  ASSUME Typed, UNCHANGED <<kind, disk, manifest>>
  PROVE  Grows /\ (TrueOfDisk(manifest) => TrueOfDisk(manifest)')
               /\ (Whole(manifest) => Whole(manifest)')
<1>1. Continues(manifest', manifest)
  BY ContinuesItself DEF Typed, TypeOK
<1>2. Whole(manifest) => Whole(manifest)'
  BY DEF Whole, Completed
<1>3. TrueOfDisk(manifest) => TrueOfDisk(manifest)'
  BY DEF TrueOfDisk
<1> QED
  BY <1>1, <1>2, <1>3 DEF Grows

\* Steps after which p holds nothing, or what it has just loaded.
LEMMA ReadersKeepRecord ==
  ASSUME Typed, RecordInv, NEW p \in Proc, CommandsIdle',
         Drive(p) \/ CheckVerdict(p) \/ Load(p) \/ LoadEvent(p) \/ Finish(p) \/ Crash(p)
  PROVE  RecordInv' /\ Grows
<1>1. UNCHANGED <<kind, disk, manifest>> /\ pc[p] \notin Resting
  BY DEF Drive, CheckVerdict, Load, LoadEvent, Finish, Crash, At, runVars, Resting
<1>2. PICK l \in PcValues \ {"idle"} :
        /\ Goto(p, l)
        /\ \/ l \in {"verdict", "load", "load_event", "release"} /\ UNCHANGED lockVars
           \/ l \in {"require", "save_event"} /\ UNCHANGED lockVars
              /\ mem' = [mem EXCEPT ![p] = manifest]
           \/ l = "done"
  BY DEF Drive, CheckVerdict, Load, LoadEvent, Finish, Crash, PcValues
<1>3. CommandsIdle
  BY <1>2, CommandsStayIdle
<1>4. pc'[p] = l /\ \A q \in Proc \ {p} : pc'[q] = pc[q]
  BY <1>2 DEF Goto, Typed, TypeOK
<1>5. TrueOfDisk(manifest) /\ Whole(manifest)
  BY <1>1, <1>3, Alone
<1>6. Grows /\ TrueOfDisk(manifest)' /\ Whole(manifest)'
  BY <1>1, <1>5, RecordStays
<1>7. MemInv(p)'
  <2>1. CASE l \notin {"require", "save_event"}
    BY <1>2, <1>4, <2>1 DEF MemInv, Holding, Prepared
  <2>2. CASE l \in {"require", "save_event"}
    <3>1. mem'[p] = manifest /\ manifest' = manifest
      BY <1>1, <1>2, <2>2 DEF Typed, TypeOK
    <3>2. Continues(mem'[p], manifest')
      BY <3>1, ContinuesItself DEF Typed, TypeOK
    <3>3. TrueOfDisk(mem[p])' /\ Whole(mem[p])'
      BY <1>6, <3>1 DEF TrueOfDisk, Whole, Completed
    <3> QED
      BY <1>4, <2>2, <3>2, <3>3 DEF MemInv
  <2> QED
    BY <2>1, <2>2
<1>8. pc'[p] \in Resting \/ UNCHANGED lockVars
  BY <1>2, <1>4 DEF Resting
<1> QED
  BY <1>1, <1>3, <1>4, <1>6, <1>7, <1>8, RecordOfOne DEF MyRecord

\* A lock is taken when nobody works.
LEMMA StartKeepsRecord ==
  ASSUME Typed, RecordInv, NEW p \in Proc, CommandsIdle', StartPipeline(p)
  PROVE  RecordInv' /\ Grows
<1>1. UNCHANGED <<kind, disk, manifest>> /\ p \in Pipelines /\ p \notin dead
  BY DEF StartPipeline, runVars, At
<1>2. PICK l \in {"drive", "done"} :
        Goto(p, l) /\ (Acquire(p) \/ Refuse(p)) /\ (l = "drive" => Acquire(p))
  BY DEF StartPipeline
<1>3. CommandsIdle
  BY <1>2, CommandsStayIdle DEF PcValues
<1>4. pc'[p] = l /\ \A q \in Proc \ {p} : pc'[q] = pc[q]
  BY <1>2 DEF Goto, Typed, TypeOK
<1>5. Grows /\ TrueOfDisk(manifest)' /\ Whole(manifest)'
  BY <1>1, <1>3, RecordStays DEF RecordInv
<1>6. LockInv'
  <2>1. CASE l = "drive"
    <3>1. lockFile = NoProc /\ lockFile' = p /\ dead' = dead
      BY <1>2, <2>1 DEF Acquire
    <3>2. \A q \in Pipelines : pc[q] \in Resting
      BY <1>3, <3>1, NoProcAssumption, PartiesAssumption DEF RecordInv, LockInv
    <3> QED
      BY <1>1, <1>4, <3>1, <3>2, PartiesAssumption DEF LockInv
  <2>2. CASE l = "done"
    <3>1. ASSUME NEW q \in Pipelines, pc'[q] \notin Resting
          PROVE  lockFile' = q /\ q \notin dead'
      <4>1. q # p /\ pc[q] \notin Resting
        BY <1>4, <2>2, <3>1, PartiesAssumption DEF Resting
      <4>2. lockFile = q /\ q \notin dead
        BY <1>3, <4>1 DEF RecordInv, LockInv
      <4>3. lockFile # NoProc
        BY <4>2, NoProcAssumption, PartiesAssumption
      <4> QED
        BY <1>2, <4>2, <4>3 DEF Acquire, Refuse, lockVars
    <3> QED
      BY <3>1 DEF LockInv
  <2> QED
    BY <2>1, <2>2
<1>7. ASSUME NEW q \in Pipelines
      PROVE  MemInv(q)'
  <2>1. CASE q = p
    BY <1>4, <2>1 DEF MemInv, Holding, Prepared
  <2>2. CASE q # p
    <3>1. pc'[q] = pc[q]
      BY <1>4, <2>2, PartiesAssumption
    <3>2. CASE l = "drive"
      <4>1. pc[q] \in Resting
        BY <1>2, <1>3, <3>2, NoProcAssumption, PartiesAssumption DEF RecordInv, LockInv,
           Acquire
      <4> QED
        BY <3>1, <4>1 DEF MemInv, Resting, Holding, Prepared
    <3>3. CASE l = "done"
      <4>1. mem'[q] = mem[q] /\ todo'[q] = todo[q] /\ stage'[q] = stage[q]
        BY DEF StartPipeline
      <4>2. Outputs(q)' = Outputs(q)
        BY <1>1, <4>1, OutputsStay
      <4>3. MemInv(q)
        BY <1>3 DEF RecordInv
      <4>4. /\ TrueOfDisk(mem[q]) => TrueOfDisk(mem[q])'
            /\ Whole(mem[q]) => Whole(mem[q])'
            /\ Continues(mem[q], manifest) => Continues(mem[q], manifest)'
        BY <1>1, <4>1 DEF TrueOfDisk, Whole, Completed, Continues, Rank
      <4> QED
        BY <1>1, <3>1, <4>1, <4>2, <4>3, <4>4 DEF MemInv, There
    <3> QED
      BY <3>2, <3>3
  <2> QED
    BY <2>1, <2>2
<1> QED
  BY <1>5, <1>6, <1>7 DEF RecordInv

Held(p) == TrueOfDisk(mem[p]) /\ Whole(mem[p]) /\ Continues(mem[p], manifest)

\* Steps that change neither the record nor the manifest p holds.
LEMMA AskersKeepRecord ==
  ASSUME Typed, RecordInv, NEW p \in Proc, CommandsIdle',
         \/ Require(p) \/ EnsureSnapshot(p) \/ CallProvider(p)
         \/ VerifyEvidence(p) \/ Judge(p) \/ Sign(p) \/ CheckAbsent(p)
  PROVE  RecordInv' /\ Grows
<1>1. /\ UNCHANGED <<kind, disk, manifest, lockVars, mem, stage>>
      /\ pc[p] \in Holding /\ pc[p] \notin Resting
  BY DEF Require, EnsureSnapshot, CallProvider, VerifyEvidence, Judge, Sign, CheckAbsent,
     At, runVars, Holding, Prepared, Resting
<1>2. PICK l \in PcValues \ {"idle"} :
        /\ Goto(p, l)
        /\ l = "capture" => EnsureSnapshot(p)
        /\ l = "rename" => CheckAbsent(p)
  <2>1. FirstStep(p) \in PcValues \ {"idle", "capture", "rename"}
    BY FirstStepType DEF Prepared, PcValues
  <2>2. Fail(p) => Goto(p, "release") \/ Goto(p, "save")
    BY DEF Fail
  <2>3. CASE Require(p)
    BY <2>1, <2>2, <2>3 DEF Require, PcValues
  <2>4. CASE ~Require(p)
    BY <2>2, <2>4 DEF EnsureSnapshot, CallProvider, VerifyEvidence, Judge, Sign,
       AfterJudging, CheckAbsent, PcValues
  <2> QED
    BY <2>3, <2>4
<1>3. CommandsIdle
  BY <1>2, CommandsStayIdle
<1>4. pc'[p] = l /\ \A q \in Proc \ {p} : pc'[q] = pc[q]
  BY <1>2 DEF Goto, Typed, TypeOK
<1>5. TrueOfDisk(manifest) /\ Whole(manifest) /\ MemInv(p)
  BY <1>1, <1>3, Alone
<1>6. Grows /\ TrueOfDisk(manifest)' /\ Whole(manifest)'
  BY <1>1, <1>5, RecordStays
<1>7. Held(p) /\ Held(p)'
  <2>1. Held(p)
    BY <1>1, <1>5 DEF Held, MemInv
  <2>2. Continues(mem[p], manifest)'
    BY <1>1, <2>1 DEF Held, Continues, Rank
  <2>3. TrueOfDisk(mem[p])' /\ Whole(mem[p])'
    BY <1>1, <2>1 DEF Held, TrueOfDisk, Whole, Completed
  <2> QED
    BY <2>1, <2>2, <2>3 DEF Held
<1>8. l = "capture" => ~There("snapshot")'
  <2> SUFFICES ASSUME l = "capture" PROVE ~There("snapshot")'
    OBVIOUS
  <2>1. EnsureSnapshot(p) /\ pc'[p] = "capture"
    BY <1>2, <1>4
  <2>2. ~There("snapshot")
    <3>1. Fail(p) => pc'[p] \in {"release", "save"}
      BY FailType DEF Typed
    <3>2. Goto(p, "provider") => pc'[p] = "provider"
      BY DEF Goto, Typed, TypeOK
    <3> QED
      BY <2>1, <3>1, <3>2 DEF EnsureSnapshot
  <2> QED
    BY <1>1, <2>2 DEF There
<1>9. l = "rename" => \A f \in Outputs(p)' :
        /\ mem'[p].refs[f] = None
        /\ f \in todo'[p] => ~There(f)'
        /\ f \notin todo'[p] => disk'[f].by \in {p, Editor}
  <2> SUFFICES ASSUME l = "rename", NEW f \in Outputs(p)
               PROVE  mem'[p].refs[f] = None /\ f \in todo'[p] /\ ~There(f)'
    <3>1. Outputs(p)' = Outputs(p)
      BY <1>1, OutputsStay
    <3> QED
      BY <3>1
  <2>1. CheckAbsent(p) /\ pc'[p] = "rename"
    BY <1>2, <1>4
  <2>2. todo'[p] = Outputs(p) /\ ~There(f)
    <3>1. Goto(p, "release") => pc'[p] = "release"
      BY DEF Goto, Typed, TypeOK
    <3> QED
      BY <2>1, <3>1 DEF CheckAbsent, Typed, TypeOK
  <2>3. f \in Files /\ disk[f].by = None
    BY <2>2, OutputsType, AbsentFile DEF Typed
  <2>4. mem[p].refs[f] = None
    BY <1>7, <2>3, PartiesAssumption DEF Held, TrueOfDisk
  <2> QED
    BY <1>1, <2>2, <2>4 DEF There
<1>10. MemInv(p)'
  BY <1>4, <1>7, <1>8, <1>9 DEF MemInv, Held
<1> QED
  BY <1>1, <1>3, <1>4, <1>6, <1>10, RecordOfOne DEF MyRecord

\* A save puts what p holds in the manifest's place; that only adds to it.
LEMMA SavesKeepRecord ==
  ASSUME Typed, RecordInv, NEW p \in Proc, CommandsIdle',
         Announce(p) \/ Save(p) \/ SaveEvent(p)
  PROVE  RecordInv' /\ Grows
<1>1. /\ UNCHANGED <<kind, disk, lockVars>> /\ manifest' = mem[p]
      /\ pc[p] \in Holding /\ pc[p] \notin Resting
  BY DEF Announce, Save, SaveEvent, At, Holding, Prepared, Resting
<1>2. PICK l \in {"provider", "load_event", "release", "drive"} :
        /\ Goto(p, l)
        /\ l = "provider" => Announce(p)
  BY DEF Announce, Save, SaveEvent
<1>3. CommandsIdle
  BY <1>2, CommandsStayIdle DEF PcValues
<1>4. pc'[p] = l /\ \A q \in Proc \ {p} : pc'[q] = pc[q]
  BY <1>2 DEF Goto, Typed, TypeOK
<1>5. Held(p)
  BY <1>1, <1>3, Alone DEF Held, MemInv
<1>6. TrueOfDisk(manifest)' /\ Whole(manifest)'
  BY <1>1, <1>5 DEF Held, TrueOfDisk, Whole, Completed
<1>7. Grows
  BY <1>1, <1>5 DEF Held, Grows, Continues
<1>8. MemInv(p)'
  <2>1. CASE l # "provider"
    BY <1>2, <1>4, <2>1 DEF MemInv, Holding, Prepared
  <2>2. CASE l = "provider"
    <3>1. mem' = mem
      BY <1>2, <2>2 DEF Announce
    <3>2. mem[p] \in Manifest
      BY DEF Typed, TypeOK
    <3>3. Continues(mem'[p], manifest')
      BY <1>1, <3>1, <3>2, ContinuesItself
    <3>4. TrueOfDisk(mem[p])' /\ Whole(mem[p])'
      BY <1>1, <1>6, <3>1 DEF TrueOfDisk, Whole, Completed
    <3> QED
      BY <1>4, <2>2, <3>3, <3>4 DEF MemInv
  <2> QED
    BY <2>1, <2>2
<1> QED
  BY <1>1, <1>3, <1>4, <1>6, <1>7, <1>8, RecordOfOne DEF MyRecord

\* What is not there is not recorded, in memory or on disk.
LEMMA AbsentUnrecorded ==
  ASSUME Typed, NEW p \in Proc, Held(p), NEW f \in Files,
         ~There(f) \/ mem[p].refs[f] = None
  PROVE  mem[p].refs[f] = None /\ manifest.refs[f] = None
<1>1. mem[p].refs[f] = None
  BY AbsentFile, PartiesAssumption DEF Held, TrueOfDisk, Typed
<1> QED
  BY <1>1 DEF Held, Continues

\* A step that only touches unrecorded files.
LEMMA DiskKeepsRecord ==
  ASSUME Typed, UNCHANGED <<kind, manifest>>, TrueOfDisk(manifest), Whole(manifest),
         \A f \in Files : manifest.refs[f] # None => disk'[f] = disk[f]
  PROVE  Grows /\ TrueOfDisk(manifest)' /\ Whole(manifest)'
<1>1. Continues(manifest', manifest)
  BY ContinuesItself DEF Typed, TypeOK
<1>2. TrueOfDisk(manifest)'
  BY DEF TrueOfDisk
<1>3. Whole(manifest)'
  BY DEF Whole, Completed
<1> QED
  BY <1>1, <1>2, <1>3 DEF Grows

LEMMA CaptureKeepsRecord ==
  ASSUME Typed, RecordInv, NEW p \in Proc, CommandsIdle', Capture(p)
  PROVE  RecordInv' /\ Grows
<1>1. /\ UNCHANGED <<kind, manifest, lockVars>> /\ pc[p] = "capture"
  BY DEF Capture, At
<1>2. PICK l \in {"provider", "release", "save"} :
        /\ Goto(p, l)
        /\ \/ /\ disk' = [disk EXCEPT !["snapshot"] =
                            [by |-> p, verdict |-> "NONE", basis |-> Empty]]
              /\ mem' = [mem EXCEPT ![p].refs["snapshot"] = p]
           \/ UNCHANGED <<disk, mem>>
  BY DEF Capture, Fail
<1>3. CommandsIdle
  BY <1>2, CommandsStayIdle DEF PcValues
<1>4. pc'[p] = l /\ \A q \in Proc \ {p} : pc'[q] = pc[q]
  BY <1>2 DEF Goto, Typed, TypeOK
<1>5. TrueOfDisk(manifest) /\ Whole(manifest) /\ Held(p) /\ ~There("snapshot")
  BY <1>1, <1>3, Alone DEF Held, MemInv, Holding, Prepared, Resting
<1>6. mem[p] \in Manifest /\ mem \in [Proc -> Manifest] /\ disk \in [Files -> Doc \cup {NoDoc}]
  BY DEF Typed, TypeOK
<1>7. "snapshot" \in Files
  BY DEF Files
<1>8. mem[p].refs["snapshot"] = None /\ manifest.refs["snapshot"] = None
  BY <1>5, <1>7, AbsentUnrecorded
<1>9. Grows /\ TrueOfDisk(manifest)' /\ Whole(manifest)'
  <2>1. \A f \in Files : manifest.refs[f] # None => disk'[f] = disk[f]
    BY <1>2, <1>6, <1>8
  <2> QED
    BY <1>1, <1>5, <2>1, DiskKeepsRecord
<1>10. Held(p)'
  <2>1. CASE UNCHANGED <<disk, mem>>
    <3>1. TrueOfDisk(mem[p])' /\ Whole(mem[p])'
      BY <1>1, <1>5, <2>1 DEF Held, TrueOfDisk, Whole, Completed
    <3>2. Continues(mem[p], manifest)'
      BY <1>1, <1>5, <2>1 DEF Held, Continues
    <3> QED
      BY <3>1, <3>2 DEF Held
  <2>2. CASE /\ disk' = [disk EXCEPT !["snapshot"] =
                           [by |-> p, verdict |-> "NONE", basis |-> Empty]]
             /\ mem' = [mem EXCEPT ![p].refs["snapshot"] = p]
    <3>1. /\ mem'[p].status = mem[p].status
          /\ mem'[p].refs["snapshot"] = p
          /\ \A f \in Files \ {"snapshot"} : mem'[p].refs[f] = mem[p].refs[f]
      BY <1>6, <1>7, <2>2 DEF Manifest
    <3>2. /\ disk'["snapshot"].by = p
          /\ \A f \in Files \ {"snapshot"} : disk'[f] = disk[f]
      BY <1>6, <1>7, <2>2
    <3>3. TrueOfDisk(mem[p])'
      BY <1>5, <3>1, <3>2 DEF Held, TrueOfDisk
    <3>4. Whole(mem[p])'
      <4>1. Completed(mem[p].status)' = Completed(mem[p].status)
        BY <1>1, <3>1 DEF Completed
      <4>2. Completed(mem[p].status) \subseteq Files \ {"snapshot"}
        BY DEF Completed, Files
      <4> QED
        BY <1>5, <3>1, <4>1, <4>2 DEF Held, Whole
    <3>5. Continues(mem[p], manifest)'
      BY <1>1, <1>5, <1>8, <3>1 DEF Held, Continues
    <3> QED
      BY <3>3, <3>4, <3>5 DEF Held
  <2> QED
    BY <1>2, <2>1, <2>2
<1>11. MemInv(p)'
  BY <1>2, <1>4, <1>10 DEF MemInv, Held
<1> QED
  BY <1>1, <1>3, <1>4, <1>9, <1>11, RecordOfOne DEF MyRecord, Resting

\* The statuses in their order, and the files each stands for.
LEMMA RankValues ==
  /\ Rank("NORMALIZED") = 0 /\ Rank("DRAFTED") = 1 /\ Rank("REVIEWED") = 2
  /\ Rank("FINALIZED") = 3
  /\ Rank("READY_TO_PUBLISH") = 4 /\ Rank("PUBLISH_BLOCKED") = 4
BY DEF Rank

LEMMA CompletedOfRank ==
  ASSUME NEW status
  PROVE  Completed(status) =
           {f \in Files :
              \/ Rank(status) >= 1 /\ kind # "TRADE_PLAN" /\ f \in {"draft", "writer"}
              \/ Rank(status) >= 2 /\ kind # "TRADE_PLAN" /\ f = "review"
              \/ Rank(status) >= 3 /\ f = "final"
              \/ Rank(status) = 4 /\ f = "decision"}
<1> DEFINE r == Rank(status)
<1>1. Completed(status) =
        (IF r >= 1 /\ kind # "TRADE_PLAN" THEN {"draft", "writer"} ELSE {})
        \cup (IF r >= 2 /\ kind # "TRADE_PLAN" THEN {"review"} ELSE {})
        \cup (IF r >= 3 THEN {"final"} ELSE {})
        \cup (IF r = 4 THEN {"decision"} ELSE {})
  BY DEF Completed
<1> HIDE DEF r
<1>2. Completed(status) =
        {f \in Files :
           \/ r >= 1 /\ kind # "TRADE_PLAN" /\ f \in {"draft", "writer"}
           \/ r >= 2 /\ kind # "TRADE_PLAN" /\ f = "review"
           \/ r >= 3 /\ f = "final"
           \/ r = 4 /\ f = "decision"}
  BY <1>1 DEF Files
<1> QED
  BY <1>2 DEF r

\* The stage's files are those its new status speaks of.
LEMMA StageCompletes ==
  ASSUME Typed, NEW p \in Proc, p \notin Commands, DueStage(mem[p].status) = stage[p]
  PROVE  /\ Completed(NewStatus(p)) \subseteq Completed(mem[p].status) \cup Outputs(p)
         /\ Rank(mem[p].status) < 4
         /\ Rank(mem[p].status) <= Rank(NewStatus(p))
<1>1. mem[p].status \in Statuses /\ stage[p] \in Stages
  BY DEF Typed, TypeOK, Manifest
<1>2. Route(p) = kind
  BY DEF Route
<1> DEFINE old == mem[p].status
           new == NewStatus(p)
<1>3. \/ /\ old = "NORMALIZED" /\ kind = "TRADE_PLAN" /\ new = "FINALIZED"
         /\ Outputs(p) = {"plan", "final"}
      \/ /\ old = "NORMALIZED" /\ kind # "TRADE_PLAN" /\ new = "DRAFTED"
         /\ Outputs(p) = {"draft", "writer"}
      \/ old = "DRAFTED" /\ new = "REVIEWED" /\ Outputs(p) = {"review"}
      \/ old = "REVIEWED" /\ new = "FINALIZED" /\ Outputs(p) = {"final", "finalizer"}
      \/ /\ old = "FINALIZED" /\ new \in {"READY_TO_PUBLISH", "PUBLISH_BLOCKED"}
         /\ Outputs(p) = {"decision"}
  <2>1. \/ old = "NORMALIZED" /\ stage[p] = "WRITE"
        \/ old = "DRAFTED" /\ stage[p] = "REVIEW"
        \/ old = "REVIEWED" /\ stage[p] = "FINALIZE"
        \/ old = "FINALIZED" /\ stage[p] = "GATE"
    BY <1>1 DEF DueStage, Stages, Statuses
  <2>2. /\ stage[p] = "WRITE" /\ kind = "TRADE_PLAN" => new = "FINALIZED"
        /\ stage[p] = "WRITE" /\ kind # "TRADE_PLAN" => new = "DRAFTED"
        /\ stage[p] = "REVIEW" => new = "REVIEWED"
        /\ stage[p] = "FINALIZE" => new = "FINALIZED"
        /\ stage[p] = "GATE" => new \in {"READY_TO_PUBLISH", "PUBLISH_BLOCKED"}
    <3>1. /\ stage[p] = "WRITE" /\ kind = "TRADE_PLAN" => new = "FINALIZED"
          /\ stage[p] = "WRITE" /\ kind # "TRADE_PLAN" => new = "DRAFTED"
      BY <1>2 DEF NewStatus
    <3>2. /\ stage[p] = "REVIEW" => new = "REVIEWED"
          /\ stage[p] = "FINALIZE" => new = "FINALIZED"
      BY DEF NewStatus
    <3>3. stage[p] = "GATE" => new \in {"READY_TO_PUBLISH", "PUBLISH_BLOCKED"}
      BY DEF NewStatus
    <3> QED
      BY <3>1, <3>2, <3>3
  <2>3. /\ stage[p] = "WRITE" /\ kind = "TRADE_PLAN" => Outputs(p) = {"plan", "final"}
        /\ stage[p] = "WRITE" /\ kind # "TRADE_PLAN" => Outputs(p) = {"draft", "writer"}
        /\ stage[p] = "REVIEW" => Outputs(p) = {"review"}
        /\ stage[p] = "FINALIZE" => Outputs(p) = {"final", "finalizer"}
        /\ stage[p] = "GATE" => Outputs(p) = {"decision"}
    <3>1. /\ stage[p] = "WRITE" /\ kind = "TRADE_PLAN" => Outputs(p) = {"plan", "final"}
          /\ stage[p] = "WRITE" /\ kind # "TRADE_PLAN" => Outputs(p) = {"draft", "writer"}
      BY <1>2 DEF Outputs
    <3>2. stage[p] = "REVIEW" => Outputs(p) = {"review"}
      BY DEF Outputs
    <3>3. stage[p] = "FINALIZE" => Outputs(p) = {"final", "finalizer"}
      BY DEF Outputs
    <3>4. stage[p] = "GATE" => Outputs(p) = {"decision"}
      BY DEF Outputs
    <3> QED
      BY <3>1, <3>2, <3>3, <3>4
  <2> HIDE DEF old, new
  <2> QED
    BY <2>1, <2>2, <2>3
<1> HIDE DEF old, new
<1>4. /\ Rank(old) < 4 /\ Rank(old) <= Rank(new)
  BY <1>3, RankValues
<1>5. Completed(new) \subseteq Completed(old) \cup Outputs(p)
  BY <1>3, RankValues, CompletedOfRank
<1> QED
  BY <1>4, <1>5 DEF old, new

\* What Rename knows before it moves the next file: nothing it moves is recorded.
LEMMA RenameBegins ==
  ASSUME Typed, RecordInv, NEW p \in Proc, CommandsIdle, pc[p] = "rename"
  PROVE  /\ TrueOfDisk(manifest) /\ Whole(manifest) /\ Held(p)
         /\ \A f \in Outputs(p) :
              /\ mem[p].refs[f] = None /\ manifest.refs[f] = None
              /\ f \in todo[p] => ~There(f)
              /\ f \notin todo[p] => disk[f].by \in {p, Editor}
<1>1. /\ TrueOfDisk(manifest) /\ Whole(manifest) /\ MemInv(p)
  BY Alone DEF Resting
<1>2. Held(p)
  BY <1>1 DEF Held, MemInv, Holding, Prepared
<1> QED
  BY <1>1, <1>2, AbsentUnrecorded, OutputsType DEF MemInv

LEMMA RenameKeepsRecord ==
  ASSUME Typed, RecordInv, NEW p \in Proc, CommandsIdle', Rename(p)
  PROVE  RecordInv' /\ Grows
<1>1. /\ UNCHANGED <<kind, manifest, lockVars, stage, doc>> /\ pc[p] = "rename"
  BY DEF Rename, At
<1>2. /\ todo[p] \subseteq Outputs(p) /\ Outputs(p) \subseteq Files
      /\ doc[p].by = p /\ DueStage(mem[p].status) = stage[p]
  BY <1>1, OutputsType DEF Typed, TypeOK, DocInv, Prepared
<1>3. PICK f \in todo[p] :
        /\ disk' = [disk EXCEPT ![f] = doc[p]]
        /\ todo' = [todo EXCEPT ![p] = @ \ {f}]
        /\ IF LastRename(p, f)
             THEN mem' = [mem EXCEPT ![p] = Committed(p)] /\ Goto(p, "save")
             ELSE UNCHANGED <<mem, pc>>
  BY DEF Rename, Committed
<1>4. /\ pc'[p] = IF LastRename(p, f) THEN "save" ELSE "rename"
      /\ \A q \in Proc \ {p} : pc'[q] = pc[q]
  BY <1>1, <1>3 DEF Goto, Typed, TypeOK
<1>5. CommandsIdle /\ p \notin Commands
  BY <1>1, <1>4, PartiesAssumption DEF CommandsIdle
<1>6. /\ TrueOfDisk(manifest) /\ Whole(manifest) /\ Held(p)
      /\ \A g \in Outputs(p) :
           /\ mem[p].refs[g] = None /\ manifest.refs[g] = None
           /\ g \in todo[p] => ~There(g)
           /\ g \notin todo[p] => disk[g].by \in {p, Editor}
  BY <1>1, <1>5, RenameBegins
<1>7. /\ disk'[f] = doc[p]
      /\ \A g \in Files \ {f} : disk'[g] = disk[g]
      /\ todo'[p] = todo[p] \ {f}
  BY <1>2, <1>3 DEF Typed, TypeOK
<1>8. Grows /\ TrueOfDisk(manifest)' /\ Whole(manifest)'
  BY <1>1, <1>2, <1>6, <1>7, DiskKeepsRecord
<1>9. \A g \in Outputs(p) : g \notin todo'[p] => disk'[g].by \in {p, Editor}
  BY <1>2, <1>6, <1>7
<1>10. MemInv(p)'
  <2>1. CASE ~LastRename(p, f)
    <3>1. mem' = mem /\ pc'[p] = "rename"
      BY <1>3, <1>4, <2>1
    <3>2. TrueOfDisk(mem[p])'
      BY <1>2, <1>6, <1>7, <3>1 DEF Held, TrueOfDisk
    <3>3. Whole(mem[p])'
      BY <1>1, <1>6, <3>1 DEF Held, Whole, Completed
    <3>4. Continues(mem[p], manifest)'
      BY <1>1, <1>6, <3>1 DEF Held, Continues
    <3>5. Outputs(p)' = Outputs(p)
      BY <1>1, OutputsStay
    <3>6. \A g \in Outputs(p) : g \in todo'[p] => ~There(g)'
      BY <1>2, <1>6, <1>7 DEF There
    <3>7. \A g \in Outputs(p)' :
            /\ mem'[p].refs[g] = None
            /\ g \in todo'[p] => ~There(g)'
            /\ g \notin todo'[p] => disk'[g].by \in {p, Editor}
      BY <1>6, <1>9, <3>1, <3>5, <3>6
    <3> QED
      BY <3>1, <3>2, <3>3, <3>4, <3>7 DEF MemInv
  <2>2. CASE LastRename(p, f)
    <3>1. mem'[p] = Committed(p) /\ pc'[p] = "save"
      BY <1>3, <1>4, <2>2 DEF Typed, TypeOK
    <3>2. /\ mem'[p].status = NewStatus(p)
          /\ \A g \in Files : mem'[p].refs[g] =
               IF g \in Outputs(p) THEN p ELSE mem[p].refs[g]
      BY <3>1, CommittedType DEF Typed
    <3>3. TrueOfDisk(mem[p])'
      <4>1. \A g \in Outputs(p) : disk'[g].by \in {p, Editor}
        BY <1>7, <1>9, <2>2 DEF LastRename
      <4>2. \A g \in Files \ Outputs(p) : disk'[g] = disk[g]
        BY <1>2, <1>7
      <4> QED
        BY <1>6, <3>2, <4>1, <4>2 DEF Held, TrueOfDisk
    <3>4. Whole(mem[p])'
      <4>1. Completed(mem[p].status)' = Completed(NewStatus(p))
        BY <1>1, <3>2 DEF Completed
      <4>2. Completed(NewStatus(p)) \subseteq Completed(mem[p].status) \cup Outputs(p)
        BY <1>2, <1>5, StageCompletes
      <4>3. Completed(NewStatus(p)) \subseteq Files
        BY CompletedOfRank
      <4>4. p # None
        BY PartiesAssumption
      <4> QED
        BY <1>6, <3>2, <4>1, <4>2, <4>3, <4>4 DEF Held, Whole
    <3>5. Continues(mem[p], manifest)'
      <4>1. /\ Rank(mem[p].status) < 4 /\ Rank(mem[p].status) <= Rank(NewStatus(p))
            /\ mem[p].status \in Statuses /\ manifest.status \in Statuses
            /\ NewStatus(p) \in Statuses
        <5>1. Committed(p) \in Manifest /\ Committed(p).status = NewStatus(p)
          BY CommittedType DEF Typed
        <5>2. mem[p] \in Manifest /\ manifest \in Manifest
          BY DEF Typed, TypeOK
        <5> QED
          BY <1>2, <1>5, <5>1, <5>2, StageCompletes DEF Manifest
      <4>2. Rank(manifest.status) <= Rank(mem[p].status)
        BY <1>6 DEF Held, Continues
      <4>3. /\ Rank(manifest.status) <= Rank(NewStatus(p))
            /\ Rank(manifest.status) # 4
        BY <4>1, <4>2, RankType
      <4>4. \A g \in Files : manifest.refs[g] # None => mem'[p].refs[g] = manifest.refs[g]
        BY <1>6, <3>2 DEF Held, Continues
      <4> QED
        BY <1>1, <3>2, <4>3, <4>4 DEF Continues
    <3> QED
      BY <3>1, <3>3, <3>4, <3>5 DEF MemInv
  <2> QED
    BY <2>1, <2>2
<1> QED
  BY <1>1, <1>4, <1>5, <1>8, <1>10, RecordOfOne DEF MyRecord, Resting

\* What is rolled back was never recorded.
LEMMA RaiseKeepsRecord ==
  ASSUME Typed, RecordInv, NEW p \in Proc, CommandsIdle', Raise(p)
  PROVE  RecordInv' /\ Grows
<1>1. /\ UNCHANGED <<kind, manifest, lockVars>> /\ Goto(p, "release")
      /\ pc[p] \notin {"idle", "release", "done"}
      /\ \A f \in Files : disk'[f] =
           IF pc[p] = "rename" /\ f \in Outputs(p) \ todo[p] THEN NoDoc ELSE disk[f]
  BY DEF Raise
<1>2. CommandsIdle
  BY <1>1, CommandsStayIdle DEF PcValues
<1>3. pc'[p] = "release" /\ \A q \in Proc \ {p} : pc'[q] = pc[q]
  BY <1>1 DEF Goto, Typed, TypeOK
<1>4. TrueOfDisk(manifest) /\ Whole(manifest)
  BY <1>1, <1>2, Alone DEF Resting
<1>5. \A f \in Files : manifest.refs[f] # None => disk'[f] = disk[f]
  <2>1. CASE pc[p] = "rename"
    BY <1>1, <1>2, <2>1, RenameBegins
  <2>2. CASE pc[p] # "rename"
    BY <1>1, <2>2
  <2> QED
    BY <2>1, <2>2
<1>6. Grows /\ TrueOfDisk(manifest)' /\ Whole(manifest)'
  BY <1>1, <1>4, <1>5, DiskKeepsRecord
<1>7. MemInv(p)'
  BY <1>3 DEF MemInv, Holding, Prepared
<1> QED
  BY <1>1, <1>2, <1>3, <1>6, <1>7, RecordOfOne DEF MyRecord, Resting

\* A lock is taken away from the dead only; nobody alive works then.
LEMMA RemovalKeepsRecord ==
  ASSUME Typed, RecordInv, CommandsIdle', OperatorRemovesLock
  PROVE  RecordInv' /\ Grows
<1>1. UNCHANGED <<kind, disk, manifest, localVars, dead>> /\ lockFile \in dead
  BY DEF OperatorRemovesLock, HumanRemovesLock, runVars
<1>2. CommandsIdle
  BY <1>1 DEF CommandsIdle, localVars
<1>3. Grows /\ TrueOfDisk(manifest)' /\ Whole(manifest)'
  BY <1>1, <1>2, RecordStays DEF RecordInv
<1>4. \A q \in Pipelines : pc'[q] \in Resting
  BY <1>1, <1>2 DEF RecordInv, LockInv, localVars
<1> QED
  BY <1>3, <1>4 DEF RecordInv, LockInv, MemInv, Resting, Holding, Prepared

\* An edited file is there as before, under another name.
LEMMA EditKeepsRecord ==
  ASSUME Typed, RecordInv, CommandsIdle', Edit
  PROVE  RecordInv'
<1>1. UNCHANGED <<kind, manifest, lockVars, localVars>>
  BY DEF Edit
<1>2. \A f \in Files : /\ There(f)' <=> There(f)
                       /\ disk'[f].by \in {disk[f].by, Editor}
  <2>1. PICK g \in Files : \E v \in {disk[g].verdict, "PASS", "APPROVED"} :
          There(g) /\ disk' = [disk EXCEPT ![g].by = Editor, ![g].verdict = v]
    BY DEF Edit
  <2>2. PICK v : disk' = [disk EXCEPT ![g].by = Editor, ![g].verdict = v]
    BY <2>1
  <2>3. disk[g] \in Doc
    BY <2>1, AbsentFile DEF Typed
  <2>4. disk'[g].by = Editor /\ \A f \in Files \ {g} : disk'[f] = disk[f]
    BY <2>2, <2>3 DEF Typed, TypeOK, Doc
  <2>5. disk'[g] # NoDoc
    BY <2>4, PartiesAssumption DEF NoDoc
  <2> QED
    BY <2>1, <2>4, <2>5 DEF There
<1>3. CommandsIdle
  BY <1>1 DEF CommandsIdle, localVars
<1>4. LockInv'
  BY <1>1, <1>3 DEF RecordInv, LockInv, lockVars, localVars
<1>5. ASSUME NEW m, TrueOfDisk(m)
      PROVE  \A f \in Files : m.refs[f] # None => disk'[f].by \in {m.refs[f], Editor}
  BY <1>2, <1>5 DEF TrueOfDisk
<1>6. TrueOfDisk(manifest)' /\ Whole(manifest)'
  <2>1. TrueOfDisk(manifest) /\ Whole(manifest)
    BY <1>3 DEF RecordInv
  <2>2. TrueOfDisk(manifest)'
    BY <1>1, <1>5, <2>1 DEF TrueOfDisk
  <2> QED
    BY <1>1, <2>1, <2>2 DEF Whole, Completed
<1>7. ASSUME NEW q \in Pipelines
      PROVE  MemInv(q)'
  <2>1. /\ pc' = pc /\ mem' = mem /\ todo' = todo /\ Outputs(q)' = Outputs(q)
    BY <1>1, OutputsStay DEF localVars
  <2>2. MemInv(q)
    BY <1>3 DEF RecordInv
  <2>3. (pc[q] \in Holding =>
           TrueOfDisk(mem[q]) /\ Whole(mem[q]) /\ Continues(mem[q], manifest))'
    <3>1. TrueOfDisk(mem[q]) => TrueOfDisk(mem[q])'
      BY <1>5, <2>1 DEF TrueOfDisk
    <3>2. Whole(mem[q]) => Whole(mem[q])'
      BY <1>1, <2>1 DEF Whole, Completed
    <3>3. Continues(mem[q], manifest) => Continues(mem[q], manifest)'
      BY <1>1, <2>1 DEF Continues
    <3> QED
      BY <2>1, <2>2, <3>1, <3>2, <3>3 DEF MemInv
  <2>4. (pc[q] = "capture" => ~There("snapshot"))'
    <3>1. "snapshot" \in Files
      BY DEF Files
    <3> QED
      BY <1>2, <2>1, <2>2, <3>1 DEF MemInv
  <2>5. (pc[q] = "rename" => \A f \in Outputs(q) :
           /\ mem[q].refs[f] = None
           /\ f \in todo[q] => ~There(f)
           /\ f \notin todo[q] => disk[f].by \in {q, Editor})'
    <3> SUFFICES ASSUME pc[q] = "rename", NEW f \in Outputs(q)
                 PROVE  /\ mem[q].refs[f] = None
                        /\ f \in todo[q] => ~There(f)'
                        /\ f \notin todo[q] => disk'[f].by \in {q, Editor}
      BY <2>1
    <3>1. f \in Files
      BY OutputsType, PartiesAssumption
    <3> QED
      BY <1>2, <2>2, <3>1 DEF MemInv
  <2> QED
    BY <2>3, <2>4, <2>5 DEF MemInv
<1> QED
  BY <1>4, <1>6, <1>7 DEF RecordInv

LEMMA NextKeepsRecord ==
  ASSUME Typed, RecordInv, [Next]_vars
  PROVE  RecordInv' /\ (Orchestrated' => Grows)
<1>1. CASE ~CommandsIdle'
  BY <1>1 DEF RecordInv, Orchestrated, CommandsIdle
<1>2. CASE CommandsIdle' /\ UNCHANGED vars
  <2>1. /\ UNCHANGED <<kind, disk, manifest, lockVars, pc, mem, todo, stage>>
        /\ CommandsIdle
    BY <1>2 DEF vars, runVars, localVars, CommandsIdle
  <2>2. Grows /\ TrueOfDisk(manifest)' /\ Whole(manifest)'
    BY <2>1, RecordStays DEF RecordInv
  <2>3. LockInv'
    BY <2>1 DEF RecordInv, LockInv, lockVars
  <2>4. ASSUME NEW q \in Pipelines
        PROVE  MemInv(q)'
    <3>1. MemInv(q) /\ Outputs(q)' = Outputs(q)
      BY <2>1, OutputsStay DEF RecordInv
    <3>2. /\ TrueOfDisk(mem[q])' = TrueOfDisk(mem[q])
          /\ Whole(mem[q])' = Whole(mem[q])
          /\ Continues(mem[q], manifest)' = Continues(mem[q], manifest)
      BY <2>1 DEF TrueOfDisk, Whole, Completed, Continues
    <3> QED
      BY <2>1, <3>1, <3>2 DEF MemInv, There
  <2> QED
    BY <2>2, <2>3, <2>4 DEF RecordInv
<1>3. ASSUME CommandsIdle', NEW p \in Proc,
             StartPipeline(p) \/ StartCommand(p) \/ Step(p) \/ Raise(p) \/ Crash(p)
      PROVE  RecordInv' /\ Grows
  <2>1. CASE StartCommand(p)
    <3>1. pc'[p] = "load" /\ p \in Commands
      BY <2>1 DEF StartCommand, Goto, Typed, TypeOK
    <3> QED
      BY <1>3, <3>1 DEF CommandsIdle
  <2>2. CASE ~StartCommand(p)
    BY <1>3, <2>2, StartKeepsRecord, ReadersKeepRecord, AskersKeepRecord,
       SavesKeepRecord, CaptureKeepsRecord, RenameKeepsRecord, RaiseKeepsRecord DEF Step
  <2> QED
    BY <2>1, <2>2
<1>4. CASE CommandsIdle' /\ OperatorRemovesLock
  BY <1>4, RemovalKeepsRecord
<1>5. CASE CommandsIdle' /\ Edit
  <2>1. \E f \in Files : disk'[f].by = Editor
    <3>1. PICK g \in Files : \E v \in {disk[g].verdict, "PASS", "APPROVED"} :
            There(g) /\ disk' = [disk EXCEPT ![g].by = Editor, ![g].verdict = v]
      BY <1>5 DEF Edit
    <3>2. PICK v : disk' = [disk EXCEPT ![g].by = Editor, ![g].verdict = v]
      BY <3>1
    <3>3. disk[g] \in Doc
      BY <3>1, AbsentFile DEF Typed
    <3> QED
      BY <3>2, <3>3 DEF Typed, TypeOK, Doc
  <2>2. ~Orchestrated'
    BY <2>1 DEF Orchestrated
  <2> QED
    BY <1>5, <2>2, EditKeepsRecord
<1> QED
  BY <1>1, <1>2, <1>3, <1>4, <1>5 DEF Next

LEMMA InitRecord == Init => RecordInv
<1> SUFFICES ASSUME Init PROVE RecordInv
  OBVIOUS
<1>1. manifest.status = "NORMALIZED" /\ \A f \in Files : manifest.refs[f] = None
  BY DEF Init, Created, Empty
<1>2. Completed(manifest.status) = {}
  BY <1>1, RankValues, CompletedOfRank
<1>3. TrueOfDisk(manifest) /\ Whole(manifest)
  BY <1>1, <1>2 DEF TrueOfDisk, Whole
<1>4. \A p \in Pipelines : pc[p] = "idle"
  BY PartiesAssumption DEF Init
<1> QED
  BY <1>3, <1>4 DEF RecordInv, LockInv, MemInv, Resting, Holding, Prepared

LEMMA InvStep == ASSUME Inv, [Next]_vars PROVE Inv' /\ (Orchestrated' => Grows)
BY NextTyped, NextKeepsRecord DEF Inv, Typed

LEMMA AlwaysInv == Spec => []Inv
<1>1. Init => Inv
  BY InitTyped, InitRecord DEF Inv, Typed
<1>2. Inv /\ [Next]_vars => Inv'
  BY InvStep
<1> QED
  BY <1>1, <1>2, PTL DEF Spec

\* As long as every invocation is orchestrated, what the manifest records is on
\* disk as recorded, and every stage its status has passed is recorded
\* (storage/run_store.py, services/orchestrator.py).
THEOREM RecordIsTrue == Spec => []ManifestIsTrue
<1>1. ASSUME Inv, Orchestrated
      PROVE  /\ \A f \in Files : manifest.refs[f] # None => Verified(manifest, f)
             /\ \A f \in Completed(manifest.status) : manifest.refs[f] # None
  <2>1. TrueOfDisk(manifest) /\ Whole(manifest)
    BY <1>1 DEF Inv, RecordInv, Orchestrated, CommandsIdle
  <2>2. ASSUME NEW f \in Files, manifest.refs[f] # None
        PROVE  Verified(manifest, f)
    <3>1. disk[f].by = manifest.refs[f]
      BY <1>1, <2>1, <2>2 DEF TrueOfDisk, Orchestrated
    <3>2. There(f)
      BY <1>1, <2>2, <3>1, AbsentFile DEF Inv
    <3> QED
      BY <3>1, <3>2 DEF Verified
  <2> QED
    BY <2>1, <2>2 DEF Whole
<1>2. Inv => ManifestIsTrue
  BY <1>1 DEF ManifestIsTrue
<1> QED
  BY <1>2, AlwaysInv, PTL

\* Under the same condition no invocation, failure, roll-back or death takes a
\* status back, changes a decision, or touches a file the manifest records.
THEOREM RecordOnlyAdds == Spec => RecordOnlyGrows
<1>1. ASSUME Inv, [Next]_vars, Orchestrated'
      PROVE  /\ Rank(manifest.status) <= Rank(manifest'.status)
             /\ Rank(manifest.status) = 4 => manifest'.status = manifest.status
             /\ \A f \in Files : manifest.refs[f] # None => disk'[f] = disk[f]
  BY <1>1, InvStep DEF Grows, Continues
<1>2. Inv /\ [Next]_vars =>
        [Orchestrated' =>
           /\ Rank(manifest.status) <= Rank(manifest'.status)
           /\ Rank(manifest.status) = 4 => manifest'.status = manifest.status
           /\ \A f \in Files : manifest.refs[f] # None => disk'[f] = disk[f]]_vars
  BY <1>1
<1> QED
  BY <1>2, AlwaysInv, PTL DEF Spec, RecordOnlyGrows

-----------------------------------------------------------------------------
(***************************************************************************)
(* What an approval says, with stage commands and hands at work            *)
(***************************************************************************)

\* The files that one stage makes and a later one reads.
Handed == {"draft", "writer", "review", "plan", "final", "finalizer"}
Article == {"draft", "writer", "review", "final", "finalizer"}

Recorded(m) == {f \in Handed : m.refs[f] # None}

\* The files of an article's stages up to a status.
PassedOn(status) ==
  CASE status = "NORMALIZED" -> {}
    [] status = "DRAFTED"    -> {"draft", "writer"}
    [] status = "REVIEWED"   -> {"draft", "writer", "review"}
    [] OTHER                 -> Article

\* A manifest records an article stage by stage, or a plan and its page at once;
\* the files of a stage have one writer, and it is no hand.
Shape(m) ==
  /\ \A f \in Files : m.refs[f] # Editor
  /\ \/ /\ Recorded(m) = PassedOn(m.status)
        /\ m.refs["draft"] = m.refs["writer"]
        /\ m.refs["final"] = m.refs["finalizer"]
     \/ /\ m.status \in {"FINALIZED", "READY_TO_PUBLISH", "PUBLISH_BLOCKED"}
        /\ Recorded(m) = {"plan", "final"}
        /\ m.refs["final"] = m.refs["plan"]

Shapes == Shape(manifest) /\ \A p \in Proc : Shape(mem[p])

\* Where an invocation stands in a stage, and what a reviewer said.
InStage(p) ==
  /\ pc[p] \in {"announce", "snapshot", "capture", "provider"} => stage[p] # "GATE"
  /\ pc[p] \in {"verify", "judge", "sign"} => stage[p] = "GATE"
  /\ pc[p] = "sign" => Route(p) = "TRADE_PLAN"
  /\ pc[p] \in {"check", "rename"} /\ stage[p] = "REVIEW" =>
       doc[p].verdict \in {"PASS", "REJECT"}

\* The files an invocation at work in a stage has not put in place yet.
ToWrite(p) ==
  IF pc[p] = "rename" THEN todo[p]
  ELSE IF pc[p] \in Prepared THEN Outputs(p) ELSE {}

\* What it has not written is not on disk as its own.
Unwritten == \A p \in Proc : \A f \in ToWrite(p) : disk[f].by # p

\* A review has a verdict, unless a hand gave it another.
Judged ==
  disk["review"].by \in Proc => disk["review"].verdict \in {"PASS", "REJECT"}

Working ==
  LockInv /\ Shapes /\ (\A p \in Proc : InStage(p)) /\ Unwritten /\ Judged

ChainOf(N) == {f \in Files : N[f] # None}

\* The digests a gate verifies, or an approval names: of a plan and its page, or
\* of an article.
Named(N) ==
  \/ N["review"] = None /\ ChainOf(N) \subseteq {"plan", "final"}
  \/ /\ \A f \in Files : N[f] \in Proc \cup {None}
     /\ ChainOf(N) = Article /\ N["draft"] = N["writer"] /\ N["final"] = N["finalizer"]

Spoken(N) ==
  N["review"] # None => There("review") /\ "review" \notin ToWrite(N["review"])

Finalizing(N) ==
  /\ N["review"] # None
  /\ disk["review"].by = N["review"]
  /\ "finalizer" \in ToWrite(N["finalizer"])
  => /\ doc[N["finalizer"]].basis["review"] = N["review"]
     /\ \A f \in {"draft", "writer"} :
          doc[N["finalizer"]].basis[f] = disk["review"].basis[f]

Fitting(N) ==
  N["review"] # None /\ disk["review"].by = N["review"] =>
    /\ disk["review"].verdict = "PASS"
    /\ \A f \in {"draft", "writer"} : disk["review"].basis[f] = N[f]
    /\ disk["finalizer"].by = N["finalizer"] =>
         \A f \in {"draft", "writer", "review"} : disk["finalizer"].basis[f] = N[f]

Evident(N) == Named(N) /\ Spoken(N) /\ Finalizing(N)

\* If an orchestrated stage wrote this page, it wrote the plan on disk.
Page(n) == n \in Pipelines => disk["plan"].by \in {n, Editor}

\* What an approval may name.
Approvable(N) ==
  /\ Evident(N) /\ Fitting(N)
  /\ N["review"] = None => ChainOf(N) \subseteq {"final"} /\ Page(N["final"])

\* A gate between its two readings.
JudgingInv(p) ==
  pc[p] = "judge" =>
    /\ Evident(doc[p].basis)
    /\ doc[p].basis["review"] = None <=> Route(p) = "TRADE_PLAN"

\* The gate of a plan, until it has read the page for the last time.
Signing(p) ==
  /\ Route(p) = "TRADE_PLAN"
  /\ pc[p] = "judge" \/ (pc[p] = "sign" /\ doc[p].verdict = "APPROVED")

\* A gate about to commit an approval.
Approving(p) ==
  pc[p] \in {"check", "rename"} /\ stage[p] = "GATE" /\ doc[p].verdict = "APPROVED"

ApprovingInv(p) ==
  Approving(p) =>
    /\ Approvable(doc[p].basis)
    /\ doc[p].basis["review"] = None => p \in Pipelines

\* The decision on disk.
Approved == disk["decision"].verdict = "APPROVED" /\ disk["decision"].by # Editor

DecisionInv == Approved => Approvable(disk["decision"].basis)

\* A stage about to put a plan in place: there is none yet, and no approval
\* vouches for one.
Planning(p) == pc[p] = "rename" /\ "plan" \in Outputs(p)

PlanningInv(p) ==
  Planning(p) =>
    /\ "plan" \in todo[p] => ~There("plan")
    /\ Approved /\ disk["decision"].basis["review"] = None =>
         disk["decision"].basis["final"] \notin Pipelines

ApprovalInv ==
  /\ \A p \in Proc :
       /\ JudgingInv(p) /\ ApprovingInv(p) /\ PlanningInv(p)
       /\ Signing(p) => Page(disk["final"].by)
  /\ DecisionInv

Acts(p) ==
  StartPipeline(p) \/ StartCommand(p) \/ Step(p) \/ Raise(p) \/ Crash(p)

-----------------------------------------------------------------------------
(* Stages and their files *)

LEMMA FilesOfStages ==
  ASSUME Typed, NEW p \in Proc
  PROVE  /\ "review" \in Outputs(p) => stage[p] = "REVIEW" /\ Outputs(p) = {"review"}
         /\ "finalizer" \in Outputs(p) =>
              stage[p] = "FINALIZE" /\ Outputs(p) = {"final", "finalizer"}
         /\ "decision" \in Outputs(p) => stage[p] = "GATE" /\ Outputs(p) = {"decision"}
         /\ stage[p] = "GATE" => Outputs(p) = {"decision"}
<1>1. stage[p] \in Stages
  BY DEF Typed, TypeOK
<1> QED
  BY <1>1 DEF Outputs, Stages

LEMMA ToWriteType ==
  ASSUME Typed, NEW p \in Proc
  PROVE  ToWrite(p) \subseteq Outputs(p) /\ ToWrite(p) \subseteq Files
BY OutputsType DEF Typed, TypeOK, ToWrite

\* An invocation's step leaves everybody else's memory alone.
LEMMA ActsAlone ==
  ASSUME Typed, NEW p \in Proc, Acts(p)
  PROVE  OthersStay(p) /\ kind' = kind
<1> USE DEF Typed, TypeOK
<1>1. CASE StartPipeline(p) \/ StartCommand(p) \/ Drive(p) \/ CheckVerdict(p) \/ Load(p)
  BY <1>1 DEF StartPipeline, StartCommand, Drive, CheckVerdict, Load, Goto, OthersStay,
     runVars
<1>2. CASE Finish(p) \/ Crash(p)
  BY <1>2, ForgetType DEF Finish, Crash, Goto, OthersStay, runVars
<1>3. CASE Require(p) \/ EnsureSnapshot(p)
  BY <1>3, FailType DEF Require, EnsureSnapshot, Fail, Goto, OthersStay, runVars
<1>4. CASE Announce(p) \/ VerifyEvidence(p) \/ CheckAbsent(p)
  BY <1>4 DEF Announce, VerifyEvidence, CheckAbsent, Goto, OthersStay, runVars
<1>5. CASE Judge(p) \/ Sign(p)
  BY <1>5 DEF Judge, Sign, Goto, OthersStay, runVars
<1>6. CASE Capture(p)
  <2>1. /\ mem' = mem \/ mem' = [mem EXCEPT ![p].refs["snapshot"] = p]
        /\ \E l \in PcValues : Goto(p, l)
    BY <1>6 DEF Capture, Fail, PcValues
  <2> QED
    BY <1>6, <2>1 DEF Capture, Goto, OthersStay
<1>7. CASE CallProvider(p)
  <2>1. /\ doc' = doc \/ \E v : doc' = [doc EXCEPT ![p].verdict = v]
        /\ \E l \in PcValues : Goto(p, l)
    BY <1>7 DEF CallProvider, Fail, PcValues
  <2> QED
    BY <1>7, <2>1 DEF CallProvider, Goto, OthersStay, runVars
<1>8. CASE Rename(p)
  BY <1>8 DEF Rename, Goto, OthersStay
<1>9. CASE Save(p) \/ SaveEvent(p) \/ LoadEvent(p) \/ Raise(p)
  BY <1>9 DEF Save, SaveEvent, LoadEvent, Raise, Goto, OthersStay, runVars
<1> QED
  BY <1>1, <1>2, <1>3, <1>4, <1>5, <1>6, <1>7, <1>8, <1>9 DEF Acts, Step

-----------------------------------------------------------------------------
(* Manifests *)

LEMMA ShapeOfCreated == Shape(Created)
BY PartiesAssumption DEF Shape, Created, Empty, Recorded, PassedOn, Handed, Files

LEMMA ShapeWithSnapshot ==
  ASSUME NEW m \in Manifest, Shape(m), NEW p \in Proc
  PROVE  Shape([m EXCEPT !.refs["snapshot"] = p])
<1> DEFINE n == [m EXCEPT !.refs["snapshot"] = p]
<1>1. /\ n.status = m.status
      /\ \A f \in Files : n.refs[f] = IF f = "snapshot" THEN p ELSE m.refs[f]
  BY DEF Manifest
<1>2. Handed \subseteq Files \ {"snapshot"}
  BY DEF Handed, Files
<1>3. Recorded(n) = Recorded(m)
  BY <1>1, <1>2 DEF Recorded
<1>4. \A f \in Handed : n.refs[f] = m.refs[f]
  BY <1>1, <1>2
<1>5. \A f \in Files : n.refs[f] # Editor
  BY <1>1, PartiesAssumption DEF Shape
<1> SUFFICES Shape(n)
  OBVIOUS
<1> HIDE DEF n
<1> QED
  BY <1>1, <1>3, <1>4, <1>5 DEF Shape, Handed

\* A stage that is due adds the files the next status stands for.
LEMMA ShapeCommitted ==
  ASSUME Typed, NEW p \in Proc, Shape(mem[p]), DueStage(mem[p].status) = stage[p]
  PROVE  Shape(Committed(p))
<1> DEFINE m == mem[p]
           n == Committed(p)
<1>1. /\ n.status = NewStatus(p)
      /\ \A f \in Files : n.refs[f] = IF f \in Outputs(p) THEN p ELSE m.refs[f]
  BY CommittedType DEF Typed
<1>2. \A f \in Files : n.refs[f] # Editor
  BY <1>1, PartiesAssumption DEF Shape
<1>3. Handed \subseteq Files /\ p # None
  BY PartiesAssumption DEF Handed, Files
<1>4. Recorded(n) = Recorded(m) \cup (Handed \cap Outputs(p))
  BY <1>1, <1>3 DEF Recorded
<1>5. m.status \in Statuses
  BY DEF Typed, TypeOK, Manifest
<1> SUFFICES Shape(n)
  OBVIOUS
<1> HIDE DEF n
<1>6. CASE stage[p] = "WRITE"
  <2>1. m.status = "NORMALIZED" /\ Recorded(m) = {}
    BY <1>5, <1>6 DEF DueStage, Statuses, Shape, PassedOn
  <2>2. CASE Route(p) = "TRADE_PLAN"
    <3>1. Outputs(p) = {"plan", "final"} /\ n.status = "FINALIZED"
      BY <1>1, <1>6, <2>2 DEF Outputs, NewStatus
    <3>2. Recorded(n) = {"plan", "final"} /\ n.refs["final"] = n.refs["plan"]
      BY <1>1, <1>4, <2>1, <3>1 DEF Handed, Files
    <3> QED
      BY <1>2, <3>1, <3>2 DEF Shape
  <2>3. CASE Route(p) # "TRADE_PLAN"
    <3>1. Outputs(p) = {"draft", "writer"} /\ n.status = "DRAFTED"
      BY <1>1, <1>6, <2>3 DEF Outputs, NewStatus
    <3>2. /\ Recorded(n) = {"draft", "writer"}
          /\ n.refs["draft"] = n.refs["writer"]
          /\ n.refs["final"] = None /\ n.refs["finalizer"] = None
      BY <1>1, <1>4, <2>1, <3>1 DEF Handed, Files, Recorded
    <3> QED
      BY <1>2, <3>1, <3>2 DEF Shape, PassedOn
  <2> QED
    BY <2>2, <2>3
<1>7. CASE stage[p] = "REVIEW"
  <2>1. /\ m.status = "DRAFTED" /\ Recorded(m) = {"draft", "writer"}
        /\ m.refs["draft"] = m.refs["writer"]
    BY <1>5, <1>7 DEF DueStage, Statuses, Shape, PassedOn
  <2>2. Outputs(p) = {"review"} /\ n.status = "REVIEWED"
    BY <1>1, <1>7 DEF Outputs, NewStatus
  <2>3. /\ Recorded(n) = {"draft", "writer", "review"}
        /\ n.refs["draft"] = n.refs["writer"]
        /\ n.refs["final"] = None /\ n.refs["finalizer"] = None
    BY <1>1, <1>4, <2>1, <2>2 DEF Handed, Files, Recorded
  <2> QED
    BY <1>2, <2>2, <2>3 DEF Shape, PassedOn
<1>8. CASE stage[p] = "FINALIZE"
  <2>1. /\ m.status = "REVIEWED" /\ Recorded(m) = {"draft", "writer", "review"}
        /\ m.refs["draft"] = m.refs["writer"]
    BY <1>5, <1>8 DEF DueStage, Statuses, Shape, PassedOn
  <2>2. Outputs(p) = {"final", "finalizer"} /\ n.status = "FINALIZED"
    BY <1>1, <1>8 DEF Outputs, NewStatus
  <2>3. /\ Recorded(n) = Article
        /\ n.refs["draft"] = n.refs["writer"]
        /\ n.refs["final"] = n.refs["finalizer"]
    BY <1>1, <1>4, <2>1, <2>2 DEF Handed, Files, Article
  <2> QED
    BY <1>2, <2>2, <2>3 DEF Shape, PassedOn
<1>9. CASE stage[p] = "GATE"
  <2>1. m.status = "FINALIZED"
    BY <1>5, <1>9 DEF DueStage, Statuses
  <2>2. Outputs(p) = {"decision"} /\ n.status \in {"READY_TO_PUBLISH", "PUBLISH_BLOCKED"}
    BY <1>1, <1>9 DEF Outputs, NewStatus
  <2>3. Recorded(n) = Recorded(m) /\ \A f \in Handed : n.refs[f] = m.refs[f]
    BY <1>1, <1>3, <1>4, <2>2 DEF Handed
  <2>4. PassedOn(n.status) = PassedOn(m.status)
    BY <2>1, <2>2 DEF PassedOn
  <2> QED
    BY <1>2, <2>1, <2>2, <2>3, <2>4 DEF Shape, Handed
<1> QED
  BY <1>6, <1>7, <1>8, <1>9 DEF Typed, TypeOK, Stages

LEMMA ShapesStay ==
  ASSUME Typed, Shapes, [Next]_vars
  PROVE  Shapes'
<1>1. CASE UNCHANGED <<manifest, mem>>
  BY <1>1 DEF Shapes, Shape, Recorded
<1>2. ASSUME NEW p \in Proc, Acts(p), mem' \in [Proc -> Manifest],
             Shape(mem'[p]), Shape(manifest')
      PROVE  Shapes'
  <2>1. \A q \in Proc \ {p} : mem'[q] = mem[q]
    BY <1>2, ActsAlone DEF OthersStay
  <2>2. \A q \in Proc : Shape(mem'[q])
    BY <1>2, <2>1 DEF Shapes
  <2> QED
    BY <1>2, <2>2 DEF Shapes, Shape, Recorded
<1>3. ASSUME NEW p \in Proc, Acts(p)
      PROVE  Shapes'
  <2> USE DEF Typed, TypeOK
  <2>1. mem' \in [Proc -> Manifest]
    <3>1. Typed'
      BY <1>3, NextTyped DEF Acts, Next
    <3> QED
      BY <3>1
  <2>2. CASE mem' = [mem EXCEPT ![p] = manifest] /\ manifest' = manifest
    BY <1>2, <1>3, <2>1, <2>2 DEF Shapes
  <2>3. CASE mem' = [mem EXCEPT ![p] = Created] /\ manifest' \in {manifest, mem[p]}
    BY <1>2, <1>3, <2>1, <2>3, ShapeOfCreated DEF Shapes
  <2>4. CASE mem' = mem /\ manifest' = mem[p]
    BY <1>2, <1>3, <2>1, <2>4 DEF Shapes
  <2>5. CASE Capture(p)
    <3>1. CASE mem' = [mem EXCEPT ![p].refs["snapshot"] = p]
      <4>1. mem'[p] = [mem[p] EXCEPT !.refs["snapshot"] = p]
        BY <3>1
      <4>2. Shape(mem'[p])
        BY <4>1, ShapeWithSnapshot DEF Shapes
      <4> QED
        BY <1>2, <1>3, <2>1, <2>5, <4>2 DEF Capture, Shapes
    <3>2. CASE mem' = mem
      BY <1>1, <2>5, <3>2 DEF Capture
    <3> QED
      BY <2>5, <3>1, <3>2 DEF Capture
  <2>6. CASE Rename(p)
    <3>1. CASE mem' = [mem EXCEPT ![p] = Committed(p)]
      <4>1. DueStage(mem[p].status) = stage[p]
        BY <2>6 DEF Rename, At, DocInv, Prepared
      <4>2. Shape(mem'[p])
        BY <3>1, <4>1, ShapeCommitted DEF Shapes
      <4> QED
        BY <1>2, <1>3, <2>1, <2>6, <4>2 DEF Rename, Shapes
    <3>2. CASE mem' = mem
      BY <1>1, <2>6, <3>2 DEF Rename
    <3> QED
      BY <2>6, <3>1, <3>2 DEF Rename, Committed
  <2>7. CASE LoadEvent(p) \/ Load(p)
    BY <2>2, <2>7 DEF LoadEvent, Load, runVars
  <2>8. CASE SaveEvent(p) \/ Finish(p) \/ Crash(p)
    BY <2>3, <2>8 DEF SaveEvent, Finish, Crash, Forget, runVars
  <2>9. CASE Save(p) \/ Announce(p)
    BY <2>4, <2>9 DEF Save, Announce
  <2>10. CASE StartPipeline(p) \/ StartCommand(p) \/ Drive(p) \/ CheckVerdict(p)
              \/ Require(p) \/ EnsureSnapshot(p) \/ CallProvider(p)
              \/ VerifyEvidence(p) \/ Judge(p) \/ Sign(p) \/ CheckAbsent(p) \/ Raise(p)
    BY <1>1, <2>10 DEF StartPipeline, StartCommand, Drive, CheckVerdict, Require,
       EnsureSnapshot, CallProvider, VerifyEvidence, Judge, Sign, CheckAbsent, Raise, runVars
  <2> QED
    BY <1>3, <2>5, <2>6, <2>7, <2>8, <2>9, <2>10 DEF Acts, Step
<1>4. CASE OperatorRemovesLock \/ Edit
  BY <1>1, <1>4 DEF OperatorRemovesLock, Edit, runVars, localVars
<1> QED
  BY <1>1, <1>3, <1>4 DEF Next, Acts, vars, runVars, localVars

-----------------------------------------------------------------------------
(* Invocations at work *)

\* The steps that leave a stage, or are outside of one.
Elsewhere(p) ==
  \/ StartPipeline(p) \/ StartCommand(p) \/ Drive(p) \/ CheckVerdict(p) \/ Load(p)
  \/ LoadEvent(p) \/ SaveEvent(p) \/ Save(p) \/ Finish(p) \/ Raise(p) \/ Crash(p)

LEMMA ElsewhereUnprepared ==
  ASSUME Typed, NEW p \in Proc, Elsewhere(p)
  PROVE  pc'[p] \notin Prepared
<1> USE DEF Typed, TypeOK, Goto, Prepared
<1>1. CASE StartPipeline(p) \/ StartCommand(p) \/ Drive(p) \/ CheckVerdict(p) \/ Load(p)
  BY <1>1 DEF StartPipeline, StartCommand, Drive, CheckVerdict, Load
<1>2. CASE LoadEvent(p) \/ SaveEvent(p) \/ Save(p)
  BY <1>2 DEF LoadEvent, SaveEvent, Save
<1>3. CASE Finish(p) \/ Raise(p) \/ Crash(p)
  BY <1>3 DEF Finish, Raise, Crash
<1> QED
  BY <1>1, <1>2, <1>3 DEF Elsewhere

LEMMA InStageStays ==
  ASSUME Typed, \A q \in Proc : InStage(q), [Next]_vars
  PROVE  \A q \in Proc : InStage(q)'
<1>1. ASSUME NEW p \in Proc, Acts(p)
      PROVE  InStage(p)'
  <2> USE DEF Typed, TypeOK
  <2>1. CASE Elsewhere(p)
    BY <2>1, ElsewhereUnprepared DEF InStage, Prepared
  <2>2. CASE Require(p)
    <3>1. CASE Goto(p, FirstStep(p))
      <4>1. pc'[p] = FirstStep(p) /\ stage' = stage
        BY <2>2, <3>1 DEF Require, Goto
      <4> QED
        BY <4>1 DEF InStage, FirstStep
    <3>2. CASE Fail(p)
      BY <3>2, FailType DEF InStage
    <3> QED
      BY <2>2, <3>1, <3>2 DEF Require
  <2>3. CASE Announce(p) \/ EnsureSnapshot(p) \/ Capture(p)
    <3>1. /\ pc'[p] \in {"capture", "provider", "release", "save"}
          /\ stage' = stage
          /\ pc[p] \in {"announce", "snapshot", "capture"}
      BY <2>3, FailType DEF Announce, EnsureSnapshot, Capture, Goto, At
    <3> QED
      BY <3>1 DEF InStage
  <2>4. CASE CallProvider(p)
    <3>1. /\ pc'[p] \in {"check", "release", "save"}
          /\ stage' = stage /\ stage[p] # "GATE"
      BY <2>4, FailType DEF CallProvider, Goto, At, InStage
    <3>2. ASSUME pc'[p] = "check", stage[p] = "REVIEW"
          PROVE  doc'[p].verdict \in {"PASS", "REJECT"}
      <4>1. PICK v \in {"PASS", "REJECT"} : doc' = [doc EXCEPT ![p].verdict = v]
        BY <2>4, <3>2, FailType DEF CallProvider
      <4>2. doc[p] \in Doc
        BY <2>4 DEF CallProvider, At, DocInv, Prepared
      <4> QED
        BY <4>1, <4>2 DEF Doc
    <3> QED
      BY <3>1, <3>2 DEF InStage
  <2>5. CASE VerifyEvidence(p) \/ Judge(p) \/ Sign(p)
    <3>1. /\ pc'[p] \in {"judge", AfterJudging(p), "check"}
          /\ stage' = stage /\ stage[p] = "GATE" /\ kind' = kind
      BY <2>5 DEF VerifyEvidence, Judge, Sign, Goto, At, InStage, runVars
    <3>2. /\ pc'[p] \in {"judge", "sign", "check"}
          /\ pc'[p] = "sign" => Route(p)' = "TRADE_PLAN"
      BY <3>1 DEF AfterJudging, Route
    <3> QED
      BY <3>1, <3>2 DEF InStage
  <2>6. CASE CheckAbsent(p) \/ Rename(p)
    <3>1. /\ pc[p] \in {"check", "rename"}
          /\ pc'[p] \in {"release", "rename", "save"}
          /\ stage' = stage /\ doc' = doc
      BY <2>6 DEF CheckAbsent, Rename, Goto, At
    <3> QED
      BY <3>1 DEF InStage
  <2> QED
    BY <1>1, <2>1, <2>2, <2>3, <2>4, <2>5, <2>6 DEF Acts, Step, Elsewhere
<1>2. CASE \E p \in Proc : Acts(p)
  <2>1. PICK p \in Proc : Acts(p)
    BY <1>2
  <2>2. \A q \in Proc \ {p} : InStage(q)'
    BY <2>1, ActsAlone DEF OthersStay, InStage, Route
  <2> QED
    BY <1>1, <2>1, <2>2
<1>3. CASE UNCHANGED <<localVars, kind>>
  BY <1>3 DEF localVars, InStage, Route
<1> QED
  BY <1>2, <1>3 DEF Next, Acts, vars, OperatorRemovesLock, Edit, runVars

\* Only a stage whose requirements are met gets files to write, and they are
\* absent.  A rename takes its file off the list.
LEMMA ToWriteStep ==
  ASSUME Typed, NEW p \in Proc, Acts(p)
  PROVE  /\ \A q \in Proc \ {p} : ToWrite(q)' = ToWrite(q)
         /\ \/ ToWrite(p)' \subseteq ToWrite(p)
            \/ /\ Require(p) /\ doc'[p].basis = Names(p)
               /\ ToWrite(p)' \subseteq Outputs(p) /\ \A f \in Outputs(p) : ~There(f)
               /\ stage' = stage /\ InputsGood(p)
         /\ \A f \in ToWrite(p)' : Rename(p) => disk'[f] = disk[f]
<1> USE DEF Typed, TypeOK
<1>1. \A q \in Proc \ {p} : ToWrite(q)' = ToWrite(q)
  <2>1. ASSUME NEW q \in Proc \ {p}
        PROVE  ToWrite(q)' = ToWrite(q)
    <3>1. /\ pc'[q] = pc[q] /\ todo'[q] = todo[q] /\ stage'[q] = stage[q]
          /\ kind' = kind
      BY ActsAlone DEF OthersStay
    <3> QED
      BY <3>1, OutputsStay DEF ToWrite
  <2> QED
    BY <2>1
<1>2. CASE Elsewhere(p)
  <2>1. ToWrite(p)' = {}
    BY <1>2, ElsewhereUnprepared DEF ToWrite, Prepared
  <2> QED
    BY <1>1, <2>1
<1>3. CASE Require(p)
  <2>1. CASE Fail(p)
    <3>1. ToWrite(p)' = {}
      BY <2>1, FailType DEF ToWrite, Prepared
    <3> QED
      BY <1>1, <3>1
  <2>2. CASE ~Fail(p)
    <3>1. /\ Goto(p, FirstStep(p)) /\ \A f \in Outputs(p) : ~There(f)
          /\ doc'[p].basis = Names(p)
          /\ stage' = stage /\ kind' = kind /\ InputsGood(p) /\ disk' = disk
      BY <1>3, <2>2 DEF Require, runVars
    <3>2. ToWrite(p)' \subseteq Outputs(p)'
      BY <3>1, FirstStepType DEF Goto, ToWrite
    <3> QED
      BY <1>1, <1>3, <3>1, <3>2, OutputsStay
  <2> QED
    BY <2>1, <2>2
<1>4. CASE Announce(p) \/ EnsureSnapshot(p) \/ Capture(p) \/ CallProvider(p)
           \/ VerifyEvidence(p) \/ Judge(p) \/ Sign(p) \/ CheckAbsent(p)
  <2>1. /\ pc[p] \in Prepared \ {"rename"} /\ stage' = stage /\ kind' = kind
        /\ pc'[p] = "rename" => todo'[p] = Outputs(p)
        /\ ~Rename(p)
    BY <1>4, FailType DEF Announce, EnsureSnapshot, Capture, CallProvider, VerifyEvidence,
       Judge, Sign, AfterJudging, CheckAbsent, Goto, At, Prepared, runVars, Rename
  <2>2. Outputs(p)' = Outputs(p)
    BY <2>1, OutputsStay
  <2>3. ToWrite(p)' \subseteq ToWrite(p)
    BY <2>1, <2>2 DEF ToWrite
  <2> QED
    BY <1>1, <2>1, <2>3
<1>5. CASE Rename(p)
  <2>1. PICK f \in todo[p] :
          /\ disk' = [disk EXCEPT ![f] = doc[p]]
          /\ todo' = [todo EXCEPT ![p] = @ \ {f}]
          /\ pc' = pc \/ Goto(p, "save")
    BY <1>5 DEF Rename
  <2>2. pc[p] = "rename" /\ pc'[p] \in {"rename", "save"}
    BY <1>5, <2>1 DEF Rename, At, Goto
  <2>3. ToWrite(p) = todo[p] /\ ToWrite(p)' \subseteq todo[p] \ {f}
    BY <2>1, <2>2 DEF ToWrite, Prepared
  <2>4. \A g \in Files \ {f} : disk'[g] = disk[g]
    BY <2>1
  <2> QED
    BY <1>1, <2>3, <2>4
<1> QED
  BY <1>2, <1>3, <1>4, <1>5 DEF Acts, Step, Elsewhere

\* What a step of an invocation can do to a file: put it in place, or roll it
\* back; a commit of one file is never rolled back.
LEMMA FileStep ==
  ASSUME Typed, NEW p \in Proc, Acts(p), NEW f \in Files \ {"snapshot"}
  PROVE  \/ disk'[f] = disk[f]
         \/ disk'[f] = NoDoc /\ f \notin {"review", "decision"}
         \/ /\ Rename(p) /\ disk'[f] = doc[p] /\ doc[p].by = p
            /\ f \in ToWrite(p) /\ f \notin ToWrite(p)'
<1> USE DEF Typed, TypeOK
<1>1. CASE Rename(p)
  <2>1. PICK g \in todo[p] : disk' = [disk EXCEPT ![g] = doc[p]]
    BY <1>1 DEF Rename
  <2>2. pc[p] = "rename"
    BY <1>1 DEF Rename, At
  <2>3. doc[p].by = p
    BY <2>2 DEF DocInv, Prepared
  <2>4. ToWrite(p) = todo[p]
    BY <2>2 DEF ToWrite
  <2>5. CASE f = g
    <3>1. disk'[f] = doc[p]
      BY <2>1, <2>5
    <3>2. f \in ToWrite(p)' => disk'[f] = disk[f]
      BY <1>1, ToWriteStep
    <3> QED
      BY <1>1, <2>3, <2>4, <2>5, <3>1, <3>2
  <2>6. CASE f # g
    BY <2>1, <2>6
  <2> QED
    BY <2>5, <2>6
<1>2. CASE Raise(p)
  <2>1. CASE pc[p] = "rename" /\ f \in Outputs(p) \ todo[p]
    <3>1. todo[p] # {} /\ todo[p] \subseteq Outputs(p)
      BY <2>1
    <3>2. f \notin {"review", "decision"}
      BY <2>1, <3>1, FilesOfStages
    <3> QED
      BY <1>2, <2>1, <3>2 DEF Raise
  <2> QED
    BY <1>2, <2>1 DEF Raise
<1>3. CASE Capture(p)
  BY <1>3 DEF Capture
<1>4. CASE ~Rename(p) /\ ~Raise(p) /\ ~Capture(p)
  <2>1. disk' = disk
    BY <1>4 DEF Acts, Step, StartPipeline, StartCommand, Drive, CheckVerdict, Load,
       Require, Announce, EnsureSnapshot, CallProvider, VerifyEvidence, Judge, Sign,
       CheckAbsent, Save, LoadEvent, SaveEvent, Finish, Crash, runVars
  <2> QED
    BY <2>1
<1> QED
  BY <1>1, <1>2, <1>3, <1>4

\* A hand leaves its digest.
LEMMA EditStep ==
  ASSUME Typed, Edit, NEW f \in Files
  PROVE  disk'[f] = disk[f] \/ (disk'[f].by = Editor /\ There(f)')
<1>1. PICK g \in Files : \E v \in {disk[g].verdict, "PASS", "APPROVED"} :
        There(g) /\ disk' = [disk EXCEPT ![g].by = Editor, ![g].verdict = v]
  BY DEF Edit
<1>2. PICK v : disk' = [disk EXCEPT ![g].by = Editor, ![g].verdict = v]
  BY <1>1
<1>3. disk[g] \in Doc
  BY <1>1, AbsentFile DEF Typed
<1>4. disk'[g].by = Editor /\ \A h \in Files \ {g} : disk'[h] = disk[h]
  BY <1>2, <1>3 DEF Typed, TypeOK, Doc
<1>5. disk'[g] # NoDoc
  BY <1>4, PartiesAssumption DEF NoDoc
<1>6. CASE f = g
  BY <1>4, <1>5, <1>6 DEF There
<1>7. CASE f # g
  BY <1>4, <1>7
<1> QED
  BY <1>6, <1>7

\* Nobody writes a file under another's digest, or one of its own twice.
LEMMA UnwrittenStays ==
  ASSUME Typed, Unwritten, [Next]_vars
  PROVE  Unwritten'
<1>1. ASSUME NEW p \in Proc, Acts(p), NEW q \in Proc, NEW f \in ToWrite(q)'
      PROVE  disk'[f].by # q
  <2>1. f \in Files /\ f # "snapshot"
    <3>1. f \in ToWrite(q) \/ f \in Outputs(p)
      BY <1>1, ToWriteStep
    <3>2. f \in Outputs(q) \/ f \in Outputs(p)
      BY <3>1, ToWriteType
    <3> QED
      BY <3>2, OutputsType
  <2>2. CASE disk'[f] = NoDoc
    BY <2>2, PartiesAssumption DEF NoDoc
  <2>3. CASE disk'[f] = doc[p] /\ doc[p].by = p /\ f \notin ToWrite(p)'
    BY <1>1, <2>3
  <2>4. CASE disk'[f] = disk[f]
    <3>1. CASE f \in ToWrite(q)
      BY <2>4, <3>1 DEF Unwritten
    <3>2. CASE f \notin ToWrite(q)
      <4>1. q = p /\ ~There(f)
        BY <1>1, <3>2, ToWriteStep
      <4> QED
        BY <2>4, <4>1, PartiesAssumption DEF There, NoDoc
    <3> QED
      BY <3>1, <3>2
  <2> QED
    BY <1>1, <2>1, <2>2, <2>3, <2>4, FileStep
<1>2. CASE Edit
  <2>1. ASSUME NEW q \in Proc
        PROVE  ToWrite(q)' = ToWrite(q)
    BY <1>2, OutputsStay DEF Edit, localVars, ToWrite
  <2>2. ASSUME NEW q \in Proc, NEW f \in ToWrite(q)
        PROVE  disk'[f].by # q
    <3>1. f \in Files
      BY <2>2, ToWriteType
    <3> QED
      BY <1>2, <2>2, <3>1, EditStep, PartiesAssumption DEF Unwritten
  <2> QED
    BY <2>1, <2>2 DEF Unwritten
<1>3. CASE UNCHANGED <<runVars, localVars>>
  <2>1. ASSUME NEW q \in Proc
        PROVE  ToWrite(q)' = ToWrite(q)
    BY <1>3, OutputsStay DEF localVars, runVars, ToWrite
  <2> QED
    BY <1>3, <2>1 DEF Unwritten, runVars
<1> QED
  BY <1>1, <1>2, <1>3 DEF Unwritten, Next, Acts, vars, OperatorRemovesLock

\* A review's verdict is its reviewer's.
LEMMA JudgedStays ==
  ASSUME Typed, \A q \in Proc : InStage(q), Judged, [Next]_vars
  PROVE  Judged'
<1>0. "review" \in Files \ {"snapshot"}
  BY DEF Files
<1>1. CASE disk'["review"] = disk["review"]
  BY <1>1 DEF Judged
<1>2. ASSUME NEW p \in Proc, Acts(p)
      PROVE  Judged'
  <2>1. CASE Rename(p) /\ disk'["review"] = doc[p] /\ "review" \in ToWrite(p)
    <3>1. stage[p] = "REVIEW" /\ pc[p] = "rename"
      BY <2>1, ToWriteType, FilesOfStages DEF Rename, At
    <3> QED
      BY <2>1, <3>1 DEF InStage, Judged
  <2> QED
    BY <1>0, <1>1, <1>2, <2>1, FileStep
<1>3. CASE Edit
  BY <1>0, <1>1, <1>3, EditStep, PartiesAssumption DEF Judged
<1> QED
  BY <1>1, <1>2, <1>3 DEF Next, Acts, vars, OperatorRemovesLock, runVars

\* Whoever holds the lock keeps it until he rests or dies.
LEMMA LockStays ==
  ASSUME Typed, LockInv, [Next]_vars
  PROVE  LockInv'
<1> USE DEF Typed, TypeOK
<1> SUFFICES ASSUME NEW q \in Pipelines, pc'[q] \notin Resting
             PROVE  lockFile' = q /\ q \notin dead'
  BY DEF LockInv
<1>0. q \in Proc
  BY PartiesAssumption
<1>1. CASE UNCHANGED <<lockVars, pc>>
  BY <1>1 DEF LockInv, lockVars
<1>2. ASSUME NEW p \in Proc, Acts(p)
      PROVE  lockFile' = q /\ q \notin dead'
  <2>1. CASE StartPipeline(p)
    <3>1. /\ \/ lockFile = NoProc /\ lockFile' = p /\ Goto(p, "drive")
             \/ lockFile' = lockFile /\ Goto(p, "done")
          /\ dead' = dead /\ p \notin dead
      BY <2>1 DEF StartPipeline, At, Acquire, Refuse, lockVars
    <3>2. pc[q] \notin Resting => lockFile = q /\ q \notin dead /\ lockFile # NoProc
      BY <1>0, NoProcAssumption DEF LockInv
    <3> QED
      BY <1>0, <3>1, <3>2 DEF Goto, Resting
  <2>2. CASE Finish(p)
    <3>1. pc'[p] = "done" /\ (q # p => pc'[q] = pc[q])
      BY <1>0, <2>2 DEF Finish, Goto
    <3>2. q # p /\ lockFile = q /\ q \notin dead
      BY <3>1 DEF LockInv, Resting
    <3> QED
      BY <2>2, <3>2 DEF Finish, Release
  <2>3. CASE Crash(p)
    <3>1. pc'[p] = "done" /\ (q # p => pc'[q] = pc[q])
      BY <1>0, <2>3 DEF Crash, Goto
    <3>2. q # p /\ lockFile = q /\ q \notin dead
      BY <3>1 DEF LockInv, Resting
    <3> QED
      BY <2>3, <3>2 DEF Crash, Kill
  <2>4. CASE ~StartPipeline(p) /\ ~Finish(p) /\ ~Crash(p)
    <3>1. UNCHANGED lockVars /\ (q = p => q \in Commands \/ pc[q] \notin Resting)
      BY <1>2, <2>4
      DEF Acts, Step, StartCommand, Drive, CheckVerdict, Load, Require, Announce,
          EnsureSnapshot, Capture, CallProvider, VerifyEvidence, Judge, Sign, CheckAbsent,
          Rename, Save, LoadEvent, SaveEvent, Raise, At, Resting
    <3>2. q # p => pc'[q] = pc[q]
      BY <1>0, <1>2, ActsAlone DEF OthersStay
    <3>3. pc[q] \notin Resting
      BY <3>1, <3>2, PartiesAssumption
    <3> QED
      BY <3>1, <3>3 DEF LockInv, lockVars
  <2> QED
    BY <2>1, <2>2, <2>3, <2>4
<1>3. CASE OperatorRemovesLock
  <2>1. pc[q] \notin Resting /\ lockFile \in dead
    BY <1>3 DEF OperatorRemovesLock, HumanRemovesLock, localVars
  <2> QED
    BY <2>1 DEF LockInv
<1>4. CASE Edit
  BY <1>1, <1>4 DEF Edit, localVars
<1> QED
  BY <1>1, <1>2, <1>3, <1>4 DEF Next, Acts, vars, localVars

LEMMA WorkingStays ==
  ASSUME Typed, Working, [Next]_vars
  PROVE  Working'
BY LockStays, ShapesStay, InStageStays, UnwrittenStays, JudgedStays DEF Working

-----------------------------------------------------------------------------
(* What a set of digests means later *)

LEMMA NamedAgents ==
  ASSUME NEW N, Named(N), N["review"] # None
  PROVE  /\ N["review"] \in Proc /\ N["finalizer"] \in Proc
         /\ ChainOf(N) = Article
BY DEF Named, ChainOf, Article, Files

\* A review that was on disk stays there or is replaced for good.
LEMMA ReviewStays ==
  ASSUME Typed, [Next]_vars, NEW r \in Proc, There("review"), "review" \notin ToWrite(r)
  PROVE  /\ There("review")' /\ "review" \notin ToWrite(r)'
         /\ disk'["review"].by = r => disk'["review"] = disk["review"]
<1>0. "review" \in Files \ {"snapshot"}
  BY DEF Files
<1>1. ASSUME NEW p \in Proc, Acts(p)
      PROVE  /\ There("review")' /\ "review" \notin ToWrite(r)'
             /\ disk'["review"].by = r => disk'["review"] = disk["review"]
  <2>1. "review" \notin ToWrite(r)'
    BY <1>1, ToWriteStep
  <2>2. CASE disk'["review"] = disk["review"]
    BY <2>1, <2>2 DEF There
  <2>3. CASE disk'["review"] = doc[p] /\ doc[p].by = p /\ "review" \in ToWrite(p)
    <3>1. disk'["review"] # NoDoc /\ disk'["review"].by # r
      BY <2>3, PartiesAssumption DEF NoDoc
    <3> QED
      BY <2>1, <3>1 DEF There
  <2> QED
    BY <1>0, <1>1, <2>2, <2>3, FileStep
<1>2. CASE UNCHANGED localVars /\ kind' = kind
  <2>1. ToWrite(r)' = ToWrite(r)
    BY <1>2, OutputsStay DEF localVars, ToWrite
  <2> QED
    <3>1. CASE disk' = disk
      BY <2>1, <3>1 DEF There
    <3>2. CASE Edit
      BY <1>0, <2>1, <3>2, EditStep, PartiesAssumption DEF There
    <3>3. CASE \E p \in Proc : Acts(p)
      BY <1>1, <3>3
    <3> QED
      BY <3>1, <3>2, <3>3 DEF Next, Acts, vars, OperatorRemovesLock, runVars
<1> QED
  BY <1>1, <1>2 DEF Next, Acts, vars, OperatorRemovesLock, Edit, runVars

\* A finalizer at work goes on naming what it read.
LEMMA BasisStays ==
  ASSUME Typed, NEW p \in Proc, InStage(p), Acts(p),
         "finalizer" \in ToWrite(p), "finalizer" \in ToWrite(p)'
  PROVE  doc'[p].basis = doc[p].basis
<1> USE DEF Typed, TypeOK
<1>1. stage[p] = "FINALIZE" /\ pc[p] \in Prepared /\ doc[p] \in Doc
  <2>1. pc[p] \in Prepared
    BY DEF ToWrite, Prepared
  <2> QED
    BY <2>1, ToWriteType, FilesOfStages DEF DocInv
<1>2. CASE Elsewhere(p)
  BY <1>2, ElsewhereUnprepared DEF ToWrite, Prepared
<1>3. CASE Require(p) \/ VerifyEvidence(p) \/ Judge(p) \/ Sign(p)
  BY <1>1, <1>3 DEF Require, VerifyEvidence, Judge, Sign, At, Prepared, InStage
<1>4. CASE CallProvider(p)
  <2>1. doc' = doc \/ \E v : doc' = [doc EXCEPT ![p].verdict = v]
    BY <1>4 DEF CallProvider
  <2> QED
    BY <1>1, <2>1 DEF Doc
<1>5. CASE Announce(p) \/ EnsureSnapshot(p) \/ Capture(p) \/ CheckAbsent(p) \/ Rename(p)
  BY <1>5 DEF Announce, EnsureSnapshot, Capture, CheckAbsent, Rename
<1> QED
  BY <1>2, <1>3, <1>4, <1>5 DEF Acts, Step, Elsewhere

LEMMA EvidentStays ==
  ASSUME Typed, Working, [Next]_vars, NEW N, Evident(N)
  PROVE  Evident(N)'
<1>1. Named(N)'
  BY DEF Evident, Named, ChainOf
<1>2. CASE N["review"] = None
  BY <1>1, <1>2 DEF Evident, Spoken, Finalizing
<1>3. CASE N["review"] # None
  <2> DEFINE r == N["review"]
             q == N["finalizer"]
  <2>1. r \in Proc /\ q \in Proc
    BY <1>3, NamedAgents DEF Evident
  <2>2. There("review") /\ "review" \notin ToWrite(r)
    BY <1>3 DEF Evident, Spoken
  <2>3. Spoken(N)'
    BY <2>1, <2>2, ReviewStays DEF Spoken
  <2>4. ASSUME disk'["review"].by = r, "finalizer" \in ToWrite(q)'
        PROVE  /\ doc'[q].basis["review"] = r
               /\ \A f \in {"draft", "writer"} :
                    doc'[q].basis[f] = disk'["review"].basis[f]
    <3>1. disk'["review"] = disk["review"]
      BY <2>1, <2>2, <2>4, ReviewStays
    <3>2. CASE "finalizer" \in ToWrite(q)
      <4>1. /\ doc[q].basis["review"] = r
            /\ \A f \in {"draft", "writer"} : doc[q].basis[f] = disk["review"].basis[f]
        BY <1>3, <2>4, <3>1, <3>2 DEF Evident, Finalizing
      <4>2. doc'[q].basis = doc[q].basis
        <5>1. ASSUME NEW p \in Proc, Acts(p)
              PROVE  doc'[q].basis = doc[q].basis
          <6>1. CASE p = q
            BY <2>1, <2>4, <3>2, <5>1, <6>1, BasisStays DEF Working
          <6>2. CASE p # q
            BY <2>1, <5>1, <6>2, ActsAlone DEF OthersStay
          <6> QED
            BY <6>1, <6>2
        <5> QED
          BY <5>1 DEF Next, Acts, vars, OperatorRemovesLock, Edit, localVars
      <4> QED
        BY <3>1, <4>1, <4>2
    <3>3. CASE "finalizer" \notin ToWrite(q)
      <4>1. ~ UNCHANGED <<runVars, localVars>> /\ ~Edit
        <5>1. UNCHANGED localVars /\ kind' = kind => ToWrite(q)' = ToWrite(q)
          BY OutputsStay DEF localVars, ToWrite
        <5> QED
          BY <2>4, <3>3, <5>1 DEF Edit, runVars
      <4>2. PICK p \in Proc : Acts(p)
        BY <4>1 DEF Next, Acts, vars, OperatorRemovesLock
      <4>3. /\ q = p /\ doc'[p].basis = Names(p)
            /\ "finalizer" \in Outputs(p) /\ InputsGood(p)
        BY <2>1, <2>4, <3>3, <4>2, ToWriteStep
      <4>4. stage[p] = "FINALIZE" /\ Outputs(p) = {"final", "finalizer"}
        BY <4>3, FilesOfStages
      <4>5. \A f \in {"draft", "writer"} : disk["review"].basis[f] = disk[f].by
        BY <4>3, <4>4 DEF InputsGood, ReviewAgrees
      <4>6. \A f \in {"draft", "writer", "review"} : Names(p)[f] = disk[f].by
        BY <4>4 DEF Names, Files
      <4> QED
        BY <2>4, <3>1, <4>3, <4>5, <4>6
    <3> QED
      BY <3>2, <3>3
  <2>5. Finalizing(N)'
    BY <2>4 DEF Finalizing
  <2> QED
    BY <1>1, <2>3, <2>5 DEF Evident
<1> QED
  BY <1>2, <1>3

LEMMA FittingStays ==
  ASSUME Typed, Working, [Next]_vars, NEW N, Evident(N), Fitting(N)
  PROVE  Fitting(N)'
<1> SUFFICES ASSUME N["review"] # None, disk'["review"].by = N["review"]
             PROVE  /\ disk'["review"].verdict = "PASS"
                    /\ \A f \in {"draft", "writer"} : disk'["review"].basis[f] = N[f]
                    /\ disk'["finalizer"].by = N["finalizer"] =>
                         \A f \in {"draft", "writer", "review"} :
                           disk'["finalizer"].basis[f] = N[f]
  BY DEF Fitting
<1> DEFINE r == N["review"]
           q == N["finalizer"]
<1>0. "finalizer" \in Files \ {"snapshot"}
  BY DEF Files
<1>1. r \in Proc /\ q \in Proc
  BY NamedAgents DEF Evident
<1>2. disk'["review"] = disk["review"]
  BY <1>1, ReviewStays DEF Evident, Spoken
<1>3. /\ disk["review"].verdict = "PASS"
      /\ \A f \in {"draft", "writer"} : disk["review"].basis[f] = N[f]
      /\ disk["finalizer"].by = q =>
           \A f \in {"draft", "writer", "review"} : disk["finalizer"].basis[f] = N[f]
  BY <1>2 DEF Fitting
<1>4. ASSUME disk'["finalizer"].by = q, NEW f \in {"draft", "writer", "review"}
      PROVE  disk'["finalizer"].basis[f] = N[f]
  <2>1. CASE disk'["finalizer"] = disk["finalizer"]
    BY <1>3, <1>4, <2>1
  <2>2. ASSUME NEW p \in Proc, Acts(p)
        PROVE  disk'["finalizer"].basis[f] = N[f]
    <3>1. CASE disk'["finalizer"] = NoDoc
      BY <1>1, <1>4, <3>1, PartiesAssumption DEF NoDoc
    <3>2. CASE disk'["finalizer"] = doc[p] /\ doc[p].by = p /\ "finalizer" \in ToWrite(p)
      <4>1. /\ doc[p].basis["review"] = N["review"]
            /\ \A g \in {"draft", "writer"} : doc[p].basis[g] = disk["review"].basis[g]
        BY <1>2, <1>4, <3>2 DEF Evident, Finalizing
      <4> QED
        BY <1>3, <3>2, <4>1
    <3> QED
      BY <1>0, <2>1, <2>2, <3>1, <3>2, FileStep
  <2>3. CASE Edit
    BY <1>0, <1>1, <1>4, <2>1, <2>3, EditStep, PartiesAssumption
  <2> QED
    BY <2>1, <2>2, <2>3 DEF Next, Acts, vars, OperatorRemovesLock, runVars
<1> QED
  BY <1>2, <1>3, <1>4

-----------------------------------------------------------------------------
(* The gate *)

\* The first reading: what is on disk is what one manifest records.
LEMMA VerifiedIsEvident ==
  ASSUME Typed, Working, NEW p \in Proc, VerifyEvidence(p), pc'[p] = "judge",
         NEW N, N = doc'[p].basis
  PROVE  /\ Evident(N)' /\ (N["review"] = None <=> Route(p) = "TRADE_PLAN")
         /\ Route(p) = "TRADE_PLAN" => disk["plan"].by = disk["final"].by
<1> DEFINE m == mem[p]
<1>0. Acts(p) /\ pc[p] = "verify"
  BY DEF Acts, Step, VerifyEvidence, At
<1>1. /\ \A f \in Evidence(p) : Verified(m, f)
      /\ doc' = [doc EXCEPT ![p].basis =
                   [f \in Files |-> IF f \in Evidence(p) THEN disk[f].by ELSE None]]
  BY DEF VerifyEvidence, AfterJudging, Goto, Typed, TypeOK
<1>2. doc[p] \in Doc
  BY <1>0 DEF Typed, DocInv, Prepared
<1>3. \A f \in Files : N[f] = IF f \in Evidence(p) THEN disk[f].by ELSE None
  BY <1>1, <1>2 DEF Typed, TypeOK, Doc
<1>4. Evidence(p) \subseteq Handed /\ Handed \subseteq Files
  BY DEF Evidence, Handed, Files
<1>5. \A f \in Evidence(p) : N[f] = m.refs[f] /\ There(f) /\ N[f] \in Proc
  <2>1. ASSUME NEW f \in Evidence(p)
        PROVE  N[f] = m.refs[f] /\ There(f) /\ N[f] \in Proc
    <3>1. f \in Files /\ N[f] = m.refs[f] /\ There(f) /\ N[f] = disk[f].by
      BY <1>1, <1>3, <1>4, <2>1 DEF Verified
    <3>2. N[f] \in Digest /\ N[f] # Editor
      BY <3>1, AbsentFile DEF Typed, Doc, Working, Shapes, Shape
    <3> QED
      BY <3>1, <3>2 DEF Digest
  <2> QED
    BY <2>1
<1>6. ChainOf(N) = Evidence(p)
  BY <1>3, <1>4, <1>5, PartiesAssumption DEF ChainOf
<1>7. Shape(m) /\ m.status \in Statuses
  BY DEF Working, Shapes, Typed, TypeOK, Manifest
<1>8. Evidence(p) \subseteq Recorded(m)
  BY <1>4, <1>5, PartiesAssumption DEF Recorded
<1>9. Named(N)
  <2>1. \A f \in Files : N[f] \in Proc \cup {None}
    BY <1>3, <1>5
  <2>2. CASE Route(p) = "TRADE_PLAN"
    <3>1. Evidence(p) = {"plan", "final"}
      BY <2>2 DEF Evidence
    <3>2. N["review"] = None
      BY <1>3, <3>1 DEF Files
    <3> QED
      BY <1>6, <3>1, <3>2 DEF Named
  <2>3. CASE Route(p) # "TRADE_PLAN"
    <3>1. Evidence(p) = Article
      BY <2>3 DEF Evidence, Article
    <3>2. "finalizer" \in Recorded(m)
      BY <1>8, <3>1 DEF Article
    <3>3. m.refs["draft"] = m.refs["writer"] /\ m.refs["final"] = m.refs["finalizer"]
      BY <1>7, <3>2 DEF Shape
    <3>4. N["draft"] = N["writer"] /\ N["final"] = N["finalizer"]
      BY <1>5, <3>1, <3>3 DEF Article
    <3> QED
      BY <1>6, <2>1, <3>1, <3>4 DEF Named
  <2> QED
    BY <2>2, <2>3
<1>10. N["review"] # None =>
         /\ Route(p) # "TRADE_PLAN" /\ There("review")
         /\ disk["review"].by = N["review"] /\ disk["finalizer"].by = N["finalizer"]
  <2> SUFFICES ASSUME N["review"] # None
               PROVE  /\ Route(p) # "TRADE_PLAN" /\ There("review")
                      /\ disk["review"].by = N["review"]
                      /\ disk["finalizer"].by = N["finalizer"]
    OBVIOUS
  <2>1. Evidence(p) = Article
    BY <1>6, <1>9, NamedAgents
  <2>2. Route(p) # "TRADE_PLAN"
    BY <2>1 DEF Evidence, Article
  <2> QED
    BY <1>3, <1>4, <1>5, <2>1, <2>2 DEF Article
<1>11. \A q \in Proc : ToWrite(q)' \subseteq ToWrite(q)
  BY <1>0, ToWriteStep DEF VerifyEvidence, Require, At
<1>12. disk' = disk
  BY DEF VerifyEvidence, runVars
<1>13. Named(N)'
  BY <1>9 DEF Named, ChainOf
<1>14. Spoken(N)'
  <2>1. N["review"] # None => N["review"] \in Proc /\ "review" \notin ToWrite(N["review"])
    BY <1>9, <1>10, NamedAgents DEF Working, Unwritten
  <2> QED
    BY <1>10, <1>11, <1>12, <2>1 DEF Spoken, There
<1>15. Finalizing(N)'
  <2>1. N["review"] # None =>
          N["finalizer"] \in Proc /\ "finalizer" \notin ToWrite(N["finalizer"])
    BY <1>9, <1>10, NamedAgents DEF Working, Unwritten
  <2> QED
    BY <1>11, <2>1 DEF Finalizing
<1>16. Route(p) = "TRADE_PLAN" =>
          N["review"] = None /\ disk["plan"].by = disk["final"].by
  <2> SUFFICES ASSUME Route(p) = "TRADE_PLAN"
               PROVE  N["review"] = None /\ disk["plan"].by = disk["final"].by
    OBVIOUS
  <2>1. Evidence(p) = {"plan", "final"}
    BY DEF Evidence
  <2>2. "plan" \in Recorded(m) /\ N["review"] = None
    BY <1>3, <1>8, <2>1 DEF Files
  <2>3. m.refs["final"] = m.refs["plan"]
    BY <1>7, <2>2 DEF Shape, PassedOn, Article
  <2> QED
    BY <1>3, <1>5, <2>1, <2>2, <2>3 DEF Files
<1>17. Route(p) # "TRADE_PLAN" => N["review"] # None
  <2>1. Route(p) # "TRADE_PLAN" => "review" \in Evidence(p)
    BY DEF Evidence
  <2> QED
    BY <1>5, <2>1, PartiesAssumption
<1> QED
  BY <1>13, <1>14, <1>15, <1>16, <1>17 DEF Evident

\* The second reading.
LEMMA AgreedIsFitting ==
  ASSUME Typed, Working, NEW p \in Proc, JudgingInv(p), pc[p] = "judge", ChainAgrees(p),
         NEW N, N = doc[p].basis
  PROVE  Fitting(N)
<1> SUFFICES ASSUME N["review"] # None, disk["review"].by = N["review"]
             PROVE  /\ disk["review"].verdict = "PASS"
                    /\ \A f \in {"draft", "writer"} : disk["review"].basis[f] = N[f]
                    /\ \A f \in {"draft", "writer", "review"} :
                         disk["finalizer"].basis[f] = N[f]
  BY DEF Fitting
<1>1. Route(p) # "TRADE_PLAN" /\ N["review"] \in Proc
  BY NamedAgents DEF JudgingInv, Evident
<1>2. /\ \A f \in {"draft", "writer"} : disk["review"].basis[f] = N[f]
      /\ \A f \in {"draft", "writer", "review", "final"} :
           disk["finalizer"].basis[f] = N[f]
      /\ disk["review"].verdict # "REJECT"
  BY <1>1 DEF ChainAgrees
<1> QED
  BY <1>1, <1>2 DEF Working, Judged

\* Who comes to the gate's second reading, and past it.
LEMMA GateSteps ==
  ASSUME Typed, \A q \in Proc : InStage(q), NEW p \in Proc, Acts(p)
  PROVE  /\ pc'[p] = "judge" => VerifyEvidence(p)
         /\ Signing(p)' =>
              \/ VerifyEvidence(p) /\ pc'[p] = "judge"
              \/ Judge(p) /\ Signing(p)
         /\ Approving(p)' =>
              \/ /\ pc[p] = "judge" /\ Route(p) # "TRADE_PLAN"
                 /\ ChainAgrees(p) /\ doc'[p].basis = doc[p].basis
              \/ Sign(p) /\ doc[p].verdict = "APPROVED"
              \/ /\ Approving(p) /\ doc'[p].basis = doc[p].basis
                 /\ CheckAbsent(p) \/ Rename(p)
<1> USE DEF Typed, TypeOK, Signing, Approving
<1>0. Route(p)' = Route(p)
  BY ActsAlone DEF Route
<1>1. CASE Elsewhere(p)
  BY <1>1, ElsewhereUnprepared DEF Prepared
<1>2. CASE Require(p)
  <2>1. pc'[p] \notin {"judge", "sign", "check", "rename"}
    BY <1>2, FailType DEF Require, Goto, FirstStep
  <2> QED
    BY <2>1
<1>3. CASE Announce(p) \/ EnsureSnapshot(p) \/ Capture(p)
  <2>1. pc'[p] \notin {"judge", "sign", "check", "rename"}
    BY <1>3, FailType DEF Announce, EnsureSnapshot, Capture, Goto
  <2> QED
    BY <2>1
<1>4. CASE CallProvider(p)
  <2>1. pc'[p] \notin {"judge", "sign"} /\ stage'[p] # "GATE"
    BY <1>4, FailType DEF CallProvider, Goto, At, InStage
  <2> QED
    BY <2>1
<1>5. CASE VerifyEvidence(p)
  <2>1. pc'[p] \in {"sign", "check", "rename"} => doc'[p].verdict # "APPROVED"
    <3>1. doc[p] \in Doc
      BY <1>5 DEF VerifyEvidence, At, DocInv, Prepared
    <3>2. pc'[p] # "judge" => doc' = [doc EXCEPT ![p].verdict = "BLOCKED"]
      BY <1>5 DEF VerifyEvidence, Goto
    <3> QED
      BY <3>1, <3>2 DEF Doc
  <2>3. ~Approving(p)'
    BY <2>1
  <2>4. Signing(p)' => pc'[p] = "judge"
    BY <2>1
  <2> HIDE DEF Signing, Approving
  <2> QED
    BY <1>5, <2>3, <2>4
<1>6. CASE Judge(p)
  <2>1. pc[p] = "judge" /\ pc'[p] = AfterJudging(p) /\ doc[p] \in Doc
    BY <1>6 DEF Judge, At, Goto, DocInv, Prepared
  <2>2. PICK v \in {"APPROVED", "BLOCKED"} :
          (v = "APPROVED" => ChainAgrees(p)) /\ doc' = [doc EXCEPT ![p].verdict = v]
    BY <1>6 DEF Judge
  <2>3. doc'[p].verdict = v /\ doc'[p].basis = doc[p].basis
    BY <2>1, <2>2 DEF Doc
  <2> QED
    BY <1>0, <1>6, <2>1, <2>2, <2>3 DEF AfterJudging
<1>7. CASE CheckAbsent(p) \/ Rename(p)
  <2>1. /\ pc[p] \in {"check", "rename"} /\ pc'[p] \in {"release", "rename", "save"}
        /\ stage' = stage /\ doc' = doc
    BY <1>7 DEF CheckAbsent, Rename, Goto, At
  <2> QED
    BY <1>7, <2>1
<1>8. CASE Sign(p)
  <2>1. pc'[p] = "check" /\ doc[p] \in Doc
    BY <1>8 DEF Sign, At, Goto, DocInv, Prepared
  <2>2. doc'[p].verdict = doc[p].verdict
    BY <1>8, <2>1 DEF Sign, Doc
  <2> QED
    BY <1>8, <2>1, <2>2
<1> QED
  BY <1>1, <1>2, <1>3, <1>4, <1>5, <1>6, <1>7, <1>8 DEF Acts, Step, Elsewhere

\* Everybody else, when one acts; everybody, when nobody does.
LEMMA GateRests ==
  ASSUME Typed, [Next]_vars, NEW p \in Proc, ~Acts(p)
  PROVE  /\ pc'[p] = pc[p] /\ doc'[p] = doc[p] /\ stage'[p] = stage[p]
         /\ todo'[p] = todo[p] /\ Route(p)' = Route(p) /\ Outputs(p)' = Outputs(p)
<1>1. ASSUME NEW q \in Proc, Acts(q)
      PROVE  /\ pc'[p] = pc[p] /\ doc'[p] = doc[p] /\ stage'[p] = stage[p]
             /\ todo'[p] = todo[p] /\ kind' = kind
  BY <1>1, ActsAlone DEF OthersStay
<1>2. /\ pc'[p] = pc[p] /\ doc'[p] = doc[p] /\ stage'[p] = stage[p]
      /\ todo'[p] = todo[p] /\ kind' = kind
  BY <1>1 DEF Next, Acts, vars, OperatorRemovesLock, Edit, runVars, localVars
<1> QED
  BY <1>2, OutputsStay DEF Route

\* A command writes no plan and gates none.
LEMMA PlansArePipelines ==
  ASSUME Typed, NEW p \in Proc, Route(p) = "TRADE_PLAN" \/ "plan" \in Outputs(p)
  PROVE  p \in Pipelines /\ Route(p) = "TRADE_PLAN"
<1>1. Route(p) = "TRADE_PLAN"
  BY DEF Outputs
<1> QED
  BY <1>1, PartiesAssumption DEF Route

\* The lock lets one pipeline work.
LEMMA OneWorks ==
  ASSUME LockInv, NEW p \in Pipelines, pc[p] \notin Resting,
         NEW q \in Proc \ {p}, pc[q] \notin Resting
  PROVE  q \in Commands /\ q \notin Pipelines
<1>1. lockFile = p
  BY DEF LockInv
<1>2. q \notin Pipelines
  BY <1>1 DEF LockInv
<1> QED
  BY <1>2, PartiesAssumption

\* The plan on disk changes in the commit of a plan, or under a hand.
LEMMA PlanStep ==
  ASSUME Typed, [Next]_vars
  PROVE  \/ disk'["plan"] = disk["plan"]
         \/ disk'["plan"].by = Editor /\ There("plan") /\ Edit
         \/ \E p \in Proc : Acts(p) /\ Planning(p)
<1> USE DEF Typed, TypeOK
<1>0. "plan" \in Files \ {"snapshot"}
  BY DEF Files
<1>1. ASSUME NEW p \in Proc, Acts(p), disk'["plan"] # disk["plan"]
      PROVE  Planning(p)
  <2>1. CASE Raise(p)
    BY <1>0, <1>1, <2>1 DEF Raise, Planning
  <2>2. CASE Rename(p)
    <3>1. pc[p] = "rename" /\ "plan" \in todo[p]
      BY <1>1, <2>2 DEF Rename, At
    <3> QED
      BY <3>1 DEF Planning
  <2>3. CASE Capture(p)
    BY <1>0, <1>1, <2>3 DEF Capture
  <2>4. CASE ~Raise(p) /\ ~Rename(p) /\ ~Capture(p)
    BY <1>1, <2>4
    DEF Acts, Step, StartPipeline, StartCommand, Drive, CheckVerdict, Load, Require,
        Announce, EnsureSnapshot, CallProvider, VerifyEvidence, Judge, Sign, CheckAbsent,
        Save, LoadEvent, SaveEvent, Finish, Crash, runVars
  <2> QED
    BY <2>1, <2>2, <2>3, <2>4
<1>2. CASE Edit
  <2>1. PICK g \in Files : There(g) /\ \A h \in Files \ {g} : disk'[h] = disk[h]
    <3>1. PICK g \in Files : \E v \in {disk[g].verdict, "PASS", "APPROVED"} :
            There(g) /\ disk' = [disk EXCEPT ![g].by = Editor, ![g].verdict = v]
      BY <1>2 DEF Edit
    <3> QED
      BY <3>1
  <2> QED
    BY <1>0, <1>2, <2>1, EditStep
<1> QED
  BY <1>1, <1>2 DEF Next, Acts, vars, OperatorRemovesLock, runVars

LEMMA PageStays ==
  ASSUME Typed, [Next]_vars, NEW n, Page(n), \A q \in Proc : ~Planning(q)
  PROVE  Page(n)'
BY PlanStep DEF Page

\* While the gate of a plan is at work nobody puts a plan in place.
LEMMA GatePlansNot ==
  ASSUME Typed, LockInv, NEW p \in Pipelines, pc[p] \notin Resting, ~Planning(p)
  PROVE  \A q \in Proc : ~Planning(q)
<1> SUFFICES ASSUME NEW q \in Proc, Planning(q) PROVE FALSE
  OBVIOUS
<1>1. q \in Pipelines /\ pc[q] \notin Resting
  BY PlansArePipelines DEF Planning, Resting
<1> QED
  BY <1>1, OneWorks

LEMMA JudgingStays ==
  ASSUME Typed, Working, ApprovalInv, [Next]_vars, NEW p \in Proc
  PROVE  JudgingInv(p)'
<1>1. PICK N : N = doc'[p].basis
  OBVIOUS
<1>2. ASSUME pc'[p] = "judge"
      PROVE  Evident(N)' /\ (N["review"] = None <=> Route(p)' = "TRADE_PLAN")
  <2>1. CASE Acts(p)
    <3>1. VerifyEvidence(p)
      BY <1>2, <2>1, GateSteps DEF Working
    <3>2. Route(p)' = Route(p)
      BY <2>1, ActsAlone DEF Route
    <3> QED
      BY <1>1, <1>2, <3>1, <3>2, VerifiedIsEvident
  <2>2. CASE ~Acts(p)
    <3>1. Evident(N) /\ (N["review"] = None <=> Route(p) = "TRADE_PLAN")
      BY <1>1, <1>2, <2>2, GateRests DEF ApprovalInv, JudgingInv
    <3> QED
      BY <2>2, <3>1, EvidentStays, GateRests
  <2> QED
    BY <2>1, <2>2
<1> QED
  BY <1>1, <1>2 DEF JudgingInv, Evident, Named, ChainOf, Spoken, Finalizing

LEMMA SigningStays ==
  ASSUME Typed, Working, ApprovalInv, [Next]_vars, NEW p \in Proc, Signing(p)'
  PROVE  Page(disk["final"].by)'
<1>0. "final" \in Files \ {"snapshot"}
  BY DEF Files
<1>1. CASE Acts(p)
  <2>1. CASE VerifyEvidence(p) /\ pc'[p] = "judge"
    <3>1. Route(p) = "TRADE_PLAN"
      BY <1>1, ActsAlone DEF Signing, Route
    <3>2. disk["plan"].by = disk["final"].by /\ disk' = disk
      BY <2>1, <3>1, VerifiedIsEvident DEF VerifyEvidence, runVars
    <3> QED
      BY <3>2 DEF Page
  <2>2. CASE Judge(p) /\ Signing(p)
    BY <2>2 DEF ApprovalInv, Page, Judge, runVars
  <2> QED
    BY <1>1, <2>1, <2>2, GateSteps DEF Working
<1>2. CASE ~Acts(p)
  <2>1. Signing(p)
    BY <1>2, GateRests DEF Signing
  <2>2. p \in Pipelines /\ pc[p] \notin Resting /\ ~Planning(p)
    BY <2>1, PlansArePipelines DEF Signing, Resting, Planning
  <2>3. \A n : Page(n) => Page(n)'
    BY <2>2, GatePlansNot, PageStays DEF Working
  <2>4. CASE disk'["final"] = disk["final"]
    BY <2>1, <2>3, <2>4 DEF ApprovalInv, Page
  <2>5. CASE disk'["final"].by \notin Pipelines
    BY <2>5 DEF Page
  <2>6. ASSUME NEW q \in Proc, Acts(q)
        PROVE  disk'["final"] = disk["final"] \/ disk'["final"].by \notin Pipelines
    <3>1. CASE disk'["final"] = NoDoc
      BY <3>1, PartiesAssumption DEF NoDoc
    <3>2. CASE Rename(q) /\ disk'["final"] = doc[q] /\ doc[q].by = q
      <4>1. q # p /\ pc[q] \notin Resting
        BY <1>2, <2>6, <3>2 DEF Rename, At, Resting
      <4> QED
        BY <2>2, <3>2, <4>1, OneWorks DEF Working
    <3> QED
      BY <1>0, <2>6, <3>1, <3>2, FileStep
  <2>7. CASE Edit
    BY <1>0, <2>4, <2>5, <2>7, EditStep, PartiesAssumption
  <2> QED
    BY <2>4, <2>5, <2>6, <2>7 DEF Next, Acts, vars, OperatorRemovesLock, runVars
<1> QED
  BY <1>1, <1>2

\* What it signs.
LEMMA SignedIsApprovable ==
  ASSUME Typed, Working, ApprovalInv, NEW p \in Proc, Sign(p), doc[p].verdict = "APPROVED",
         NEW N, N = doc'[p].basis
  PROVE  Approvable(N)' /\ p \in Pipelines
<1>1. doc[p] \in Doc /\ pc[p] = "sign" /\ Route(p) = "TRADE_PLAN"
  BY DEF Sign, At, Typed, DocInv, Prepared, Working, InStage
<1>2. N = [Empty EXCEPT !["final"] = disk["final"].by]
  BY <1>1 DEF Sign, Typed, TypeOK, Doc
<1>3. N["final"] = disk["final"].by /\ \A f \in Files \ {"final"} : N[f] = None
  BY <1>2 DEF Empty, Files
<1>4. N["review"] = None /\ ChainOf(N) \subseteq {"final"}
  BY <1>3 DEF Files, ChainOf
<1>5. Page(N["final"])'
  <2>1. Page(N["final"]) /\ disk' = disk
    BY <1>1, <1>3 DEF ApprovalInv, Signing, Sign, runVars
  <2> QED
    BY <2>1 DEF Page
<1>6. (Evident(N) /\ Fitting(N))'
  BY <1>4 DEF Evident, Fitting, Named, Spoken, Finalizing, ChainOf
<1> QED
  BY <1>1, <1>4, <1>5, <1>6, PlansArePipelines DEF Approvable, ChainOf

LEMMA ApprovableStays ==
  ASSUME Typed, Working, [Next]_vars, NEW N, Approvable(N),
         N["review"] = None => Page(N["final"])'
  PROVE  Approvable(N)'
<1>1. (Evident(N) /\ Fitting(N))'
  BY EvidentStays, FittingStays DEF Approvable
<1> QED
  BY <1>1 DEF Approvable, ChainOf

LEMMA ApprovingStays ==
  ASSUME Typed, Working, ApprovalInv, [Next]_vars, NEW p \in Proc, Approving(p)',
         NEW N, N = doc'[p].basis
  PROVE  Approvable(N)' /\ (N["review"] = None => p \in Pipelines)
<1>1. ASSUME Approving(p), doc'[p].basis = doc[p].basis
      PROVE  Approvable(N)' /\ (N["review"] = None => p \in Pipelines)
  <2>1. Approvable(N) /\ (N["review"] = None => p \in Pipelines)
    BY <1>1 DEF ApprovalInv, ApprovingInv
  <2>2. N["review"] = None => Page(N["final"])'
    <3>1. pc[p] \notin Resting /\ ~Planning(p)
      <4>1. pc[p] \in {"check", "rename"} /\ stage[p] = "GATE"
        BY <1>1 DEF Approving
      <4> QED
        BY <4>1, FilesOfStages DEF Resting, Planning
    <3>2. N["review"] = None => Page(N["final"]) /\ \A q \in Proc : ~Planning(q)
      BY <2>1, <3>1, GatePlansNot DEF Approvable, Working
    <3> QED
      BY <3>2, PageStays
  <2> QED
    BY <2>1, <2>2, ApprovableStays
<1>2. CASE ~Acts(p)
  BY <1>1, <1>2, GateRests DEF Approving
<1>3. CASE Acts(p)
  <2>1. CASE /\ pc[p] = "judge" /\ Route(p) # "TRADE_PLAN"
             /\ ChainAgrees(p) /\ doc'[p].basis = doc[p].basis
    <3>1. Evident(N) /\ N["review"] # None /\ Fitting(N)
      BY <2>1, AgreedIsFitting DEF ApprovalInv, JudgingInv
    <3>2. Approvable(N)
      BY <3>1 DEF Approvable
    <3> QED
      BY <3>1, <3>2, ApprovableStays
  <2>2. CASE Sign(p) /\ doc[p].verdict = "APPROVED"
    BY <2>2, SignedIsApprovable
  <2>3. CASE Approving(p) /\ doc'[p].basis = doc[p].basis
    BY <1>1, <2>3
  <2> QED
    BY <1>3, <2>1, <2>2, <2>3, GateSteps DEF Working
<1> QED
  BY <1>2, <1>3

\* A step changes the decision by committing one, or edits it.
LEMMA DecisionStep ==
  ASSUME Typed, [Next]_vars
  PROVE  \/ disk'["decision"] = disk["decision"] \/ disk'["decision"].by = Editor
         \/ \E p \in Proc : /\ Rename(p) /\ disk'["decision"] = doc[p]
                           /\ pc[p] = "rename" /\ stage[p] = "GATE"
<1>0. "decision" \in Files \ {"snapshot"}
  BY DEF Files
<1>1. ASSUME NEW p \in Proc, Rename(p), disk'["decision"] = doc[p],
             "decision" \in ToWrite(p)
      PROVE  pc[p] = "rename" /\ stage[p] = "GATE"
  BY <1>1, ToWriteType, FilesOfStages DEF Rename, At
<1>2. CASE \E p \in Proc : Acts(p)
  BY <1>0, <1>1, <1>2, FileStep
<1>3. CASE Edit
  BY <1>0, <1>3, EditStep
<1> QED
  BY <1>2, <1>3 DEF Next, Acts, vars, OperatorRemovesLock, runVars

LEMMA DecisionStays ==
  ASSUME Typed, Working, ApprovalInv, [Next]_vars
  PROVE  DecisionInv'
<1>1. PICK N : N = disk'["decision"].basis
  OBVIOUS
<1>2. ASSUME Approved'
      PROVE  Approvable(N)'
  <2>1. CASE disk'["decision"] = disk["decision"]
    <3>1. Approved /\ Approvable(N)
      BY <1>1, <1>2, <2>1 DEF ApprovalInv, DecisionInv, Approved
    <3>2. N["review"] = None => Page(N["final"])'
      <4>1. CASE \E q \in Proc : Planning(q)
        <5>1. N["review"] = None => N["final"] \notin Pipelines
          BY <1>1, <2>1, <3>1, <4>1 DEF ApprovalInv, PlanningInv
        <5> QED
          BY <5>1 DEF Page
      <4>2. CASE \A q \in Proc : ~Planning(q)
        BY <3>1, <4>2, PageStays DEF Approvable
      <4> QED
        BY <4>1, <4>2
    <3> QED
      BY <3>1, <3>2, ApprovableStays
  <2>2. ASSUME NEW p \in Proc, Rename(p), disk'["decision"] = doc[p],
               pc[p] = "rename", stage[p] = "GATE"
        PROVE  Approvable(N)'
    <3>1. Approving(p)
      BY <1>2, <2>2 DEF Approving, Approved
    <3>2. Approvable(N) /\ (N["review"] = None => p \in Pipelines)
      BY <1>1, <2>2, <3>1 DEF ApprovalInv, ApprovingInv
    <3>3. pc[p] \notin Resting /\ ~Planning(p)
      BY <2>2, FilesOfStages DEF Resting, Planning
    <3>4. N["review"] = None => Page(N["final"])'
      BY <3>2, <3>3, GatePlansNot, PageStays DEF Approvable, Working
    <3> QED
      BY <3>2, <3>4, ApprovableStays
  <2> QED
    BY <1>2, <2>1, <2>2, DecisionStep DEF Approved
<1> QED
  BY <1>1, <1>2 DEF DecisionInv, Approvable, Evident, Named, ChainOf, Spoken, Finalizing,
     Fitting, Page

LEMMA PlanningStays ==
  ASSUME Typed, Working, ApprovalInv, [Next]_vars, NEW p \in Proc, Planning(p)'
  PROVE  /\ "plan" \in todo'[p] => ~There("plan")'
         /\ Approved' /\ disk'["decision"].basis["review"] = None =>
              disk'["decision"].basis["final"] \notin Pipelines
<1> USE DEF Typed, TypeOK
<1>0. "plan" \in Files
  BY DEF Files
<1>1. CASE Acts(p)
  <2>1. CheckAbsent(p) \/ Rename(p)
    <3>1. CASE Elsewhere(p)
      BY <3>1, ElsewhereUnprepared DEF Planning, Prepared
    <3>2. CASE Require(p) \/ Announce(p) \/ EnsureSnapshot(p) \/ Capture(p)
               \/ CallProvider(p) \/ VerifyEvidence(p) \/ Judge(p) \/ Sign(p)
      <4>1. pc'[p] # "rename"
        BY <3>2, FailType, FirstStepType
        DEF Require, Announce, EnsureSnapshot, Capture, CallProvider, VerifyEvidence,
            Judge, Sign, AfterJudging, Goto
      <4> QED
        BY <4>1 DEF Planning
    <3> QED
      BY <1>1, <3>1, <3>2 DEF Acts, Step, Elsewhere
  <2>2. Outputs(p)' = Outputs(p)
    BY <2>1, OutputsStay DEF CheckAbsent, Rename, runVars
  <2>3. CASE CheckAbsent(p)
    <3>1. pc'[p] = "rename" /\ "plan" \in Outputs(p)
      BY <2>2 DEF Planning
    <3>2. ~There("plan") /\ disk' = disk
      <4>1. Goto(p, "release") => pc'[p] = "release"
        BY DEF Goto
      <4> QED
        BY <2>3, <3>1, <4>1 DEF CheckAbsent, runVars
    <3>3. disk["plan"].by = None
      BY <1>0, <3>2, AbsentFile
    <3>4. \A n \in Pipelines : ~Page(n)
      BY <3>3, PartiesAssumption DEF Page
    <3> QED
      BY <3>2, <3>4 DEF There, Approved, ApprovalInv, DecisionInv, Approvable
  <2>4. CASE Rename(p)
    <3>1. PICK g \in todo[p] :
            disk' = [disk EXCEPT ![g] = doc[p]] /\ todo' = [todo EXCEPT ![p] = @ \ {g}]
      BY <2>4 DEF Rename
    <3>2. Planning(p) /\ todo[p] \subseteq Outputs(p)
      BY <2>2, <2>4 DEF Planning, Rename, At
    <3>3. g # "decision"
      BY <3>1, <3>2, FilesOfStages DEF Planning
    <3>4. disk'["decision"] = disk["decision"]
      BY <3>1, <3>3
    <3>5. "plan" \in todo'[p] => "plan" \in todo[p] /\ disk'["plan"] = disk["plan"]
      BY <3>1
    <3> QED
      BY <3>2, <3>4, <3>5 DEF ApprovalInv, PlanningInv, Approved, There
  <2> QED
    BY <2>1, <2>3, <2>4
<1>2. CASE ~Acts(p)
  <2>1. Planning(p) /\ todo'[p] = todo[p]
    BY <1>2, GateRests DEF Planning
  <2>2. p \in Pipelines /\ pc[p] \notin Resting
    BY <2>1, PlansArePipelines DEF Planning, Resting
  <2>3. "plan" \in todo[p] => ~There("plan")'
    <3>1. \A q \in Proc : Acts(q) => ~Planning(q)
      <4>1. ASSUME NEW q \in Proc, Acts(q), Planning(q)
            PROVE  FALSE
        BY <1>2, <2>2, <4>1, PlansArePipelines, OneWorks DEF Planning, Resting, Working
      <4> QED
        BY <4>1
    <3>2. disk'["plan"] = disk["plan"] \/ There("plan")
      BY <3>1, PlanStep
    <3> QED
      BY <2>1, <3>2 DEF ApprovalInv, PlanningInv, There
  <2>4. ASSUME Approved', disk'["decision"].basis["review"] = None
        PROVE  disk'["decision"].basis["final"] \notin Pipelines
    <3>1. CASE disk'["decision"] = disk["decision"]
      BY <2>1, <2>4, <3>1 DEF ApprovalInv, PlanningInv, Approved
    <3>2. ASSUME NEW q \in Proc, Rename(q), disk'["decision"] = doc[q],
                 pc[q] = "rename", stage[q] = "GATE"
          PROVE  FALSE
      <4>1. Approving(q)
        BY <2>4, <3>2 DEF Approving, Approved
      <4>2. q \in Pipelines
        BY <2>4, <3>2, <4>1 DEF ApprovalInv, ApprovingInv
      <4>3. q # p
        BY <2>1, <3>2, FilesOfStages DEF Planning
      <4> QED
        BY <2>2, <3>2, <4>2, <4>3, OneWorks DEF Resting, Working
    <3> QED
      BY <2>4, <3>1, <3>2, DecisionStep DEF Approved
  <2> QED
    BY <2>1, <2>3, <2>4
<1> QED
  BY <1>1, <1>2

LEMMA ApprovalStays ==
  ASSUME Typed, Working, ApprovalInv, [Next]_vars
  PROVE  ApprovalInv'
<1>1. ASSUME NEW p \in Proc
      PROVE  JudgingInv(p)' /\ (Signing(p) => Page(disk["final"].by))'
  BY <1>1, JudgingStays, SigningStays
<1>2. ASSUME NEW p \in Proc
      PROVE  ApprovingInv(p)'
  BY <1>2, ApprovingStays DEF ApprovingInv, Approvable, Evident, Named, ChainOf, Spoken,
     Finalizing, Fitting, Page
<1>3. ASSUME NEW p \in Proc
      PROVE  PlanningInv(p)'
  BY <1>3, PlanningStays DEF PlanningInv
<1> QED
  BY <1>1, <1>2, <1>3, DecisionStays DEF ApprovalInv

LEMMA InitWorking == Init => Working /\ ApprovalInv
<1> SUFFICES ASSUME Init PROVE Working /\ ApprovalInv
  OBVIOUS
<1>1. \A p \in Proc : pc[p] = "idle" /\ ToWrite(p) = {}
  BY DEF Init, ToWrite, Prepared
<1>2. /\ disk["review"] = NoDoc /\ disk["decision"] = NoDoc
      /\ manifest = Created /\ \A p \in Proc : mem[p] = Created
  BY DEF Init, Files
<1>3. Working
  BY <1>1, <1>2, ShapeOfCreated, PartiesAssumption
  DEF Working, LockInv, Resting, Shapes, InStage, Unwritten, Judged, NoDoc
<1>4. ApprovalInv
  BY <1>1, <1>2 DEF ApprovalInv, JudgingInv, ApprovingInv, DecisionInv, Signing, Approving,
     PlanningInv, Planning, Approved, NoDoc
<1> QED
  BY <1>3, <1>4

\* Whatever commands, pipelines and hands do beside each other: if the files an
\* article's approval names are the ones on disk, the review judged exactly that
\* draft and passed it, and the final article was made from both; if the page a
\* plan's approval names was written by an orchestrated stage, the plan was too
\* (services/publish_gate.py, services/trade_plan_gate.py).
THEOREM ApprovalIsOfTheReviewed == Spec => []ApprovedIsReviewed
<1> DEFINE All == Typed /\ Working /\ ApprovalInv
<1>1. Init => All
  BY InitTyped, InitWorking
<1>2. All /\ [Next]_vars => All'
  <2> SUFFICES ASSUME All, [Next]_vars PROVE All'
    OBVIOUS
  <2>1. Typed' /\ Working'
    BY NextTyped, WorkingStays
  <2>2. ApprovalInv'
    BY ApprovalStays
  <2> QED
    BY <2>1, <2>2
<1>3. All => ApprovedIsReviewed
  <2> DEFINE N == disk["decision"].basis
             chain == {f \in Files : N[f] # None} \ {"decision"}
  <2> SUFFICES ASSUME All, Approved, \A f \in chain : disk[f].by = N[f]
               PROVE  \/ /\ chain \subseteq {"final"}
                         /\ N["final"] \in Pipelines =>
                              disk["plan"].by \in {N["final"], Editor}
                      \/ /\ chain = Article
                         /\ Editor \notin {N[f] : f \in chain}
                         /\ N["draft"] = N["writer"]
                         /\ N["final"] = N["finalizer"]
                         /\ disk["review"].verdict = "PASS"
                         /\ \A f \in {"draft", "writer"} :
                              /\ disk["review"].basis[f] = N[f]
                              /\ disk["finalizer"].basis[f] = N[f]
                         /\ disk["finalizer"].basis["review"] = N["review"]
    BY DEF ApprovedIsReviewed, Article, Approved
  <2>1. Approvable(N)
    BY DEF ApprovalInv, DecisionInv
  <2>2. chain = ChainOf(N) \ {"decision"}
    BY DEF ChainOf
  <2>3. CASE N["review"] = None
    BY <2>1, <2>2, <2>3 DEF Approvable, Page
  <2>4. CASE N["review"] # None
    <3>1. /\ \A f \in Files : N[f] \in Proc \cup {None}
          /\ ChainOf(N) = Article /\ N["draft"] = N["writer"] /\ N["final"] = N["finalizer"]
      BY <2>1, <2>4 DEF Approvable, Evident, Named
    <3>2. chain = Article
      BY <2>2, <3>1 DEF Article
    <3>3. Editor \notin {N[f] : f \in chain}
      BY <3>1, PartiesAssumption
    <3>4. disk["review"].by = N["review"] /\ disk["finalizer"].by = N["finalizer"]
      BY <3>2 DEF Article
    <3> QED
      BY <2>1, <2>4, <3>1, <3>2, <3>3, <3>4 DEF Approvable, Fitting
  <2> QED
    BY <2>3, <2>4
<1> HIDE DEF All
<1> QED
  BY <1>1, <1>2, <1>3, PTL DEF Spec
=============================================================================

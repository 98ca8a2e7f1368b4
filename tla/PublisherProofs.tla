--------------------------- MODULE PublisherProofs ---------------------------
(***************************************************************************)
(* Proofs about Publisher, for any number of invocations, chunks, retries  *)
(* and article contents.                                                   *)
(*                                                                         *)
(* First what holds when every invocation is orchestrated, that is, under  *)
(* the lock: LockedInv, and the refinement of PublishOnce.  Then what      *)
(* holds whatever invocations are mixed: a recorded outcome is true of the *)
(* attempt it names, and only the approved text goes out.  There no lock   *)
(* is used: an invocation posts in order and only under its own name, it   *)
(* stops posting before it concludes, and whoever closes another's attempt *)
(* claims nothing of it (UNCERTAIN, no chunk confirmed).                   *)
(***************************************************************************)
EXTENDS Publisher, TLAPS

\* The constants' assumptions, together.
Assumptions ==
  /\ NoProc \notin Proc
  /\ Proc = Pipelines \cup Clis
  /\ NChunks \in Nat \ {0}
  /\ MaxRetries \in Nat
  /\ ApprovedText \in Texts

\* They are all assumed by the modules that declare the constants.
LEMMA Assumed == Assumptions
BY NoProcAssumption, InvocationsAssumption, ChunksAssumption, TextsAssumption
   DEF Assumptions

-----------------------------------------------------------------------------
(* Types *)

\* The initial states are of their types.
LEMMA TypeInit == Init => TypeOK
BY Assumed DEF Assumptions, Init, TypeOK, LockInit, LockTypeOK, Statuses,
   AttemptedStatuses, PcValues, Sending, Recording

\* Every step of publish_run keeps the types: in particular it never indexes a
\* chunk past the last, retries past the limit or records an outcome it lacks.
LEMMA TypeStep == TypeOK /\ [Next]_vars => TypeOK'
<1> SUFFICES ASSUME TypeOK, [Next]_vars PROVE TypeOK'
  OBVIOUS
<1> USE Assumed DEF Assumptions
<1>1. CASE UNCHANGED vars
  BY <1>1 DEF vars, lockVars, runVars, localVars, TypeOK, LockTypeOK
<1>2. ASSUME NEW p \in Proc, StartPipeline(p) PROVE TypeOK'
  BY <1>2 DEF TypeOK, LockTypeOK, StartPipeline, Acquire, Refuse, Goto, At,
     runVars, lockVars, PcValues, Sending, Recording
<1>3. ASSUME NEW p \in Proc, StartCli(p) PROVE TypeOK'
  BY <1>3 DEF TypeOK, LockTypeOK, StartCli, Goto, At,
     runVars, lockVars, PcValues, Sending, Recording
<1>4. ASSUME NEW p \in Proc, Drive(p) PROVE TypeOK'
  BY <1>4 DEF TypeOK, LockTypeOK, Drive, Goto, At,
     runVars, lockVars, PcValues, Sending, Recording
<1>5. ASSUME NEW p \in Proc, LoadForEvent(p) PROVE TypeOK'
  BY <1>5 DEF TypeOK, LockTypeOK, LoadForEvent, Goto, At,
     runVars, lockVars, PcValues, Sending, Recording
<1>6. ASSUME NEW p \in Proc, SaveEvent(p) PROVE TypeOK'
  BY <1>6 DEF TypeOK, LockTypeOK, SaveEvent, Goto, At,
     runVars, lockVars, PcValues, Sending, Recording
<1>7. ASSUME NEW p \in Proc, ReleaseLock(p) PROVE TypeOK'
  BY <1>7 DEF TypeOK, LockTypeOK, ReleaseLock, Release, Goto, At,
     runVars, lockVars, PcValues, Sending, Recording
<1>8. ASSUME NEW p \in Proc, LoadManifest(p) PROVE TypeOK'
  BY <1>8 DEF TypeOK, LockTypeOK, LoadManifest, Goto, At,
     runVars, lockVars, PcValues, Sending, Recording
<1>9. ASSUME NEW p \in Proc, RequireNoResult(p) PROVE TypeOK'
  BY <1>9 DEF TypeOK, LockTypeOK, RequireNoResult, Leave, Goto, At,
     runVars, lockVars, PcValues, Sending, Recording
<1>10. ASSUME NEW p \in Proc, CheckOrphanIntent(p) PROVE TypeOK'
  BY <1>10 DEF TypeOK, LockTypeOK, CheckOrphanIntent, AfterOrphanCheck, Leave,
     Goto, At, runVars, lockVars, PcValues, Sending, Recording, Result, Outcomes
<1>11. ASSUME NEW p \in Proc, LoadApproved(p) PROVE TypeOK'
  BY <1>11 DEF TypeOK, LockTypeOK, LoadApproved, ApprovalHolds, Leave, Goto, At,
     runVars, lockVars, PcValues, Sending, Recording
<1>12. ASSUME NEW p \in Proc, CheckIntentAbsent(p) PROVE TypeOK'
  BY <1>12 DEF TypeOK, LockTypeOK, CheckIntentAbsent, Leave, Goto, At,
     runVars, lockVars, PcValues, Sending, Recording
<1>13. ASSUME NEW p \in Proc, CommitIntent(p) PROVE TypeOK'
  BY <1>13 DEF TypeOK, LockTypeOK, CommitIntent, Goto, At,
     runVars, lockVars, PcValues, Sending, Recording
<1>14. ASSUME NEW p \in Proc, SavePublishing(p) PROVE TypeOK'
  BY <1>14 DEF TypeOK, LockTypeOK, SavePublishing, Goto, At,
     runVars, lockVars, PcValues, Sending, Recording, Statuses
<1>15. ASSUME NEW p \in Proc, SendChunk(p) PROVE TypeOK'
  BY <1>15 DEF TypeOK, LockTypeOK, SendChunk, Goto, At, Message,
     runVars, lockVars, PcValues, Sending, Recording
<1>16. ASSUME NEW p \in Proc, ReplyConfirmed(p) PROVE TypeOK'
  BY <1>16 DEF TypeOK, LockTypeOK, ReplyConfirmed, Conclude, Goto, At, Result,
     Outcomes, runVars, lockVars, PcValues, Sending, Recording
<1>17. ASSUME NEW p \in Proc, ReplyRateLimited(p) PROVE TypeOK'
  BY <1>17 DEF TypeOK, LockTypeOK, ReplyRateLimited, RetriesSpent, NextTry,
     RefusalOutcome, Confirmed, Conclude, Goto, At, Result,
     Outcomes, runVars, lockVars, PcValues, Sending, Recording
<1>18. ASSUME NEW p \in Proc, ReplyRefused(p) PROVE TypeOK'
  BY <1>18 DEF TypeOK, LockTypeOK, ReplyRefused, RefusalOutcome, Confirmed,
     Conclude, Goto, At, Result, Outcomes, runVars, lockVars, PcValues,
     Sending, Recording
<1>19. ASSUME NEW p \in Proc, ReplyAmbiguous(p) PROVE TypeOK'
  BY <1>19 DEF TypeOK, LockTypeOK, ReplyAmbiguous, Confirmed, Conclude, Goto,
     At, Result, Outcomes, runVars, lockVars, PcValues, Sending, Recording
<1>20. ASSUME NEW p \in Proc, CheckResultAbsent(p) PROVE TypeOK'
  BY <1>20 DEF TypeOK, LockTypeOK, CheckResultAbsent, Leave, Goto, At,
     runVars, lockVars, PcValues, Sending, Recording
<1>21. ASSUME NEW p \in Proc, CommitResult(p) PROVE TypeOK'
  BY <1>21 DEF TypeOK, LockTypeOK, CommitResult, Goto, At,
     runVars, lockVars, PcValues, Sending, Recording
<1>22. ASSUME NEW p \in Proc, SaveOutcome(p) PROVE TypeOK'
  BY <1>22 DEF TypeOK, LockTypeOK, SaveOutcome, Goto, At, StatusByOutcome,
     Statuses, AttemptedStatuses, Result, Outcomes,
     runVars, lockVars, PcValues, Sending, Recording
<1>23. ASSUME NEW p \in Proc, Raise(p) PROVE TypeOK'
  BY <1>23 DEF TypeOK, LockTypeOK, Raise, Leave, Goto,
     runVars, lockVars, PcValues, Sending, Recording
<1>24. ASSUME NEW p \in Proc, Crash(p) PROVE TypeOK'
  BY <1>24 DEF TypeOK, LockTypeOK, Crash, Kill, runVars, localVars
<1>25. CASE EditArticle
  BY <1>25 DEF TypeOK, LockTypeOK, EditArticle, lockVars, localVars
<1>26. CASE OperatorRemovesLock
  BY <1>26 DEF TypeOK, LockTypeOK, OperatorRemovesLock, HumanRemovesLock,
     runVars, localVars
<1>27. QED
  BY <1>1, <1>2, <1>3, <1>4, <1>5, <1>6, <1>7, <1>8, <1>9, <1>10, <1>11, <1>12,
     <1>13, <1>14, <1>15, <1>16, <1>17, <1>18, <1>19, <1>20, <1>21, <1>22,
     <1>23, <1>24, <1>25, <1>26 DEF Next, Proceed, PublishRun

\* Every reachable state is of its types, with any mixture of invocations.
THEOREM TypeCorrect == Spec => []TypeOK
BY TypeInit, TypeStep, PTL DEF Spec

-----------------------------------------------------------------------------
(* Every invocation takes the lock *)

\* Nothing is running, recorded or posted at first.
LEMMA LockedInit == Init => LockedInv
BY DEF Init, LockedInv, SoleRunner, FilesInOrder, ChecksStillHold, Progress,
   VerdictHolds, AtMostOnce, StatusMatchesResult, Running, RunningAt,
   AttemptedStatuses

\* A step that leaves the Run directory alone keeps what is said of it alone.
LEMMA FilesUntouched ==
  ASSUME FilesInOrder, AtMostOnce, StatusMatchesResult, UNCHANGED runVars
  PROVE  FilesInOrder' /\ AtMostOnce' /\ StatusMatchesResult'
BY DEF runVars, FilesInOrder, AtMostOnce, StatusMatchesResult

\* The chunks seen after a refusal tell FAILED from PARTIAL, and both from
\* PUBLISHED.
LEMMA Prefix ==
  ASSUME NEW k \in Nat, NEW n \in Nat, k < n
  PROVE  /\ 1..k # 1..n
         /\ k = 0 <=> 1..k = {}
<1>1. n \in 1..n /\ n \notin 1..k
  OBVIOUS
<1>2. k > 0 => k \in 1..k
  OBVIOUS
<1>3. QED
  BY <1>1, <1>2

\* A chunk that is posted is seen, and nothing else changes in what is seen.
LEMMA SeenGrows ==
  ASSUME NEW m, posted' = posted \cup {m}
  PROVE  Seen' = Seen \cup {m.chunk}
BY DEF Seen

\* Every step keeps the invariant: what the lock's owner has checked stays true
\* because nobody else is between its first step and its last.
LEMMA LockedStep ==
  ASSUME Clis = {}, TypeOK, LockedInv, [Next]_vars PROVE LockedInv'
<1> USE Assumed DEF Assumptions, Goto, At, Running, RunningAt
<1>1. /\ SoleRunner /\ FilesInOrder /\ ChecksStillHold /\ Progress
      /\ VerdictHolds /\ AtMostOnce /\ StatusMatchesResult
  BY DEF LockedInv
<1>2. /\ pc \in [Proc -> PcValues]
      /\ snap \in [Proc -> Statuses]
      /\ idx \in [Proc -> 1..NChunks + 1]
      /\ landed \in [Proc -> BOOLEAN]
      /\ verdict \in [Proc -> Result \cup {NoResult}]
      /\ intent \in Proc \cup {NoProc}
      /\ result \in Result \cup {NoResult}
      /\ lockFile \in Proc \cup {NoProc}
  BY DEF TypeOK, LockTypeOK
<1>3. CASE UNCHANGED vars
  BY <1>1, <1>3 DEF vars, lockVars, runVars, localVars, LockedInv, SoleRunner,
     FilesInOrder, ChecksStillHold, Progress, VerdictHolds, AtMostOnce,
     StatusMatchesResult, Seen
<1>4. ASSUME NEW p \in Proc, StartPipeline(p) PROVE LockedInv'
  <2>1. FilesInOrder' /\ AtMostOnce' /\ StatusMatchesResult'
    BY <1>1, <1>4, FilesUntouched DEF StartPipeline
  <2>2. SoleRunner'
    BY <1>1, <1>2, <1>4 DEF StartPipeline, Acquire, Refuse, lockVars,
       SoleRunner
  <2>3. ChecksStillHold'
    BY <1>1, <1>2, <1>4 DEF StartPipeline, Acquire, Refuse, lockVars, runVars,
       ChecksStillHold
  <2>4. Progress'
    BY <1>1, <1>2, <1>4 DEF StartPipeline, Acquire, Refuse, lockVars, runVars,
       Progress, Seen
  <2>5. VerdictHolds'
    BY ZenonT(60), <1>1, <1>2, <1>4
       DEF StartPipeline, Acquire, Refuse, lockVars, runVars, localVars,
           SoleRunner, VerdictHolds, Progress, Seen
  <2>6. QED
    BY <2>1, <2>2, <2>3, <2>4, <2>5 DEF LockedInv
<1>5. ASSUME NEW p \in Proc, Drive(p) PROVE LockedInv'
  <2>1. FilesInOrder' /\ AtMostOnce' /\ StatusMatchesResult'
    BY <1>1, <1>5, FilesUntouched DEF Drive
  <2>2. SoleRunner'
    BY <1>1, <1>5 DEF Drive, lockVars, SoleRunner
  <2>3. ChecksStillHold'
    BY <1>1, <1>5 DEF Drive, lockVars, SoleRunner, ChecksStillHold
  <2>4. Progress'
    BY <1>1, <1>5 DEF Drive, lockVars, SoleRunner, Progress, Seen
  <2>5. VerdictHolds'
    BY <1>1, <1>5 DEF Drive, lockVars, SoleRunner, VerdictHolds
  <2>6. QED
    BY <2>1, <2>2, <2>3, <2>4, <2>5 DEF LockedInv
<1>6. ASSUME NEW p \in Proc, ReleaseLock(p) PROVE LockedInv'
  <2>1. FilesInOrder' /\ AtMostOnce' /\ StatusMatchesResult'
    BY <1>1, <1>6, FilesUntouched DEF ReleaseLock
  <2>2. SoleRunner'
    BY <1>1, <1>2, <1>6 DEF ReleaseLock, Release, SoleRunner
  <2>3. ChecksStillHold'
    BY <1>1, <1>6 DEF ReleaseLock, Release, SoleRunner, ChecksStillHold
  <2>4. Progress'
    BY <1>1, <1>6 DEF ReleaseLock, Release, SoleRunner, Progress, FilesInOrder
  <2>5. VerdictHolds'
    BY <1>1, <1>6 DEF ReleaseLock, Release, SoleRunner, VerdictHolds
  <2>6. QED
    BY <2>1, <2>2, <2>3, <2>4, <2>5 DEF LockedInv
<1>7. ASSUME NEW p \in Proc, LoadForEvent(p) PROVE LockedInv'
  <2>1. FilesInOrder' /\ AtMostOnce' /\ StatusMatchesResult'
    BY <1>1, <1>7, FilesUntouched DEF LoadForEvent
  <2>2. SoleRunner'
    BY <1>1, <1>7 DEF LoadForEvent, lockVars, SoleRunner
  <2>3. ChecksStillHold'
    BY <1>1, <1>2, <1>7 DEF LoadForEvent, lockVars, runVars, ChecksStillHold
  <2>4. Progress'
    BY <1>1, <1>7 DEF LoadForEvent, lockVars, SoleRunner, Progress
  <2>5. VerdictHolds'
    BY <1>1, <1>7 DEF LoadForEvent, lockVars, runVars, SoleRunner,
       VerdictHolds, Seen
  <2>6. QED
    BY <2>1, <2>2, <2>3, <2>4, <2>5 DEF LockedInv
<1>8. ASSUME NEW p \in Proc, LoadManifest(p) PROVE LockedInv'
  <2>1. FilesInOrder' /\ AtMostOnce' /\ StatusMatchesResult'
    BY <1>1, <1>8, FilesUntouched DEF LoadManifest
  <2>2. SoleRunner'
    BY <1>1, <1>8 DEF LoadManifest, lockVars, SoleRunner
  <2>3. ChecksStillHold'
    BY <1>1, <1>8 DEF LoadManifest, lockVars, SoleRunner, ChecksStillHold
  <2>4. Progress'
    BY <1>1, <1>2, <1>8 DEF LoadManifest, lockVars, SoleRunner, Progress, Seen
  <2>5. VerdictHolds'
    BY <1>1, <1>8 DEF LoadManifest, lockVars, SoleRunner, VerdictHolds, Seen
  <2>6. QED
    BY <2>1, <2>2, <2>3, <2>4, <2>5 DEF LockedInv
<1>9. ASSUME NEW p \in Proc, RequireNoResult(p) PROVE LockedInv'
  <2>1. FilesInOrder' /\ AtMostOnce' /\ StatusMatchesResult'
    BY <1>1, <1>9, FilesUntouched DEF RequireNoResult
  <2>2. SoleRunner'
    BY <1>1, <1>9 DEF RequireNoResult, lockVars, SoleRunner
  <2>3. ChecksStillHold'
    BY <1>1, <1>9 DEF RequireNoResult, Leave, lockVars, runVars,
       ChecksStillHold
  <2>4. Progress'
    BY <1>1, <1>9 DEF RequireNoResult, Leave, lockVars, SoleRunner, Progress,
       ChecksStillHold
  <2>5. VerdictHolds'
    BY <1>1, <1>9 DEF RequireNoResult, Leave, lockVars, SoleRunner,
       VerdictHolds
  <2>6. QED
    BY <2>1, <2>2, <2>3, <2>4, <2>5 DEF LockedInv
<1>10. ASSUME NEW p \in Proc, CheckOrphanIntent(p) PROVE LockedInv'
  <2>1. FilesInOrder' /\ AtMostOnce' /\ StatusMatchesResult'
    BY <1>1, <1>10, FilesUntouched DEF CheckOrphanIntent
  <2>2. SoleRunner'
    BY <1>1, <1>10 DEF CheckOrphanIntent, lockVars, SoleRunner
  <2>3. ChecksStillHold'
    BY <1>1, <1>10 DEF CheckOrphanIntent, AfterOrphanCheck, Leave, lockVars,
       runVars, ChecksStillHold
  <2>4. Progress'
    BY <1>1, <1>10 DEF CheckOrphanIntent, AfterOrphanCheck, Leave, lockVars,
       SoleRunner, Progress, Seen
  <2>5. VerdictHolds'
    BY <1>1, <1>2, <1>10 DEF CheckOrphanIntent, AfterOrphanCheck, Leave,
       Result, Outcomes, lockVars, runVars, SoleRunner, VerdictHolds, Seen
  <2>6. QED
    BY <2>1, <2>2, <2>3, <2>4, <2>5 DEF LockedInv
<1>11. ASSUME NEW p \in Proc, LoadApproved(p) PROVE LockedInv'
  <2>1. FilesInOrder' /\ AtMostOnce' /\ StatusMatchesResult'
    BY <1>1, <1>11, FilesUntouched DEF LoadApproved
  <2>2. SoleRunner'
    BY <1>1, <1>11 DEF LoadApproved, lockVars, SoleRunner
  <2>3. ChecksStillHold'
    BY <1>1, <1>11 DEF LoadApproved, Leave, lockVars, runVars, ChecksStillHold
  <2>4. Progress'
    BY <1>1, <1>11 DEF LoadApproved, Leave, lockVars, Progress,
       ChecksStillHold
  <2>5. VerdictHolds'
    BY <1>1, <1>11 DEF LoadApproved, Leave, lockVars, SoleRunner, VerdictHolds
  <2>6. QED
    BY <2>1, <2>2, <2>3, <2>4, <2>5 DEF LockedInv
<1>12. ASSUME NEW p \in Proc, CheckIntentAbsent(p) PROVE LockedInv'
  <2>1. FilesInOrder' /\ AtMostOnce' /\ StatusMatchesResult'
    BY <1>1, <1>12, FilesUntouched DEF CheckIntentAbsent
  <2>2. SoleRunner'
    BY <1>1, <1>12 DEF CheckIntentAbsent, lockVars, SoleRunner
  <2>3. ChecksStillHold'
    BY <1>1, <1>12 DEF CheckIntentAbsent, lockVars, runVars, ChecksStillHold
  <2>4. Progress'
    BY <1>1, <1>12 DEF CheckIntentAbsent, lockVars, Progress, ChecksStillHold
  <2>5. VerdictHolds'
    BY <1>1, <1>12 DEF CheckIntentAbsent, Leave, lockVars, SoleRunner,
       VerdictHolds
  <2>6. QED
    BY <2>1, <2>2, <2>3, <2>4, <2>5 DEF LockedInv
<1>13. ASSUME NEW p \in Proc, ReplyConfirmed(p) PROVE LockedInv'
  <2>0. /\ intent = p /\ p # NoProc /\ idx[p] \in 1..NChunks
        /\ Seen' = Seen
        /\ Seen = 1..idx[p]
    BY <1>1, <1>2, <1>13 DEF ReplyConfirmed, ChecksStillHold, Progress, Seen,
       runVars
  <2>1. FilesInOrder' /\ AtMostOnce' /\ StatusMatchesResult'
    BY <1>1, <1>13, FilesUntouched DEF ReplyConfirmed
  <2>2. SoleRunner'
    BY <1>1, <1>2, <1>13 DEF ReplyConfirmed, Conclude, lockVars, SoleRunner
  <2>3. ChecksStillHold'
    BY <1>1, <1>2, <1>13 DEF ReplyConfirmed, Conclude, lockVars, runVars,
       ChecksStillHold
  <2>4. Progress'
    BY <1>1, <1>2, <1>13 DEF ReplyConfirmed, Conclude, lockVars, runVars,
       Progress, Seen
  <2>5. VerdictHolds'
    BY <2>0, <1>1, <1>2, <1>13 DEF ReplyConfirmed, Conclude, Result, Outcomes,
       lockVars, runVars, VerdictHolds
  <2>6. QED
    BY <2>1, <2>2, <2>3, <2>4, <2>5 DEF LockedInv
<1>14. ASSUME NEW p \in Proc, ReplyRateLimited(p) PROVE LockedInv'
  <2>0. /\ intent = p /\ p # NoProc /\ idx[p] \in 1..NChunks
        /\ Seen' = Seen
        /\ Seen # 1..NChunks
        /\ Confirmed(p) = 0 <=> Seen = {}
    <3>1. /\ intent = p /\ p # NoProc /\ idx[p] \in 1..NChunks
          /\ Seen' = Seen
          /\ Seen = 1..Confirmed(p)
      BY <1>1, <1>2, <1>14 DEF ReplyRateLimited, ChecksStillHold, Progress,
         Seen, runVars, Confirmed
    <3>2. Confirmed(p) \in Nat /\ Confirmed(p) < NChunks
      BY <3>1 DEF Confirmed
    <3>3. QED
      BY <3>1, <3>2
  <2>1. FilesInOrder' /\ AtMostOnce' /\ StatusMatchesResult'
    BY <1>1, <1>14, FilesUntouched DEF ReplyRateLimited
  <2>2. SoleRunner'
    BY <1>1, <1>2, <1>14 DEF ReplyRateLimited, Conclude, lockVars, SoleRunner
  <2>3. ChecksStillHold'
    BY <1>1, <1>2, <1>14 DEF ReplyRateLimited, Conclude, lockVars, runVars,
       ChecksStillHold
  <2>4. Progress'
    BY <1>1, <1>2, <1>14 DEF ReplyRateLimited, Conclude, lockVars, runVars,
       Progress, Seen
  <2>5. VerdictHolds'
    BY <2>0, <1>1, <1>2, <1>14 DEF ReplyRateLimited, RefusalOutcome,
       Confirmed, Conclude, Result, Outcomes, lockVars, runVars, VerdictHolds
  <2>6. QED
    BY <2>1, <2>2, <2>3, <2>4, <2>5 DEF LockedInv
<1>15. ASSUME NEW p \in Proc, ReplyRefused(p) PROVE LockedInv'
  <2>0. /\ intent = p /\ p # NoProc /\ idx[p] \in 1..NChunks
        /\ Seen' = Seen
        /\ Seen # 1..NChunks
        /\ Confirmed(p) = 0 <=> Seen = {}
    <3>1. /\ intent = p /\ p # NoProc /\ idx[p] \in 1..NChunks
          /\ Seen' = Seen
          /\ Seen = 1..Confirmed(p)
      BY <1>1, <1>2, <1>15 DEF ReplyRefused, ChecksStillHold, Progress, Seen,
         runVars, Confirmed
    <3>2. Confirmed(p) \in Nat /\ Confirmed(p) < NChunks
      BY <3>1 DEF Confirmed
    <3>3. QED
      BY <3>1, <3>2
  <2>1. FilesInOrder' /\ AtMostOnce' /\ StatusMatchesResult'
    BY <1>1, <1>15, FilesUntouched DEF ReplyRefused
  <2>2. SoleRunner'
    BY <1>1, <1>15 DEF ReplyRefused, Conclude, lockVars, SoleRunner
  <2>3. ChecksStillHold'
    BY <1>1, <1>15 DEF ReplyRefused, Conclude, lockVars, runVars,
       ChecksStillHold
  <2>4. Progress'
    BY <1>1, <1>2, <1>15 DEF ReplyRefused, Conclude, lockVars, Progress,
       ChecksStillHold
  <2>5. VerdictHolds'
    BY <2>0, <1>1, <1>2, <1>15 DEF ReplyRefused, RefusalOutcome, Confirmed,
       Conclude, Result, Outcomes, lockVars, runVars, VerdictHolds
  <2>6. QED
    BY <2>1, <2>2, <2>3, <2>4, <2>5 DEF LockedInv
<1>16. ASSUME NEW p \in Proc, ReplyAmbiguous(p) PROVE LockedInv'
  <2>0. /\ intent = p /\ p # NoProc /\ idx[p] \in 1..NChunks
        /\ Seen' = Seen
    BY <1>1, <1>2, <1>16 DEF ReplyAmbiguous, ChecksStillHold, Progress, Seen,
       runVars
  <2>1. FilesInOrder' /\ AtMostOnce' /\ StatusMatchesResult'
    BY <1>1, <1>16, FilesUntouched DEF ReplyAmbiguous
  <2>2. SoleRunner'
    BY <1>1, <1>16 DEF ReplyAmbiguous, Conclude, lockVars, SoleRunner
  <2>3. ChecksStillHold'
    BY <1>1, <1>16 DEF ReplyAmbiguous, Conclude, lockVars, runVars,
       ChecksStillHold
  <2>4. Progress'
    BY <1>1, <1>2, <1>16 DEF ReplyAmbiguous, Conclude, lockVars, Progress,
       ChecksStillHold
  <2>5. VerdictHolds'
    BY <2>0, <1>1, <1>2, <1>16 DEF ReplyAmbiguous, Confirmed, Conclude,
       Result, Outcomes, lockVars, runVars, VerdictHolds
  <2>6. QED
    BY <2>1, <2>2, <2>3, <2>4, <2>5 DEF LockedInv
<1>17. ASSUME NEW p \in Proc, CheckResultAbsent(p) PROVE LockedInv'
  <2>1. FilesInOrder' /\ AtMostOnce' /\ StatusMatchesResult'
    BY <1>1, <1>17, FilesUntouched DEF CheckResultAbsent
  <2>2. SoleRunner'
    BY <1>1, <1>17 DEF CheckResultAbsent, lockVars, SoleRunner
  <2>3. ChecksStillHold'
    BY <1>1, <1>17 DEF CheckResultAbsent, Leave, lockVars, runVars,
       ChecksStillHold
  <2>4. Progress'
    BY <1>1, <1>17 DEF CheckResultAbsent, Leave, lockVars, SoleRunner,
       Progress
  <2>5. VerdictHolds'
    BY ZenonT(60), <1>1, <1>2, <1>17
       DEF CheckResultAbsent, Leave, lockVars, runVars, localVars, SoleRunner,
           VerdictHolds, Progress, Seen
  <2>6. QED
    BY <2>1, <2>2, <2>3, <2>4, <2>5 DEF LockedInv
<1>18. ASSUME NEW p \in Proc, Raise(p) PROVE LockedInv'
  <2>1. FilesInOrder' /\ AtMostOnce' /\ StatusMatchesResult'
    BY <1>1, <1>18, FilesUntouched DEF Raise
  <2>2. SoleRunner'
    BY <1>1, <1>18 DEF Raise, lockVars, SoleRunner
  <2>3. ChecksStillHold'
    BY <1>1, <1>2, <1>18 DEF Raise, Leave, lockVars, SoleRunner,
       ChecksStillHold
  <2>4. Progress'
    BY <1>1, <1>2, <1>18 DEF Raise, Leave, lockVars, SoleRunner, Progress
  <2>5. VerdictHolds'
    BY <1>1, <1>2, <1>18 DEF Raise, Leave, lockVars, SoleRunner, VerdictHolds
  <2>6. QED
    BY <2>1, <2>2, <2>3, <2>4, <2>5 DEF LockedInv
<1>19. ASSUME NEW p \in Proc, Crash(p) PROVE LockedInv'
  <2>1. FilesInOrder' /\ AtMostOnce' /\ StatusMatchesResult'
    BY <1>1, <1>19, FilesUntouched DEF Crash
  <2>2. SoleRunner'
    BY <1>1, <1>19 DEF Crash, Kill, localVars, localVars, SoleRunner
  <2>3. ChecksStillHold'
    BY <1>1, <1>19 DEF Crash, Kill, localVars, localVars, SoleRunner,
       ChecksStillHold
  <2>4. Progress'
    BY <1>1, <1>19 DEF Crash, Kill, localVars, localVars, SoleRunner, Progress
  <2>5. VerdictHolds'
    BY <1>1, <1>19 DEF Crash, Kill, localVars, localVars, SoleRunner,
       VerdictHolds
  <2>6. QED
    BY <2>1, <2>2, <2>3, <2>4, <2>5 DEF LockedInv
<1>20. ASSUME NEW p \in Proc, SaveEvent(p) PROVE LockedInv'
  <2>1. SoleRunner'
    BY <1>1, <1>20 DEF SaveEvent, lockVars, SoleRunner
  <2>2. FilesInOrder'
    BY <1>1, <1>20 DEF SaveEvent, FilesInOrder
  <2>3. ChecksStillHold'
    BY <1>1, <1>20 DEF SaveEvent, lockVars, ChecksStillHold
  <2>4. Progress'
    BY <1>1, <1>20 DEF SaveEvent, lockVars, Progress, Seen
  <2>5. VerdictHolds'
    BY <1>1, <1>20 DEF SaveEvent, lockVars, SoleRunner, VerdictHolds, Seen
  <2>6. AtMostOnce'
    BY <1>1, <1>20 DEF SaveEvent, AtMostOnce
  <2>7. StatusMatchesResult'
    BY <1>1, <1>20 DEF SaveEvent, StatusMatchesResult, ChecksStillHold
  <2>8. QED
    BY <2>1, <2>2, <2>3, <2>4, <2>5, <2>6, <2>7 DEF LockedInv
<1>21. ASSUME NEW p \in Proc, CommitIntent(p) PROVE LockedInv'
  <2>1. SoleRunner'
    BY <1>1, <1>21 DEF CommitIntent, lockVars, SoleRunner
  <2>2. FilesInOrder'
    BY <1>1, <1>21 DEF CommitIntent, FilesInOrder, ChecksStillHold
  <2>3. ChecksStillHold'
    BY <1>1, <1>2, <1>21 DEF CommitIntent, lockVars, SoleRunner,
       ChecksStillHold
  <2>4. Progress'
    BY <1>1, <1>21 DEF CommitIntent, lockVars, Progress, FilesInOrder,
       ChecksStillHold
  <2>5. VerdictHolds'
    BY <1>1, <1>21 DEF CommitIntent, lockVars, SoleRunner, VerdictHolds
  <2>6. AtMostOnce'
    BY <1>1, <1>21 DEF CommitIntent, AtMostOnce
  <2>7. StatusMatchesResult'
    BY <1>1, <1>21 DEF CommitIntent, StatusMatchesResult
  <2>8. QED
    BY <2>1, <2>2, <2>3, <2>4, <2>5, <2>6, <2>7 DEF LockedInv
<1>22. ASSUME NEW p \in Proc, SavePublishing(p) PROVE LockedInv'
  <2>1. SoleRunner'
    BY <1>1, <1>22 DEF SavePublishing, lockVars, SoleRunner
  <2>2. FilesInOrder'
    BY <1>1, <1>22 DEF SavePublishing, FilesInOrder
  <2>3. ChecksStillHold'
    BY <1>1, <1>22 DEF SavePublishing, lockVars, SoleRunner, ChecksStillHold
  <2>4. Progress'
    BY <1>1, <1>22 DEF SavePublishing, lockVars, Progress, Seen
  <2>5. VerdictHolds'
    BY <1>1, <1>22 DEF SavePublishing, lockVars, VerdictHolds, Progress, Seen
  <2>6. AtMostOnce'
    BY <1>1, <1>22 DEF SavePublishing, AtMostOnce
  <2>7. StatusMatchesResult'
    BY <1>22 DEF SavePublishing, AttemptedStatuses, StatusMatchesResult,
       AttemptedStatuses
  <2>8. QED
    BY <2>1, <2>2, <2>3, <2>4, <2>5, <2>6, <2>7 DEF LockedInv
<1>23. ASSUME NEW p \in Proc, SendChunk(p) PROVE LockedInv'
  <2> PICK accepted \in BOOLEAN :
          /\ landed' = [landed EXCEPT ![p] = accepted]
          /\ posted' = IF accepted
                         THEN posted \cup {[by |-> p, chunk |-> idx[p],
                                            try |-> tries[p], text |-> text[p]]}
                         ELSE posted
    BY <1>23 DEF SendChunk
  <2>0. /\ idx[p] \in 1..NChunks
        /\ Seen' = IF accepted THEN 1..idx[p] ELSE 1..idx[p] - 1
    <3>1. idx[p] \in 1..NChunks /\ Seen = 1..idx[p] - 1
      BY <1>1, <1>2, <1>23 DEF SendChunk, Progress
    <3>2. CASE accepted
      <4> DEFINE m == [by |-> p, chunk |-> idx[p],
                       try |-> tries[p], text |-> text[p]]
      <4>1. posted' = posted \cup {m} /\ m.chunk = idx[p]
        BY <3>2
      <4> HIDE DEF m
      <4>2. Seen' = Seen \cup {idx[p]}
        BY <4>1, SeenGrows
      <4>3. 1..idx[p] = (1..idx[p] - 1) \cup {idx[p]}
        BY <3>1
      <4>4. QED
        BY <3>1, <3>2, <4>2
    <3>3. CASE ~accepted
      BY <3>1, <3>3 DEF Seen
    <3>4. QED
      BY <3>2, <3>3
  <2>1. SoleRunner'
    BY <1>1, <1>23 DEF SendChunk, lockVars, SoleRunner
  <2>2. FilesInOrder'
    BY <1>1, <1>23 DEF SendChunk, FilesInOrder, ChecksStillHold
  <2>3. ChecksStillHold'
    BY <1>1, <1>23 DEF SendChunk, lockVars, ChecksStillHold
  <2>4. Progress'
    <3>1. landed'[p] = accepted
      BY <1>2
    <3>2. idx' = idx /\ pc'[p] = "reply"
      BY <1>2, <1>23 DEF SendChunk
    <3>3. \A q \in Proc : RunningAt(q, PcValues \ {"idle", "done"})' => q = p
      BY <1>1, <1>23 DEF SendChunk, SoleRunner, lockVars
    <3>4. QED
      BY <2>0, <3>1, <3>2, <3>3 DEF Progress, PcValues
  <2>5. VerdictHolds'
    BY <1>1, <1>23 DEF SendChunk, lockVars, SoleRunner, VerdictHolds, Seen
  <2>6. AtMostOnce'
    BY <1>1, <1>23 DEF SendChunk, AtMostOnce, Progress, Seen
  <2>7. StatusMatchesResult'
    BY <1>1, <1>23 DEF SendChunk, StatusMatchesResult
  <2>8. QED
    BY <2>1, <2>2, <2>3, <2>4, <2>5, <2>6, <2>7 DEF LockedInv
<1>24. ASSUME NEW p \in Proc, CommitResult(p) PROVE LockedInv'
  <2>0. verdict[p] \in Result /\ verdict[p] # NoResult
    BY <1>1, <1>24 DEF CommitResult, VerdictHolds, Result, NoResult
  <2>1. SoleRunner'
    BY <1>1, <1>24 DEF CommitResult, lockVars, SoleRunner
  <2>2. FilesInOrder'
    BY <1>1, <1>24 DEF CommitResult, FilesInOrder, VerdictHolds
  <2>3. ChecksStillHold'
    BY <1>1, <1>2, <1>24 DEF CommitResult, lockVars, SoleRunner,
       ChecksStillHold
  <2>4. Progress'
    BY <1>1, <1>24 DEF CommitResult, lockVars, Progress, Seen
  <2>5. VerdictHolds'
    BY <2>0, <1>1, <1>24 DEF CommitResult, lockVars, SoleRunner, VerdictHolds,
       Seen
  <2>6. AtMostOnce'
    BY <1>1, <1>24 DEF CommitResult, AtMostOnce
  <2>7. StatusMatchesResult'
    BY <1>1, <1>24 DEF CommitResult, StatusMatchesResult, ChecksStillHold
  <2>8. QED
    BY <2>1, <2>2, <2>3, <2>4, <2>5, <2>6, <2>7 DEF LockedInv
<1>25. ASSUME NEW p \in Proc, SaveOutcome(p) PROVE LockedInv'
  <2>1. SoleRunner'
    BY <1>1, <1>25 DEF SaveOutcome, lockVars, SoleRunner
  <2>2. FilesInOrder'
    BY <1>1, <1>25 DEF SaveOutcome, FilesInOrder
  <2>3. ChecksStillHold'
    BY <1>1, <1>25 DEF SaveOutcome, lockVars, SoleRunner, ChecksStillHold
  <2>4. Progress'
    BY <1>1, <1>25 DEF SaveOutcome, lockVars, Progress, Seen
  <2>5. VerdictHolds'
    BY <1>1, <1>25 DEF SaveOutcome, lockVars, SoleRunner, VerdictHolds
  <2>6. AtMostOnce'
    BY <1>1, <1>25 DEF SaveOutcome, AtMostOnce
  <2>7. StatusMatchesResult'
    BY <1>1, <1>2, <1>25
       DEF SaveOutcome, StatusByOutcome, lockVars, runVars, localVars,
           StatusMatchesResult, VerdictHolds, ChecksStillHold, AttemptedStatuses
  <2>8. QED
    BY <2>1, <2>2, <2>3, <2>4, <2>5, <2>6, <2>7 DEF LockedInv
<1>26. CASE EditArticle
  BY <1>1, <1>2, <1>26 DEF EditArticle, lockVars, localVars, LockedInv, SoleRunner,
     FilesInOrder, ChecksStillHold, Progress, VerdictHolds, AtMostOnce, StatusMatchesResult, Seen
<1>27. CASE OperatorRemovesLock
  BY <1>27 DEF OperatorRemovesLock, HumanRemovesLock, runVars, localVars,
     LockedInv, SoleRunner, FilesInOrder, ChecksStillHold, Progress,
     VerdictHolds, AtMostOnce, StatusMatchesResult
<1>28. ASSUME NEW p \in Proc, StartCli(p) PROVE FALSE
  BY <1>28 DEF StartCli
<1> QED
  BY <1>3, <1>4, <1>5, <1>6, <1>7, <1>8, <1>9, <1>10, <1>11, <1>12, <1>13,
     <1>14, <1>15, <1>16, <1>17, <1>18, <1>19, <1>20, <1>21, <1>22, <1>23, <1>24,
     <1>25, <1>26, <1>27, <1>28 DEF Next, Proceed, PublishRun

\* When every invocation is orchestrated, the invariant always holds.
THEOREM LockedCorrect ==
  ASSUME Clis = {} PROVE Spec => []LockedInv
<1>1. TypeOK /\ LockedInv /\ [Next]_vars => LockedInv'
  BY LockedStep
<1>2. QED
  BY TypeCorrect, LockedInit, <1>1, PTL DEF Spec

\* No chunk is posted twice, however invocations interleave, are killed or fail.
THEOREM PostedAtMostOnce ==
  ASSUME Clis = {} PROVE Spec => []AtMostOnce /\ []LockedPostsOnce
<1>1. LockedInv => AtMostOnce /\ LockedPostsOnce
  BY DEF LockedInv, LockedPostsOnce
<1>2. QED
  BY LockedCorrect, <1>1, PTL

\* The manifest never claims an outcome that no result on disk records.
THEOREM StatusAlwaysMatchesResult ==
  ASSUME Clis = {} PROVE Spec => []StatusMatchesResult /\ []LockedIsConsistent
<1>1. LockedInv => StatusMatchesResult /\ LockedIsConsistent
  BY DEF LockedInv, LockedIsConsistent
<1>2. QED
  BY LockedCorrect, <1>1, PTL

-----------------------------------------------------------------------------
(* The refinement *)

\* An approved Run nobody has attempted is what PublishOnce starts from.
LEMMA PromiseInit == Init => Promise!Init
BY DEF Init, Promise!Init, NoResult

\* Committing the intent begins the attempt, a request that Telegram accepts
\* delivers the next chunk, committing the result closes the attempt; every
\* other step leaves what readers and the record say unchanged.
LEMMA PromiseStep ==
  ASSUME Clis = {}, TypeOK, LockedInv, [Next]_vars
  PROVE  [Promise!Next]_(Promise!vars)
<1> USE Assumed DEF Assumptions, At, RunningAt
<1>1. ChecksStillHold /\ Progress /\ VerdictHolds
  BY DEF LockedInv
<1>2. CASE UNCHANGED <<intent, result, posted>>
  BY <1>2 DEF Promise!vars
<1>3. ASSUME NEW p \in Proc, CommitIntent(p) PROVE Promise!Next
  <2>1. intent = NoProc /\ result = NoResult
    BY <1>1, <1>3 DEF CommitIntent, ChecksStillHold
  <2>2. intent' = p /\ p # NoProc /\ UNCHANGED <<result, posted>>
    BY <1>3 DEF CommitIntent
  <2>3. Promise!Begin
    BY <2>1, <2>2 DEF Promise!Begin
  <2>4. QED
    BY <2>3 DEF Promise!Next
<1>4. ASSUME NEW p \in Proc, SendChunk(p), posted' # posted PROVE Promise!Next
  <2> DEFINE m == [by |-> p, chunk |-> idx[p],
                   try |-> tries[p], text |-> text[p]]
  <2>1. intent = p /\ p # NoProc /\ result = NoResult
    BY <1>1, <1>4 DEF SendChunk, ChecksStillHold
  <2>2. idx[p] \in 1..NChunks /\ Seen = 1..idx[p] - 1
    BY <1>1, <1>4 DEF SendChunk, Progress, TypeOK
  <2>3. m \in Message /\ m.chunk = idx[p]
    BY <2>2 DEF Message, TypeOK
  <2>4. posted' = posted \cup {m} /\ UNCHANGED <<intent, result>>
    BY <1>4 DEF SendChunk
  <2>5. Promise!Seen = 1..m.chunk - 1
    BY <2>2, <2>3 DEF Seen, Promise!Seen
  <2> HIDE DEF m
  <2>6. Promise!Deliver
    BY <2>1, <2>3, <2>4, <2>5 DEF Promise!Deliver
  <2>7. QED
    BY <2>6 DEF Promise!Next
<1>5. ASSUME NEW p \in Proc, CommitResult(p) PROVE Promise!Next
  <2>1. result = NoResult /\ intent # NoProc /\ verdict[p] \in Result
    BY <1>1, <1>5 DEF CommitResult, ChecksStillHold, VerdictHolds
  <2>2. result' = verdict[p] /\ UNCHANGED <<intent, posted>>
    BY <1>5 DEF CommitResult
  <2>3. result' # NoResult /\ result'.status \in Outcomes
    BY <2>1, <2>2 DEF Result, NoResult
  <2>4. /\ verdict[p].status = "PUBLISHED" => Promise!Seen = 1..NChunks
        /\ verdict[p].status = "FAILED" => Promise!Seen = {}
        /\ verdict[p].status = "PARTIAL" => Promise!Seen \notin {{}, 1..NChunks}
    BY <1>1, <1>5 DEF CommitResult, VerdictHolds, Seen, Promise!Seen
  <2>5. Promise!Close
    BY <2>1, <2>2, <2>3, <2>4 DEF Promise!Close, Outcomes
  <2>6. QED
    BY <2>5 DEF Promise!Next
<1>6. CASE UNCHANGED vars
  BY <1>2, <1>6 DEF vars, runVars
<1>7. ASSUME NEW p \in Proc,
           \/ StartPipeline(p) \/ StartCli(p) \/ Drive(p)
           \/ LoadForEvent(p) \/ SaveEvent(p) \/ ReleaseLock(p)
           \/ LoadManifest(p) \/ RequireNoResult(p) \/ CheckOrphanIntent(p)
           \/ LoadApproved(p) \/ CheckIntentAbsent(p) \/ SavePublishing(p)
           \/ ReplyConfirmed(p) \/ ReplyRateLimited(p) \/ ReplyRefused(p)
           \/ ReplyAmbiguous(p) \/ CheckResultAbsent(p) \/ SaveOutcome(p)
           \/ Raise(p) \/ Crash(p)
      PROVE  UNCHANGED <<intent, result, posted>>
  BY <1>7 DEF StartPipeline, StartCli, Drive, LoadForEvent, SaveEvent,
     ReleaseLock, LoadManifest, RequireNoResult, CheckOrphanIntent,
     LoadApproved, CheckIntentAbsent, SavePublishing, ReplyConfirmed,
     ReplyRateLimited, ReplyRefused, ReplyAmbiguous, CheckResultAbsent,
     SaveOutcome, Raise, Crash, runVars
<1>8. CASE EditArticle
  BY <1>2, <1>8 DEF EditArticle
<1>9. CASE OperatorRemovesLock
  BY <1>2, <1>9 DEF OperatorRemovesLock, runVars
<1>10. ASSUME NEW p \in Proc, SendChunk(p), posted' = posted
       PROVE UNCHANGED <<intent, result, posted>>
  BY <1>10 DEF SendChunk
<1>11. QED
  BY <1>2, <1>3, <1>4, <1>5, <1>6, <1>7, <1>8, <1>9, <1>10
     DEF Next, Proceed, PublishRun

\* When every invocation is orchestrated, the protocol implements PublishOnce.
THEOREM Refinement ==
  ASSUME Clis = {} PROVE Spec => PublishesOnce
<1>1. TypeOK /\ LockedInv /\ [Next]_vars => [Promise!Next]_(Promise!vars)
  BY PromiseStep
<1>2. QED
  BY TypeCorrect, LockedCorrect, PromiseInit, <1>1, PTL
     DEF Spec, PublishesOnce, Promise!Spec

\* The same as the runs check it, where publish commands may follow.
THEOREM RefinementStepwise ==
  ASSUME Clis = {} PROVE Spec => LockedKeepsPromise
<1>1. TypeOK /\ LockedInv /\ [Next]_vars
        => [Orchestrated' => [Promise!Next]_(Promise!vars)]_vars
  BY PromiseStep
<1>2. QED
  BY TypeCorrect, LockedCorrect, PromiseInit, <1>1, PTL
     DEF Spec, LockedKeepsPromise

-----------------------------------------------------------------------------
(***************************************************************************)
(* Whatever invocations are mixed                                          *)
(***************************************************************************)

Truthful(r) ==
  LET there == ChunksBy(r.attempt)
      known == 1..r.confirmed
  IN  /\ r.status = "PUBLISHED" => there = 1..NChunks
      /\ r.status = "FAILED"    => there = {}
      /\ r.status = "PARTIAL"   => there = known /\ known # {}
      /\ r.status = "UNCERTAIN" => known \subseteq there

\* An outcome that claims nothing.
Unknown(r) == r.status = "UNCERTAIN" /\ r.confirmed = 0

\* Before its first request, an invocation has posted nothing.
Preparing ==
  {"orphan", "approve", "no_intent", "commit_intent", "save_publishing"}
\* On the way there; after a publication, the way is walked once more in vain.
Approaching == {"drive", "load", "no_result"}
Concluded == {"save_outcome", "event", "save_event"}

Posting(p) ==
  /\ pc[p] = "idle" => ChunksBy(p) = {}
  /\ pc[p] \in Approaching => ChunksBy(p) = {} \/ result # NoResult
  /\ pc[p] = "no_result" => idx[p] = 1
  /\ pc[p] \in Preparing => ChunksBy(p) = {} /\ idx[p] = 1
  /\ pc[p] = "send" => ChunksBy(p) = 1..idx[p] - 1
  /\ pc[p] = "reply" => ChunksBy(p) = IF landed[p] THEN 1..idx[p] ELSE 1..idx[p] - 1

Concluding(p) ==
  /\ pc[p] \in Preparing \cup {"send", "reply"} /\ result.attempt = p => Unknown(result)
  /\ pc[p] \in {"result_absent", "commit_result"} =>
       /\ Truthful(verdict[p])
       /\ verdict[p].attempt # p => Unknown(verdict[p])
  /\ pc[p] \in Concluded => result # NoResult

TruthInv ==
  /\ TypeOK
  /\ Truthful(result)
  /\ \A p \in Proc : Posting(p) /\ Concluding(p)

-----------------------------------------------------------------------------
(* Outcomes *)

LEMMA ChunksStay ==
  ASSUME NEW q, posted' = posted
  PROVE  ChunksBy(q)' = ChunksBy(q)
BY DEF ChunksBy

\* A message adds its chunk to its sender's, and to nobody else's.
LEMMA ChunkAdded ==
  ASSUME NEW m, posted' = posted \cup {m}
  PROVE  /\ ChunksBy(m.by)' = ChunksBy(m.by) \cup {m.chunk}
         /\ \A q : q # m.by => ChunksBy(q)' = ChunksBy(q)
BY DEF ChunksBy

\* Nothing said, nothing claimed.
LEMMA SaysNothing ==
  ASSUME NEW r, r = NoResult \/ Unknown(r)
  PROVE  Truthful(r)
<1>1. 1..0 = {}
  OBVIOUS
<1> QED
  BY <1>1 DEF Truthful, Unknown, NoResult

\* A step of p after which only p has anything to show.
LEMMA TruthOfOne ==
  ASSUME TruthInv, TypeOK', NEW p \in Proc,
         UNCHANGED <<posted, result>>,
         \A q \in Proc \ {p} : /\ pc'[q] = pc[q] /\ idx'[q] = idx[q]
                               /\ landed'[q] = landed[q] /\ verdict'[q] = verdict[q],
         Posting(p)', Concluding(p)'
  PROVE  TruthInv'
<1>1. Truthful(result)'
  BY ChunksStay DEF TruthInv, Truthful
<1>2. ASSUME NEW q \in Proc
      PROVE  Posting(q)' /\ Concluding(q)'
  <2>1. CASE q = p
    BY <2>1
  <2>2. CASE q # p
    <3>1. /\ pc'[q] = pc[q] /\ idx'[q] = idx[q]
          /\ landed'[q] = landed[q] /\ verdict'[q] = verdict[q]
      BY <2>2
    <3>2. ChunksBy(q)' = ChunksBy(q)
      BY ChunksStay
    <3>3. Posting(q)'
      BY <3>1, <3>2 DEF TruthInv, Posting
    <3>4. Truthful(verdict[q]) => Truthful(verdict[q])'
      BY <3>1, ChunksStay DEF Truthful
    <3>5. Concluding(q)'
      BY <3>1, <3>4 DEF TruthInv, Concluding, Unknown
    <3> QED
      BY <3>3, <3>5
  <2> QED
    BY <2>1, <2>2
<1> QED
  BY <1>1, <1>2 DEF TruthInv

\* Steps that neither post nor record, nor decide what to record.
LEMMA MovesKeepTruth ==
  ASSUME TruthInv, TypeOK', NEW p \in Proc,
         \/ StartPipeline(p) \/ StartCli(p) \/ Drive(p) \/ LoadForEvent(p)
         \/ SaveEvent(p) \/ ReleaseLock(p) \/ LoadManifest(p) \/ RequireNoResult(p)
         \/ LoadApproved(p) \/ CheckIntentAbsent(p) \/ CommitIntent(p)
         \/ SavePublishing(p) \/ Raise(p)
  PROVE  TruthInv'
<1>1. UNCHANGED <<posted, result, landed, verdict>>
  BY DEF StartPipeline, StartCli, Drive, LoadForEvent, SaveEvent, ReleaseLock,
     LoadManifest, RequireNoResult, LoadApproved, CheckIntentAbsent, CommitIntent,
     SavePublishing, Raise, runVars
<1>2. /\ pc \in [Proc -> PcValues] /\ idx \in [Proc -> 1..NChunks + 1]
      /\ Posting(p) /\ Concluding(p)
  BY DEF TruthInv, TypeOK
<1>3. PICK l \in PcValues :
        /\ Goto(p, l)
        /\ \/ pc[p] = "idle" /\ l \in {"drive", "load", "done"} /\ idx' = idx
           \/ pc[p] = "drive" /\ l \in {"load", "release"} /\ idx' = idx
           \/ pc[p] = "event" /\ l = "save_event" /\ idx' = idx
           \/ pc[p] = "save_event" /\ l \in {"drive", "release"} /\ idx' = idx
           \/ pc[p] = "load" /\ l = "no_result" /\ idx' = [idx EXCEPT ![p] = 1]
           \/ /\ pc[p] = "no_result" /\ idx' = idx
              /\ l = "orphan" => result = NoResult
              /\ l \in {"orphan", "release", "done"}
           \/ /\ pc[p] \in Preparing /\ idx' = idx
              /\ l \in {"no_intent", "commit_intent", "save_publishing", "release", "done"}
           \/ pc[p] = "save_publishing" /\ l = "send" /\ idx' = idx
           \/ l \in {"release", "done"} /\ idx' = idx
  <2>1. CASE \/ StartPipeline(p) \/ StartCli(p) \/ Drive(p) \/ LoadForEvent(p)
             \/ SaveEvent(p) \/ ReleaseLock(p)
    BY <2>1 DEF StartPipeline, StartCli, Drive, LoadForEvent, SaveEvent, ReleaseLock,
       At, PcValues
  <2>2. CASE \/ LoadManifest(p) \/ RequireNoResult(p) \/ LoadApproved(p)
             \/ CheckIntentAbsent(p)
    BY <2>2 DEF LoadManifest, RequireNoResult, LoadApproved, CheckIntentAbsent, Leave,
       At, PcValues, Preparing
  <2>3. CASE CommitIntent(p) \/ SavePublishing(p) \/ Raise(p)
    BY <2>3 DEF CommitIntent, SavePublishing, Raise, Leave, At, PcValues, Preparing
  <2> QED
    BY <2>1, <2>2, <2>3
<1>4. /\ pc'[p] = l
      /\ \A q \in Proc \ {p} : pc'[q] = pc[q] /\ idx'[q] = idx[q]
      /\ l = "no_result" => idx'[p] = 1
      /\ l # "no_result" => idx'[p] = idx[p]
  BY <1>2, <1>3 DEF Goto, Preparing
<1>5. ChunksBy(p)' = ChunksBy(p)
  BY <1>1, ChunksStay
<1>6. Posting(p)'
  <2>1. CASE l \in {"drive", "load", "no_result"}
    <3>1. ChunksBy(p) = {} \/ result # NoResult
      BY <1>2, <1>3, <2>1 DEF Posting, Concluding, Approaching, Concluded, Preparing
    <3> QED
      BY <1>1, <1>4, <1>5, <2>1, <3>1 DEF Posting, Approaching, Preparing
  <2>2. CASE l \in Preparing \cup {"send"}
    <3>1. ChunksBy(p) = {} /\ idx[p] = 1
      BY <1>2, <1>3, <2>2 DEF Posting, Approaching, Preparing
    <3>2. 1..1 - 1 = {}
      OBVIOUS
    <3> QED
      BY <1>4, <1>5, <2>2, <3>1, <3>2 DEF Posting, Approaching, Preparing
  <2>3. CASE l \in {"save_event", "release", "done"}
    BY <1>4, <2>3 DEF Posting, Approaching, Preparing
  <2> QED
    BY <1>3, <2>1, <2>2, <2>3 DEF Preparing
<1>7. Concluding(p)'
  <2>1. l \in Preparing \cup {"send", "reply"} /\ result.attempt = p => Unknown(result)
    <3>1. CASE l = "orphan"
      <4>1. result.attempt = NoProc
        BY <1>3, <3>1 DEF NoResult, Preparing
      <4> QED
        BY <4>1, NoProcAssumption
    <3>2. CASE l # "orphan"
      BY <1>2, <1>3, <3>2 DEF Concluding, Preparing
    <3> QED
      BY <3>1, <3>2
  <2>2. l \in Concluded => result # NoResult
    BY <1>2, <1>3 DEF Concluding, Concluded, Preparing
  <2>3. l \notin {"result_absent", "commit_result"}
    BY <1>3
  <2> QED
    BY <1>1, <1>4, <2>1, <2>2, <2>3 DEF Concluding, Unknown
<1> QED
  BY <1>1, <1>4, <1>6, <1>7, TruthOfOne

\* Whoever closes another's attempt claims nothing of it.
LEMMA OrphanKeepsTruth ==
  ASSUME TruthInv, TypeOK', NEW p \in Proc, CheckOrphanIntent(p)
  PROVE  TruthInv'
<1>1. UNCHANGED <<posted, result, landed, idx>> /\ pc[p] = "orphan"
  BY DEF CheckOrphanIntent, At, runVars
<1>2. /\ pc \in [Proc -> PcValues] /\ verdict \in [Proc -> Result \cup {NoResult}]
      /\ Posting(p) /\ Concluding(p)
  BY DEF TruthInv, TypeOK
<1>3. /\ pc'[p] = AfterOrphanCheck(p)
      /\ \A q \in Proc \ {p} : pc'[q] = pc[q] /\ verdict'[q] = verdict[q]
      /\ intent # NoProc => Unknown(verdict'[p])
  BY <1>2 DEF CheckOrphanIntent, Goto, Unknown
<1>4. ChunksBy(p)' = ChunksBy(p)
  BY <1>1, ChunksStay
<1>5. \/ pc'[p] = "result_absent" /\ Unknown(verdict'[p])
      \/ pc'[p] \in {"approve", "release", "done"}
  BY <1>3 DEF AfterOrphanCheck, Leave
<1>6. Posting(p)'
  BY <1>1, <1>2, <1>4, <1>5 DEF Posting, Approaching, Preparing
<1>7. Concluding(p)'
  <2>1. CASE pc'[p] = "result_absent" /\ Unknown(verdict'[p])
    <3>1. Truthful(verdict[p])'
      <4>1. 1..0 = {}
        OBVIOUS
      <4> QED
        BY <2>1, <4>1 DEF Truthful, Unknown
    <3> QED
      BY <2>1, <3>1 DEF Concluding, Unknown, Preparing, Concluded
  <2>2. CASE pc'[p] \in {"approve", "release", "done"}
    BY <1>1, <1>2, <2>2 DEF Concluding, Unknown, Preparing, Concluded
  <2> QED
    BY <1>5, <2>1, <2>2
<1> QED
  BY <1>1, <1>3, <1>6, <1>7, TruthOfOne

\* A request adds at most its own chunk, under its sender's name, and nothing is
\* claimed yet of that sender.
LEMMA SendKeepsTruth ==
  ASSUME TruthInv, TypeOK', NEW p \in Proc, SendChunk(p)
  PROVE  TruthInv'
<1>1. UNCHANGED <<result, idx, verdict>> /\ pc[p] = "send"
  BY DEF SendChunk, At
<1>2. /\ pc \in [Proc -> PcValues] /\ landed \in [Proc -> BOOLEAN]
      /\ idx[p] \in 1..NChunks /\ NChunks \in Nat
      /\ Posting(p) /\ Concluding(p)
  BY <1>1, ChunksAssumption DEF TruthInv, TypeOK, Sending
<1>3. PICK accepted \in BOOLEAN :
        /\ landed' = [landed EXCEPT ![p] = accepted]
        /\ posted' = IF accepted
                       THEN posted \cup {[by |-> p, chunk |-> idx[p],
                                          try |-> tries[p], text |-> text[p]]}
                       ELSE posted
        /\ Goto(p, "reply")
  BY DEF SendChunk
<1>4. /\ pc'[p] = "reply" /\ landed'[p] = accepted
      /\ \A q \in Proc \ {p} : pc'[q] = pc[q] /\ landed'[q] = landed[q]
  BY <1>2, <1>3 DEF Goto
<1>5. /\ \A q : q # p => ChunksBy(q)' = ChunksBy(q)
      /\ ChunksBy(p)' = IF accepted THEN ChunksBy(p) \cup {idx[p]} ELSE ChunksBy(p)
  <2>1. CASE accepted
    <3> DEFINE m == [by |-> p, chunk |-> idx[p], try |-> tries[p], text |-> text[p]]
    <3>1. posted' = posted \cup {m} /\ m.by = p /\ m.chunk = idx[p]
      BY <1>3, <2>1
    <3> HIDE DEF m
    <3> QED
      BY <2>1, <3>1, ChunkAdded
  <2>2. CASE ~accepted
    BY <1>3, <2>2, ChunksStay
  <2> QED
    BY <2>1, <2>2
<1>6. Posting(p)'
  <2>1. ChunksBy(p) = 1..idx[p] - 1
    BY <1>1, <1>2 DEF Posting
  <2>2. 1..idx[p] = (1..idx[p] - 1) \cup {idx[p]}
    BY <1>2
  <2> QED
    BY <1>1, <1>4, <1>5, <2>1, <2>2 DEF Posting, Approaching, Preparing
<1>7. Concluding(p)'
  BY <1>1, <1>2, <1>4 DEF Concluding, Unknown, Preparing, Concluded
<1>8. ASSUME NEW q \in Proc \ {p}
      PROVE  Posting(q)' /\ Concluding(q)'
  <2>1. Posting(q) /\ Concluding(q)
    BY DEF TruthInv
  <2>2. Posting(q)'
    BY <1>1, <1>4, <1>5, <2>1 DEF Posting
  <2>3. pc[q] \in {"result_absent", "commit_result"} => Truthful(verdict[q])'
    <3>1. CASE verdict[q].attempt = q
      BY <1>1, <1>5, <2>1, <3>1 DEF Concluding, Truthful
    <3>2. CASE Unknown(verdict[q])
      <4>1. 1..0 = {}
        OBVIOUS
      <4> QED
        BY <1>1, <3>2, <4>1 DEF Truthful, Unknown
    <3> QED
      BY <2>1, <3>1, <3>2 DEF Concluding
  <2>4. Concluding(q)'
    BY <1>1, <1>4, <2>1, <2>3 DEF Concluding, Unknown
  <2> QED
    BY <2>2, <2>4
<1>9. Truthful(result)'
  <2>1. CASE result.attempt = p
    <3>1. Unknown(result)
      BY <1>1, <1>2, <2>1 DEF Concluding
    <3>2. 1..0 = {}
      OBVIOUS
    <3> QED
      BY <1>1, <3>1, <3>2 DEF Truthful, Unknown
  <2>2. CASE result.attempt # p
    BY <1>1, <1>5, <2>2 DEF TruthInv, Truthful
  <2> QED
    BY <2>1, <2>2
<1> QED
  BY <1>6, <1>7, <1>8, <1>9 DEF TruthInv

\* What is concluded from the last reply is what the channel shows.
LEMMA ReplyKeepsTruth ==
  ASSUME TruthInv, TypeOK', NEW p \in Proc,
         ReplyConfirmed(p) \/ ReplyRateLimited(p) \/ ReplyRefused(p) \/ ReplyAmbiguous(p)
  PROVE  TruthInv'
<1>1. UNCHANGED <<posted, result, landed>> /\ pc[p] = "reply"
  BY DEF ReplyConfirmed, ReplyRateLimited, ReplyRefused, ReplyAmbiguous, At, runVars
<1>2. /\ pc \in [Proc -> PcValues] /\ verdict \in [Proc -> Result \cup {NoResult}]
      /\ idx \in [Proc -> 1..NChunks + 1]
      /\ idx[p] \in 1..NChunks /\ NChunks \in Nat
      /\ Posting(p) /\ Concluding(p)
  BY <1>1, ChunksAssumption DEF TruthInv, TypeOK, Sending
<1>3. ChunksBy(p)' = ChunksBy(p)
  BY <1>1, ChunksStay
<1>4. ChunksBy(p) = IF landed[p] THEN 1..idx[p] ELSE 1..idx[p] - 1
  BY <1>1, <1>2 DEF Posting
<1>5. CASE /\ Goto(p, "send") /\ verdict' = verdict
           /\ \/ landed[p] /\ idx' = [idx EXCEPT ![p] = @ + 1]
              \/ ~landed[p] /\ idx' = idx
  <2>1. /\ pc'[p] = "send"
        /\ \A q \in Proc \ {p} : pc'[q] = pc[q] /\ idx'[q] = idx[q]
        /\ idx'[p] = IF landed[p] THEN idx[p] + 1 ELSE idx[p]
    BY <1>2, <1>5 DEF Goto
  <2>2. ChunksBy(p)' = 1..idx'[p] - 1
    <3>1. CASE landed[p]
      <4>1. idx'[p] - 1 = idx[p]
        BY <1>2, <2>1, <3>1
      <4>2. ChunksBy(p)' = 1..idx[p]
        BY <1>3, <1>4, <3>1
      <4> QED
        BY <4>1, <4>2
    <3>2. CASE ~landed[p]
      <4>1. idx'[p] = idx[p]
        BY <2>1, <3>2
      <4>2. ChunksBy(p)' = 1..idx[p] - 1
        BY <1>3, <1>4, <3>2
      <4> QED
        BY <4>1, <4>2
    <3> QED
      BY <3>1, <3>2
  <2>3. Posting(p)'
    BY <2>1, <2>2 DEF Posting, Approaching, Preparing
  <2>4. Concluding(p)'
    BY <1>1, <1>2, <2>1 DEF Concluding, Unknown, Preparing, Concluded
  <2> QED
    BY <1>1, <1>5, <2>1, <2>3, <2>4, TruthOfOne
<1>6. CASE \E outcome \in Outcomes, confirmed \in 0..NChunks :
             /\ Conclude(p, outcome, confirmed)
             /\ outcome = "PUBLISHED" => landed[p] /\ idx[p] = NChunks
             /\ outcome = "FAILED" => ~landed[p] /\ idx[p] - 1 = 0
             /\ outcome = "PARTIAL" => ~landed[p] /\ confirmed = idx[p] - 1 /\ confirmed > 0
             /\ outcome = "UNCERTAIN" => confirmed = idx[p] - 1
             /\ \A q \in Proc \ {p} : idx'[q] = idx[q]
  <2>1. PICK outcome \in Outcomes, confirmed \in 0..NChunks :
             /\ Conclude(p, outcome, confirmed)
             /\ outcome = "PUBLISHED" => landed[p] /\ idx[p] = NChunks
             /\ outcome = "FAILED" => ~landed[p] /\ idx[p] - 1 = 0
             /\ outcome = "PARTIAL" => ~landed[p] /\ confirmed = idx[p] - 1 /\ confirmed > 0
             /\ outcome = "UNCERTAIN" => confirmed = idx[p] - 1
             /\ \A q \in Proc \ {p} : idx'[q] = idx[q]
    BY <1>6
  <2>2. /\ pc'[p] = "result_absent"
        /\ verdict'[p] = [attempt |-> p, status |-> outcome, confirmed |-> confirmed]
        /\ \A q \in Proc \ {p} : pc'[q] = pc[q] /\ verdict'[q] = verdict[q]
    BY <1>2, <2>1 DEF Conclude, Goto
  <2>3. Truthful(verdict[p])'
    <3>1. /\ outcome = "PUBLISHED" => ChunksBy(p) = 1..NChunks
          /\ outcome = "FAILED" => ChunksBy(p) = {}
          /\ outcome = "PARTIAL" => ChunksBy(p) = 1..confirmed /\ 1..confirmed # {}
          /\ outcome = "UNCERTAIN" => 1..confirmed \subseteq ChunksBy(p)
      <4>1. 1..idx[p] - 1 \subseteq 1..idx[p]
        BY <1>2
      <4>2. idx[p] - 1 = 0 => 1..idx[p] - 1 = {}
        BY <1>2
      <4>3. confirmed > 0 => 1 \in 1..confirmed
        OBVIOUS
      <4> QED
        BY <1>4, <2>1, <4>1, <4>2, <4>3
    <3> QED
      BY <1>3, <2>2, <3>1 DEF Truthful
  <2>4. Posting(p)'
    BY <2>2 DEF Posting, Approaching, Preparing
  <2>5. Concluding(p)'
    BY <2>2, <2>3 DEF Concluding, Preparing, Concluded
  <2> QED
    BY <1>1, <2>1, <2>2, <2>4, <2>5, TruthOfOne
<1>7. CASE ReplyConfirmed(p)
  <2>1. CASE idx[p] = NChunks
    <3>1. Conclude(p, "PUBLISHED", idx[p]) /\ landed[p] /\ idx[p] \in 0..NChunks
          /\ \A q \in Proc \ {p} : idx'[q] = idx[q]
      BY <1>2, <1>7, <2>1 DEF ReplyConfirmed
    <3> QED
      BY <1>6, <2>1, <3>1 DEF Outcomes
  <2>2. CASE idx[p] # NChunks
    BY <1>5, <1>7, <2>2 DEF ReplyConfirmed
  <2> QED
    BY <2>1, <2>2
<1>8. CASE ReplyRateLimited(p) \/ ReplyRefused(p)
  <2>1. CASE Conclude(p, RefusalOutcome(p), Confirmed(p)) /\ ~landed[p] /\ idx' = idx
    <3>1. /\ Confirmed(p) = idx[p] - 1 /\ Confirmed(p) \in 0..NChunks
          /\ Confirmed(p) > 0 => RefusalOutcome(p) = "PARTIAL"
          /\ ~(Confirmed(p) > 0) => RefusalOutcome(p) = "FAILED" /\ idx[p] - 1 = 0
      BY <1>2 DEF Confirmed, RefusalOutcome
    <3>2. CASE Confirmed(p) > 0
      BY <1>6, <2>1, <3>1, <3>2 DEF Outcomes
    <3>3. CASE ~(Confirmed(p) > 0)
      BY <1>6, <2>1, <3>1, <3>3 DEF Outcomes
    <3> QED
      BY <3>2, <3>3
  <2>2. CASE Goto(p, "send") /\ verdict' = verdict /\ ~landed[p] /\ idx' = idx
    BY <1>5, <2>2
  <2> QED
    BY <1>8, <2>1, <2>2 DEF ReplyRateLimited, ReplyRefused
<1>9. CASE ReplyAmbiguous(p)
  <2>1. Conclude(p, "UNCERTAIN", Confirmed(p)) /\ idx' = idx
        /\ Confirmed(p) = idx[p] - 1 /\ Confirmed(p) \in 0..NChunks
    BY <1>2, <1>9 DEF ReplyAmbiguous, Confirmed
  <2> QED
    BY <1>6, <2>1 DEF Outcomes
<1> QED
  BY <1>7, <1>8, <1>9

\* What is committed was true of its attempt and stays so; whoever still posts
\* under the name it closes has nothing claimed of it.
LEMMA CommitKeepsTruth ==
  ASSUME TruthInv, TypeOK', NEW p \in Proc, CommitResult(p)
  PROVE  TruthInv'
<1>1. /\ UNCHANGED <<posted, landed, idx, verdict>> /\ result' = verdict[p]
      /\ pc[p] = "commit_result"
  BY DEF CommitResult, At
<1>2. /\ pc \in [Proc -> PcValues] /\ verdict[p] \in Result
      /\ Posting(p) /\ Concluding(p)
  BY <1>1 DEF TruthInv, TypeOK, Recording
<1>3. pc'[p] = "save_outcome" /\ \A q \in Proc \ {p} : pc'[q] = pc[q]
  BY <1>2 DEF CommitResult, Goto
<1>4. result' # NoResult
  BY <1>1, <1>2, NoProcAssumption DEF Result, NoResult
<1>5. Truthful(result)'
  <2>1. Truthful(verdict[p])
    BY <1>1, <1>2 DEF Concluding
  <2> QED
    BY <1>1, <2>1, ChunksStay DEF Truthful
<1>6. ASSUME NEW q \in Proc
      PROVE  Posting(q)' /\ Concluding(q)'
  <2>1. CASE q = p
    BY <1>3, <1>4, <2>1 DEF Posting, Concluding, Approaching, Preparing, Concluded
  <2>2. CASE q # p
    <3>1. Posting(q) /\ Concluding(q) /\ pc'[q] = pc[q] /\ ChunksBy(q)' = ChunksBy(q)
      BY <1>1, <1>3, <2>2, ChunksStay DEF TruthInv
    <3>2. Posting(q)'
      BY <1>1, <1>4, <3>1 DEF Posting
    <3>3. result'.attempt = q => Unknown(result')
      BY <1>1, <1>2, <2>2 DEF Concluding
    <3>4. Truthful(verdict[q]) => Truthful(verdict[q])'
      BY <1>1, ChunksStay DEF Truthful
    <3>5. Concluding(q)'
      BY <1>1, <1>4, <3>1, <3>3, <3>4 DEF Concluding, Unknown
    <3> QED
      BY <3>2, <3>5
  <2> QED
    BY <2>1, <2>2
<1> QED
  BY <1>5, <1>6 DEF TruthInv

LEMMA RecordersKeepTruth ==
  ASSUME TruthInv, TypeOK', NEW p \in Proc, CheckResultAbsent(p) \/ SaveOutcome(p)
  PROVE  TruthInv'
<1>1. UNCHANGED <<posted, result, landed, idx, verdict>>
  BY DEF CheckResultAbsent, SaveOutcome, runVars
<1>2. /\ pc \in [Proc -> PcValues] /\ Posting(p) /\ Concluding(p)
  BY DEF TruthInv, TypeOK
<1>3. PICK l \in {"release", "done", "event", "commit_result"} :
        /\ Goto(p, l)
        /\ l = "commit_result" => pc[p] = "result_absent"
        /\ l = "event" => pc[p] = "save_outcome"
  BY DEF CheckResultAbsent, SaveOutcome, Leave, At
<1>4. pc'[p] = l /\ \A q \in Proc \ {p} : pc'[q] = pc[q]
  BY <1>2, <1>3 DEF Goto
<1>5. Posting(p)'
  BY <1>4 DEF Posting, Approaching, Preparing
<1>6. Concluding(p)'
  <2>1. Truthful(verdict[p]) => Truthful(verdict[p])'
    BY <1>1, ChunksStay DEF Truthful
  <2> QED
    BY <1>1, <1>2, <1>3, <1>4, <2>1 DEF Concluding, Unknown, Preparing, Concluded
<1> QED
  BY <1>1, <1>4, <1>5, <1>6, TruthOfOne

LEMMA OthersKeepTruth ==
  ASSUME TruthInv, TypeOK', UNCHANGED <<posted, result, localVars>>
  PROVE  TruthInv'
<1>1. Truthful(result)'
  BY ChunksStay DEF TruthInv, Truthful
<1>2. ASSUME NEW q \in Proc
      PROVE  Posting(q)' /\ Concluding(q)'
  <2>1. Posting(q) /\ Concluding(q) /\ ChunksBy(q)' = ChunksBy(q)
    BY ChunksStay DEF TruthInv
  <2>2. Posting(q)'
    BY <2>1 DEF Posting, localVars
  <2>3. Truthful(verdict[q]) => Truthful(verdict[q])'
    BY ChunksStay DEF Truthful, localVars
  <2>4. Concluding(q)'
    BY <2>1, <2>3 DEF Concluding, Unknown, localVars
  <2> QED
    BY <2>2, <2>4
<1> QED
  BY <1>1, <1>2 DEF TruthInv

LEMMA TruthStep == ASSUME TruthInv, [Next]_vars PROVE TruthInv'
<1>1. TypeOK'
  BY TypeStep DEF TruthInv
<1>2. CASE UNCHANGED vars
  BY <1>1, <1>2, OthersKeepTruth DEF vars, runVars
<1>3. CASE EditArticle \/ OperatorRemovesLock
  BY <1>1, <1>3, OthersKeepTruth DEF EditArticle, OperatorRemovesLock, runVars
<1>4. ASSUME NEW p \in Proc,
             StartPipeline(p) \/ StartCli(p) \/ Proceed(p) \/ Raise(p) \/ Crash(p)
      PROVE  TruthInv'
  <2>1. CASE Crash(p)
    BY <1>1, <2>1, OthersKeepTruth DEF Crash, runVars
  <2>2. CASE ~Crash(p)
    BY <1>1, <1>4, <2>2, MovesKeepTruth, OrphanKeepsTruth, SendKeepsTruth,
       ReplyKeepsTruth, CommitKeepsTruth, RecordersKeepTruth DEF Proceed, PublishRun
  <2> QED
    BY <2>1, <2>2
<1> QED
  BY <1>2, <1>3, <1>4 DEF Next

LEMMA TruthInit == Init => TruthInv
<1> SUFFICES ASSUME Init PROVE TruthInv
  OBVIOUS
<1>1. TypeOK
  BY TypeInit
<1>2. \A q : ChunksBy(q) = {}
  BY DEF Init, ChunksBy
<1>3. Truthful(result)
  BY SaysNothing DEF Init
<1>4. \A p \in Proc : pc[p] = "idle"
  BY DEF Init
<1>5. ASSUME NEW p \in Proc
      PROVE  Posting(p) /\ Concluding(p)
  BY <1>2, <1>4 DEF Posting, Concluding, Approaching, Preparing, Concluded
<1> QED
  BY <1>1, <1>3, <1>5 DEF TruthInv

\* Whatever is recorded is true of the attempt it names, with any mixture of
\* orchestrated and plain invocations, however they race, fail and die
\* (publisher._deliver, _commit_result, _check_orphan_intent).
THEOREM RecordedOutcomeIsTrue == Spec => []OutcomeIsTruthful
<1>1. TruthInv => OutcomeIsTruthful
  <2> SUFFICES ASSUME TruthInv, result # NoResult PROVE OutcomeIsTruthful
    BY DEF OutcomeIsTruthful
  <2>1. result.status \in Outcomes
    BY DEF TruthInv, TypeOK, Result
  <2>2. Truthful(result)
    BY DEF TruthInv
  <2>3. CASE result.status = "PUBLISHED"
    BY <2>2, <2>3 DEF OutcomeIsTruthful, Truthful
  <2>4. CASE result.status = "FAILED"
    BY <2>2, <2>4 DEF OutcomeIsTruthful, Truthful
  <2>5. CASE result.status = "PARTIAL"
    BY <2>2, <2>5 DEF OutcomeIsTruthful, Truthful
  <2>6. CASE result.status = "UNCERTAIN"
    BY <2>2, <2>6 DEF OutcomeIsTruthful, Truthful
  <2> QED
    BY <2>1, <2>3, <2>4, <2>5, <2>6 DEF Outcomes
<1>2. Spec => []TruthInv
  BY TruthInit, TruthStep, PTL DEF Spec
<1> QED
  BY <1>1, <1>2, PTL

-----------------------------------------------------------------------------
(* Text *)

\* From its approval check to its last reply an invocation holds approved text.
Approving == {"no_intent", "commit_intent", "save_publishing", "send", "reply"}
TextInv ==
  /\ TypeOK
  /\ \A p \in Proc : pc[p] \in Approving => text[p] = ApprovedText /\ gate = "APPROVED"
  /\ OnlyApprovedText

LEMMA TextStep == ASSUME TextInv, [Next]_vars PROVE TextInv'
<1>1. TypeOK' /\ gate' = gate
  <2>1. gate' = gate
    BY DEF Next, vars, runVars, Proceed, PublishRun, StartPipeline, StartCli, Drive,
       LoadForEvent, SaveEvent, ReleaseLock, LoadManifest, RequireNoResult,
       CheckOrphanIntent, LoadApproved, CheckIntentAbsent, CommitIntent, SavePublishing,
       SendChunk, ReplyConfirmed, ReplyRateLimited, ReplyRefused, ReplyAmbiguous,
       CheckResultAbsent, CommitResult, SaveOutcome, Raise, Crash, EditArticle,
       OperatorRemovesLock
  <2> QED
    BY <2>1, TypeStep DEF TextInv
<1>2. pc \in [Proc -> PcValues] /\ text \in [Proc -> Texts]
  BY DEF TextInv, TypeOK
<1>3. CASE UNCHANGED <<posted, pc, text>>
  BY <1>1, <1>3 DEF TextInv, OnlyApprovedText
<1>4. ASSUME NEW p \in Proc, LoadApproved(p) PROVE TextInv'
  <2>1. /\ posted' = posted /\ \A q \in Proc \ {p} : pc'[q] = pc[q] /\ text'[q] = text[q]
        /\ pc'[p] \in Approving => text'[p] = ApprovedText /\ gate = "APPROVED"
    BY <1>2, <1>4 DEF LoadApproved, ApprovalHolds, Goto, Leave, Approving, runVars
  <2> QED
    BY <1>1, <2>1 DEF TextInv, OnlyApprovedText
<1>5. ASSUME NEW p \in Proc, SendChunk(p) PROVE TextInv'
  <2>1. /\ text' = text /\ pc[p] = "send"
        /\ \A q \in Proc \ {p} : pc'[q] = pc[q]
        /\ \A m \in posted' : m \in posted \/ m.text = text[p]
    BY <1>2, <1>5 DEF SendChunk, At, Goto
  <2>2. text[p] = ApprovedText /\ gate = "APPROVED"
    BY <2>1 DEF TextInv, Approving
  <2> QED
    BY <1>1, <2>1, <2>2 DEF TextInv, OnlyApprovedText
<1>6. ASSUME NEW p \in Proc, UNCHANGED <<posted, text>>, NEW l, Goto(p, l),
             l \in Approving => pc[p] \in Approving
      PROVE  TextInv'
  <2>1. /\ l \in PcValues => pc'[p] = l
        /\ \A q \in Proc \ {p} : pc'[q] = pc[q]
        /\ pc'[p] = l
    BY <1>2, <1>6 DEF Goto
  <2> QED
    BY <1>1, <1>6, <2>1 DEF TextInv, OnlyApprovedText
<1>7. ASSUME NEW p \in Proc,
             StartPipeline(p) \/ StartCli(p) \/ Proceed(p) \/ Raise(p) \/ Crash(p)
      PROVE  TextInv'
  <2>1. CASE \/ StartPipeline(p) \/ StartCli(p) \/ Drive(p) \/ LoadForEvent(p)
             \/ SaveEvent(p) \/ ReleaseLock(p) \/ LoadManifest(p) \/ RequireNoResult(p)
             \/ Raise(p)
    <3>1. \E l : /\ Goto(p, l) /\ l \notin Approving
                 /\ UNCHANGED <<posted, text>>
      BY <2>1 DEF StartPipeline, StartCli, Drive, LoadForEvent, SaveEvent, ReleaseLock,
         LoadManifest, RequireNoResult, Raise, Leave, runVars, Approving
    <3> QED
      BY <1>6, <3>1
  <2>2. CASE \/ CheckOrphanIntent(p) \/ CheckIntentAbsent(p) \/ CommitIntent(p)
             \/ SavePublishing(p) \/ CheckResultAbsent(p) \/ CommitResult(p)
             \/ SaveOutcome(p)
    <3>1. \E l : /\ Goto(p, l) /\ (l \in Approving => pc[p] \in Approving)
                 /\ UNCHANGED <<posted, text>>
      BY <2>2 DEF CheckOrphanIntent, AfterOrphanCheck, CheckIntentAbsent, CommitIntent,
         SavePublishing, CheckResultAbsent, CommitResult, SaveOutcome, Leave, runVars,
         Approving, At
    <3> QED
      BY <1>6, <3>1
  <2>3. CASE \/ ReplyConfirmed(p) \/ ReplyRateLimited(p) \/ ReplyRefused(p)
             \/ ReplyAmbiguous(p)
    <3>1. \E l : /\ Goto(p, l) /\ pc[p] \in Approving
                 /\ UNCHANGED <<posted, text>>
      BY <2>3 DEF ReplyConfirmed, ReplyRateLimited, ReplyRefused, ReplyAmbiguous, Conclude,
         runVars, Approving, At
    <3> QED
      BY <1>6, <3>1
  <2>4. CASE Crash(p)
    BY <1>3, <2>4 DEF Crash, runVars, localVars
  <2> QED
    BY <1>4, <1>5, <1>7, <2>1, <2>2, <2>3, <2>4 DEF Proceed, PublishRun
<1> QED
  BY <1>3, <1>7 DEF Next, vars, runVars, localVars, EditArticle, OperatorRemovesLock

\* Only the bytes the gate approved go out, whoever edits the file meanwhile, with
\* any mixture of invocations (publisher._load_approved).
THEOREM ApprovedTextOnly == Spec => []OnlyApprovedText
<1>1. Init => TextInv
  BY TypeInit DEF Init, TextInv, OnlyApprovedText, Approving
<1>2. TextInv /\ [Next]_vars => TextInv'
  BY TextStep
<1>3. TextInv => OnlyApprovedText
  BY DEF TextInv
<1> QED
  BY <1>1, <1>2, <1>3, PTL DEF Spec
=============================================================================

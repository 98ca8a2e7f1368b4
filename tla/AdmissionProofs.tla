--------------------------- MODULE AdmissionProofs ---------------------------
(***************************************************************************)
(* Theorems of Ingestion and Admission, for any number of ticks, commands,  *)
(* producers, events and contents, and either behaviour of rename.          *)
(*                                                                         *)
(* First the mapping of events to Runs, which rests on the exclusive create *)
(* of an entry and needs no lock.  Then the ticks: what a killed one left   *)
(* is recovered to what is so, and a lookup misses no event.  There the     *)
(* worker lock carries the argument: of the ticks that are alive only the   *)
(* lock's owner is past its start, so what it read is still so when it      *)
(* acts.  Where it stands says which entries it may have left unresolved    *)
(* (Tidy), and what it knows of the one at hand (Knows).                    *)
(***************************************************************************)
EXTENDS Admission, TLAPS

\* The constants' assumptions, together.
Assumptions ==
  /\ NoProc \notin Proc
  /\ Proc = Workers \cup Operators \cup Producers
  /\ Event # {} /\ Payload # {}
  /\ Malformed \subseteq Payload /\ None \notin Payload

\* They are all assumed by the modules that declare the constants.
LEMMA Assumed == Assumptions
BY NoProcAssumption, PartiesAssumption, EventAssumption, PayloadAssumption
   DEF Assumptions

\* A move keeps the folders folders.
LEMMA MovedType ==
  ASSUME NEW from \in Folders, NEW to \in Folders, NEW e \in Event,
         box \in [Folders -> [Event -> Payload \cup {None}]]
  PROVE  Moved(from, to, e) \in [Folders -> [Event -> Payload \cup {None}]]
BY DEF Moved

\* Whether or not the file was still there to move.
LEMMA MoveType ==
  ASSUME NEW p \in Proc, NEW from \in Folders, NEW to \in Folders, NEW next,
         TypeOK, Move(p, from, to, next)
  PROVE  /\ box' \in [Folders -> [Event -> Payload \cup {None}]]
         /\ Goto(p, next) \/ Goto(p, Leave(p))
BY MovedType DEF Move, TypeOK

-----------------------------------------------------------------------------
(* Types *)

\* The initial states are of their types.
LEMMA TypeInit == Init => TypeOK
BY Assumed DEF Assumptions, Init, TypeOK, LockInit, LockTypeOK, Folders, Entry,
   Unwritten, Absent, PcValues

\* Every step keeps the types.
LEMMA TypeStep == TypeOK /\ [Next]_vars => TypeOK'
<1> SUFFICES ASSUME TypeOK, [Next]_vars PROVE TypeOK'
  OBVIOUS
<1> USE Assumed DEF Assumptions, At, Goto, TypeOK, LockTypeOK, PcValues
<1>1. CASE UNCHANGED vars
  BY <1>1 DEF vars, lockVars, inboxVars, localVars
<1>2. ASSUME NEW p \in Proc, StartTick(p) PROVE TypeOK'
  BY <1>2 DEF StartTick, Acquire, Refuse, inboxVars, lockVars, localVars
<1>3. ASSUME NEW p \in Proc, StartCommand(p) PROVE TypeOK'
  BY <1>3 DEF StartCommand, inboxVars, lockVars, localVars
<1>4. ASSUME NEW p \in Proc, Submit(p) PROVE TypeOK'
  BY <1>4 DEF Submit, inboxVars, lockVars, localVars
<1>5. ASSUME NEW p \in Proc, Place(p) PROVE TypeOK'
  BY <1>5 DEF Place, Folders, inboxVars, lockVars, localVars
<1>6. ASSUME NEW p \in Proc, ReleaseLock(p) PROVE TypeOK'
  BY <1>6 DEF ReleaseLock, Release, inboxVars, lockVars, localVars
<1>7. ASSUME NEW p \in Proc, ListOrphans(p) PROVE TypeOK'
  BY <1>7 DEF ListOrphans, Waiting, inboxVars, lockVars, localVars
<1>8. ASSUME NEW p \in Proc, TakeOrphan(p) PROVE TypeOK'
  BY <1>8
     DEF TakeOrphan, AfterOrphan, Leave, Entry, Unwritten, Recorded, inboxVars,
         lockVars
<1>9. ASSUME NEW p \in Proc, CheckRunStatus(p) PROVE TypeOK'
  BY <1>9 DEF CheckRunStatus, Recorded, inboxVars, lockVars, localVars
<1>10. ASSUME NEW p \in Proc, OrphansDone(p) PROVE TypeOK'
  BY <1>10 DEF OrphansDone, inboxVars, lockVars, localVars
<1>11. ASSUME NEW p \in Proc, SettleRead(p) PROVE TypeOK'
  BY <1>11 DEF SettleRead, Leave, Recorded, inboxVars, lockVars, localVars
<1>12. ASSUME NEW p \in Proc, SettleWrite(p) PROVE TypeOK'
  <2>1. seen[p] \in [state : Recorded, run : RunId, payload : Payload]
    BY <1>12 DEF SettleWrite, Entry, Unwritten, Recorded
  <2>2. Settled(p) \in [state : Recorded, run : RunId, payload : Payload]
    BY <2>1 DEF Settled, Recorded
  <2>3. QED
    BY <1>12, <2>2 DEF SettleWrite, Entry, lockVars
<1>13. ASSUME NEW p \in Proc, Complete(p) PROVE TypeOK'
  <2>1. /\ box' \in [Folders -> [Event -> Payload \cup {None}]]
        /\ Goto(p, AfterEvent(p)) \/ Goto(p, Leave(p))
    BY <1>13, MoveType DEF Complete, Folders
  <2>2. QED
    BY <1>13, <2>1 DEF Complete, Leave, AfterEvent, lockVars
<1>14. ASSUME NEW p \in Proc, Reject(p) PROVE TypeOK'
  <2>1. /\ box' \in [Folders -> [Event -> Payload \cup {None}]]
        /\ Goto(p, AfterEvent(p)) \/ Goto(p, Leave(p))
    BY <1>14, MoveType DEF Reject, Folders
  <2>2. QED
    BY <1>14, <2>1 DEF Reject, Leave, AfterEvent, lockVars
<1>15. ASSUME NEW p \in Proc, PutBack(p) PROVE TypeOK'
  <2>1. /\ box' \in [Folders -> [Event -> Payload \cup {None}]]
        /\ \E l \in {"set_aside", AfterEvent(p), Leave(p)} : Goto(p, l)
    BY <1>15, MoveType DEF PutBack, Folders
  <2>2. QED
    BY <1>15, <2>1 DEF PutBack, Leave, AfterEvent, lockVars
<1>16. ASSUME NEW p \in Proc, Promote(p) PROVE TypeOK'
  <2>0. \A e \in Event :
          Moved("deferred", "incoming", e) \in [Folders -> [Event -> Payload \cup {None}]]
    BY MovedType DEF Folders
  <2>1. box' \in [Folders -> [Event -> Payload \cup {None}]]
    BY <1>16, <2>0 DEF Promote, Waiting
  <2>2. QED
    BY <1>16, <2>1 DEF Promote, lockVars
<1>17. ASSUME NEW p \in Proc, ListPending(p) PROVE TypeOK'
  BY <1>17 DEF ListPending, Waiting, inboxVars, lockVars, localVars
<1>18. ASSUME NEW p \in Proc, TakeNext(p) PROVE TypeOK'
  BY <1>18 DEF TakeNext, Leave, inboxVars, lockVars, localVars
<1>19. ASSUME NEW p \in Proc, Claim(p) PROVE TypeOK'
  <2>0. \A e \in Event :
          Moved("incoming", "processing", e) \in [Folders -> [Event -> Payload \cup {None}]]
    BY MovedType DEF Folders
  <2>1. box' \in [Folders -> [Event -> Payload \cup {None}]]
    BY <1>19, <2>0 DEF Claim
  <2>2. QED
    BY <1>19, <2>1 DEF Claim, lockVars
<1>20. ASSUME NEW p \in Proc, Read(p) PROVE TypeOK'
  <2>0. \A e \in Event :
          Moved("processing", "expired", e) \in [Folders -> [Event -> Payload \cup {None}]]
    BY MovedType DEF Folders
  <2>1. box' \in [Folders -> [Event -> Payload \cup {None}]]
    BY <1>20, <2>0 DEF Read
  <2>2. QED
    BY <1>20, <2>1 DEF Read, lockVars
<1>21. ASSUME NEW p \in Proc, CheckLedger(p) PROVE TypeOK'
  BY <1>21 DEF CheckLedger, AfterLedger, Leave, inboxVars, lockVars, localVars
<1>22. ASSUME NEW p \in Proc, AskProviders(p) PROVE TypeOK'
  BY <1>22 DEF AskProviders, inboxVars, lockVars, localVars
<1>23. ASSUME NEW p \in Proc, Reserve(p) PROVE TypeOK'
  BY <1>23
     DEF Reserve, Reservable, Leave, Entry, Unwritten, Torn, inboxVars,
         lockVars, localVars
<1>24. ASSUME NEW p \in Proc, WriteEntry(p) PROVE TypeOK'
  BY <1>24 DEF WriteEntry, Entry, Recorded, RunId, inboxVars, lockVars, localVars
<1>25. ASSUME NEW p \in Proc, CreateRun(p) PROVE TypeOK'
  BY <1>25 DEF CreateRun, Run, NoRun, RunId, inboxVars, lockVars, localVars
<1>26. ASSUME NEW p \in Proc, Execute(p) PROVE TypeOK'
  BY <1>26 DEF Execute, Run, NoRun, RunId, inboxVars, lockVars, localVars
<1>27. ASSUME NEW p \in Proc, SetAside(p) PROVE TypeOK'
  BY <1>27 DEF SetAside, inboxVars, lockVars, localVars
<1>28. ASSUME NEW p \in Proc, DeferQueued(p) PROVE TypeOK'
  <2>1. /\ box' \in [Folders -> [Event -> Payload \cup {None}]]
        /\ Goto(p, "next") \/ Goto(p, Leave(p))
    BY <1>28, MoveType DEF DeferQueued, Folders
  <2>2. QED
    BY <1>28, <2>1 DEF DeferQueued, Leave, lockVars
<1>29. ASSUME NEW p \in Proc, Reclaim(p) PROVE TypeOK'
  <2>0. \A e \in Event :
          Moved("incoming", "processing", e) \in [Folders -> [Event -> Payload \cup {None}]]
    BY MovedType DEF Folders
  <2>1. box' \in [Folders -> [Event -> Payload \cup {None}]]
    BY <1>29, <2>0 DEF Reclaim
  <2>2. QED
    BY <1>29, <2>1 DEF Reclaim, lockVars
<1>30. ASSUME NEW p \in Proc, Defer(p) PROVE TypeOK'
  <2>1. /\ box' \in [Folders -> [Event -> Payload \cup {None}]]
        /\ Goto(p, "next") \/ Goto(p, Leave(p))
    BY <1>30, MoveType DEF Defer, Folders
  <2>2. QED
    BY <1>30, <2>1 DEF Defer, Leave, lockVars
<1>31. ASSUME NEW p \in Proc, Raise(p) PROVE TypeOK'
  BY <1>31 DEF Raise, Leave, inboxVars, lockVars, localVars
<1>32. ASSUME NEW p \in Proc, Crash(p) PROVE TypeOK'
  BY <1>32 DEF Crash, Kill, inboxVars, lockVars, localVars
<1>33. CASE OperatorRemovesLock
  BY <1>33 DEF OperatorRemovesLock, HumanRemovesLock, inboxVars, localVars
<1>34. QED
  BY <1>1, <1>2, <1>3, <1>4, <1>5, <1>6, <1>7, <1>8, <1>9, <1>10, <1>11, <1>12,
       <1>13, <1>14, <1>15, <1>16, <1>17, <1>18, <1>19, <1>20, <1>21, <1>22,
       <1>23, <1>24, <1>25, <1>26, <1>27, <1>28, <1>29, <1>30, <1>31, <1>32,
       <1>33
     DEF Next

\* Every reachable state is of its types.
THEOREM TypeCorrect == Spec => []TypeOK
BY TypeInit, TypeStep, PTL DEF Spec

-----------------------------------------------------------------------------
(* One event, one Run *)

\* Nothing is reserved or made at first.
LEMMA MappingInit == Init => MappingInv
BY DEF Init, MappingInv, OneWriter, ReservationsHold, LedgerNamesEveryRun,
   Exists

\* Every step keeps the mapping.
LEMMA MappingStep == TypeOK /\ MappingInv /\ [Next]_vars => MappingInv'
<1> SUFFICES ASSUME TypeOK, MappingInv, [Next]_vars PROVE MappingInv'
  OBVIOUS
<1> USE Assumed DEF Assumptions, At, Goto
<1>1. OneWriter /\ ReservationsHold /\ LedgerNamesEveryRun
  BY DEF MappingInv
<1>2. /\ ledger \in [Event -> Entry]
      /\ run \in [RunId -> Run \cup {NoRun}]
      /\ pc \in [Proc -> PcValues]
      /\ ev \in [Proc -> Event]
      /\ body \in [Proc -> Payload]
      /\ seen \in [Proc -> Entry]
      /\ goal \in [Proc -> {"INGESTED", "ABANDONED"}]
  BY DEF TypeOK
<1>3. CASE UNCHANGED vars
  BY <1>3 DEF vars, inboxVars, localVars, MappingInv, OneWriter,
     ReservationsHold, LedgerNamesEveryRun, Exists
<1>4. ASSUME NEW p \in Proc, StartTick(p) PROVE MappingInv'
  <2>1. OneWriter'
    BY <1>1, <1>2, <1>4 DEF StartTick, inboxVars, OneWriter
  <2>2. ReservationsHold'
    BY <1>1, <1>2, <1>4 DEF StartTick, inboxVars, ReservationsHold
  <2>3. LedgerNamesEveryRun'
    BY <1>1, <1>4 DEF StartTick, inboxVars, LedgerNamesEveryRun, Exists
  <2>4. QED
    BY <2>1, <2>2, <2>3 DEF MappingInv
<1>5. ASSUME NEW p \in Proc, StartCommand(p) PROVE MappingInv'
  <2>1. OneWriter'
    BY <1>1, <1>5 DEF StartCommand, inboxVars, OneWriter
  <2>2. ReservationsHold'
    BY <1>1, <1>5 DEF StartCommand, inboxVars, ReservationsHold
  <2>3. LedgerNamesEveryRun'
    BY <1>1, <1>5 DEF StartCommand, inboxVars, LedgerNamesEveryRun, Exists
  <2>4. QED
    BY <2>1, <2>2, <2>3 DEF MappingInv
<1>6. ASSUME NEW p \in Proc, Submit(p) PROVE MappingInv'
  <2>1. OneWriter'
    BY <1>1, <1>6 DEF Submit, inboxVars, OneWriter
  <2>2. ReservationsHold'
    BY <1>1, <1>2, <1>6 DEF Submit, inboxVars, ReservationsHold
  <2>3. LedgerNamesEveryRun'
    BY <1>1, <1>6 DEF Submit, inboxVars, LedgerNamesEveryRun, Exists
  <2>4. QED
    BY <2>1, <2>2, <2>3 DEF MappingInv
<1>7. ASSUME NEW p \in Proc, Place(p) PROVE MappingInv'
  <2>1. OneWriter'
    BY <1>1, <1>2, <1>7 DEF Place, OneWriter
  <2>2. ReservationsHold'
    BY <1>1, <1>2, <1>7 DEF Place, ReservationsHold
  <2>3. LedgerNamesEveryRun'
    BY <1>1, <1>7 DEF Place, LedgerNamesEveryRun, Exists
  <2>4. QED
    BY <2>1, <2>2, <2>3 DEF MappingInv
<1>8. ASSUME NEW p \in Proc, ReleaseLock(p) PROVE MappingInv'
  <2>1. OneWriter'
    BY <1>1, <1>8 DEF ReleaseLock, inboxVars, OneWriter
  <2>2. ReservationsHold'
    BY <1>1, <1>2, <1>8 DEF ReleaseLock, inboxVars, ReservationsHold
  <2>3. LedgerNamesEveryRun'
    BY <1>1, <1>8 DEF ReleaseLock, inboxVars, LedgerNamesEveryRun, Exists
  <2>4. QED
    BY <2>1, <2>2, <2>3 DEF MappingInv
<1>9. ASSUME NEW p \in Proc, ListOrphans(p) PROVE MappingInv'
  <2>1. OneWriter'
    BY <1>1, <1>9 DEF ListOrphans, inboxVars, OneWriter
  <2>2. ReservationsHold'
    BY <1>1, <1>2, <1>9 DEF ListOrphans, inboxVars, ReservationsHold
  <2>3. LedgerNamesEveryRun'
    BY <1>1, <1>9 DEF ListOrphans, inboxVars, LedgerNamesEveryRun, Exists
  <2>4. QED
    BY <2>1, <2>2, <2>3 DEF MappingInv
<1>10. ASSUME NEW p \in Proc, TakeOrphan(p) PROVE MappingInv'
  <2>1. OneWriter'
    BY <1>1, <1>10 DEF TakeOrphan, AfterOrphan, Leave, inboxVars, OneWriter
  <2>2. ReservationsHold'
    BY <1>1, <1>2, <1>10
       DEF TakeOrphan, AfterOrphan, Leave, inboxVars, ReservationsHold
  <2>3. LedgerNamesEveryRun'
    BY <1>1, <1>10
       DEF TakeOrphan, AfterOrphan, inboxVars, LedgerNamesEveryRun, Exists
  <2>4. QED
    BY <2>1, <2>2, <2>3 DEF MappingInv
<1>11. ASSUME NEW p \in Proc, CheckRunStatus(p) PROVE MappingInv'
  <2>1. OneWriter'
    BY <1>1, <1>11 DEF CheckRunStatus, inboxVars, OneWriter
  <2>2. ReservationsHold'
    BY <1>1, <1>2, <1>11 DEF CheckRunStatus, inboxVars, ReservationsHold
  <2>3. LedgerNamesEveryRun'
    BY <1>1, <1>11 DEF CheckRunStatus, inboxVars, LedgerNamesEveryRun, Exists
  <2>4. QED
    BY <2>1, <2>2, <2>3 DEF MappingInv
<1>12. ASSUME NEW p \in Proc, OrphansDone(p) PROVE MappingInv'
  <2>1. OneWriter'
    BY <1>1, <1>12 DEF OrphansDone, inboxVars, OneWriter
  <2>2. ReservationsHold'
    BY <1>1, <1>12 DEF OrphansDone, inboxVars, ReservationsHold
  <2>3. LedgerNamesEveryRun'
    BY <1>1, <1>12 DEF OrphansDone, inboxVars, LedgerNamesEveryRun, Exists
  <2>4. QED
    BY <2>1, <2>2, <2>3 DEF MappingInv
<1>13. ASSUME NEW p \in Proc, SettleRead(p) PROVE MappingInv'
  <2>1. OneWriter'
    BY <1>1, <1>13 DEF SettleRead, Leave, inboxVars, OneWriter
  <2>2. ReservationsHold'
    BY <1>1, <1>2, <1>13 DEF SettleRead, Leave, inboxVars, ReservationsHold
  <2>3. LedgerNamesEveryRun'
    BY <1>1, <1>13 DEF SettleRead, inboxVars, LedgerNamesEveryRun, Exists
  <2>4. QED
    BY <2>1, <2>2, <2>3 DEF MappingInv
<1>14. ASSUME NEW p \in Proc, SettleWrite(p) PROVE MappingInv'
  <2>1. OneWriter'
    BY <1>1, <1>14 DEF SettleWrite, OneWriter, ReservationsHold, Recorded,
       Torn
  <2>2. ReservationsHold'
    BY <1>1, <1>2, <1>14 DEF SettleWrite, Settled, ReservationsHold, Recorded
  <2>3. LedgerNamesEveryRun'
    BY <1>1, <1>2, <1>14 DEF SettleWrite, Settled, LedgerNamesEveryRun,
       Exists, Recorded, ReservationsHold
  <2>4. QED
    BY <2>1, <2>2, <2>3 DEF MappingInv
<1>15. ASSUME NEW p \in Proc, Complete(p) PROVE MappingInv'
  <2>1. OneWriter'
    BY <1>1, <1>2, <1>15 DEF Complete, Move, Leave, AfterEvent, OneWriter
  <2>2. ReservationsHold'
    BY <1>1, <1>2, <1>15 DEF Complete, Move, Leave, AfterEvent,
       ReservationsHold
  <2>3. LedgerNamesEveryRun'
    BY <1>1, <1>15 DEF Complete, LedgerNamesEveryRun, Exists
  <2>4. QED
    BY <2>1, <2>2, <2>3 DEF MappingInv
<1>16. ASSUME NEW p \in Proc, Reject(p) PROVE MappingInv'
  <2>1. OneWriter'
    BY <1>1, <1>2, <1>16 DEF Reject, Move, Leave, AfterEvent, OneWriter
  <2>2. ReservationsHold'
    BY <1>1, <1>2, <1>16 DEF Reject, Move, Leave, AfterEvent, ReservationsHold
  <2>3. LedgerNamesEveryRun'
    BY <1>1, <1>16 DEF Reject, LedgerNamesEveryRun, Exists
  <2>4. QED
    BY <2>1, <2>2, <2>3 DEF MappingInv
<1>17. ASSUME NEW p \in Proc, PutBack(p) PROVE MappingInv'
  <2>1. OneWriter'
    BY <1>1, <1>2, <1>17 DEF PutBack, Move, Leave, AfterEvent, OneWriter
  <2>2. ReservationsHold'
    BY <1>1, <1>2, <1>17 DEF PutBack, Move, Leave, AfterEvent,
       ReservationsHold
  <2>3. LedgerNamesEveryRun'
    BY <1>1, <1>17 DEF PutBack, LedgerNamesEveryRun, Exists
  <2>4. QED
    BY <2>1, <2>2, <2>3 DEF MappingInv
<1>18. ASSUME NEW p \in Proc, Promote(p) PROVE MappingInv'
  <2>1. OneWriter'
    BY <1>1, <1>2, <1>18 DEF Promote, OneWriter
  <2>2. ReservationsHold'
    BY <1>1, <1>2, <1>18 DEF Promote, ReservationsHold
  <2>3. LedgerNamesEveryRun'
    BY <1>1, <1>18 DEF Promote, LedgerNamesEveryRun, Exists
  <2>4. QED
    BY <2>1, <2>2, <2>3 DEF MappingInv
<1>19. ASSUME NEW p \in Proc, ListPending(p) PROVE MappingInv'
  <2>1. OneWriter'
    BY <1>1, <1>19 DEF ListPending, inboxVars, OneWriter
  <2>2. ReservationsHold'
    BY <1>1, <1>2, <1>19 DEF ListPending, inboxVars, ReservationsHold
  <2>3. LedgerNamesEveryRun'
    BY <1>1, <1>19 DEF ListPending, inboxVars, LedgerNamesEveryRun, Exists
  <2>4. QED
    BY <2>1, <2>2, <2>3 DEF MappingInv
<1>20. ASSUME NEW p \in Proc, TakeNext(p) PROVE MappingInv'
  <2>1. OneWriter'
    BY <1>1, <1>2, <1>20 DEF TakeNext, Leave, inboxVars, OneWriter
  <2>2. ReservationsHold'
    BY <1>1, <1>2, <1>20 DEF TakeNext, Leave, inboxVars, ReservationsHold
  <2>3. LedgerNamesEveryRun'
    BY <1>1, <1>20 DEF TakeNext, inboxVars, LedgerNamesEveryRun, Exists
  <2>4. QED
    BY <2>1, <2>2, <2>3 DEF MappingInv
<1>21. ASSUME NEW p \in Proc, Claim(p) PROVE MappingInv'
  <2>1. OneWriter'
    BY <1>1, <1>2, <1>21 DEF Claim, OneWriter
  <2>2. ReservationsHold'
    BY <1>1, <1>2, <1>21 DEF Claim, ReservationsHold
  <2>3. LedgerNamesEveryRun'
    BY <1>1, <1>21 DEF Claim, LedgerNamesEveryRun, Exists
  <2>4. QED
    BY <2>1, <2>2, <2>3 DEF MappingInv
<1>22. ASSUME NEW p \in Proc, Read(p) PROVE MappingInv'
  <2>1. OneWriter'
    BY <1>1, <1>2, <1>22 DEF Read, OneWriter
  <2>2. ReservationsHold'
    BY <1>1, <1>2, <1>22 DEF Read, ReservationsHold
  <2>3. LedgerNamesEveryRun'
    BY <1>1, <1>22 DEF Read, LedgerNamesEveryRun, Exists
  <2>4. QED
    BY <2>1, <2>2, <2>3 DEF MappingInv
<1>23. ASSUME NEW p \in Proc, CheckLedger(p) PROVE MappingInv'
  <2>1. OneWriter'
    BY <1>1, <1>23 DEF CheckLedger, AfterLedger, Leave, inboxVars, OneWriter
  <2>2. ReservationsHold'
    BY SMTT(30), <1>1, <1>23 DEF CheckLedger, AfterLedger, Leave, inboxVars,
       ReservationsHold
  <2>3. LedgerNamesEveryRun'
    BY <1>1, <1>23 DEF CheckLedger, inboxVars, LedgerNamesEveryRun, Exists
  <2>4. QED
    BY <2>1, <2>2, <2>3 DEF MappingInv
<1>24. ASSUME NEW p \in Proc, AskProviders(p) PROVE MappingInv'
  <2>1. OneWriter'
    BY <1>1, <1>24 DEF AskProviders, inboxVars, OneWriter
  <2>2. ReservationsHold'
    BY <1>1, <1>24 DEF AskProviders, inboxVars, ReservationsHold
  <2>3. LedgerNamesEveryRun'
    BY <1>1, <1>24 DEF AskProviders, inboxVars, LedgerNamesEveryRun, Exists
  <2>4. QED
    BY <2>1, <2>2, <2>3 DEF MappingInv
<1>25. ASSUME NEW p \in Proc, Reserve(p) PROVE MappingInv'
  <2>1. OneWriter'
    BY <1>1, <1>2, <1>25 DEF Reserve, Reservable, Leave, OneWriter, Torn,
       Absent
  <2>2. ReservationsHold'
    BY <1>1, <1>2, <1>25 DEF Reserve, Reservable, Leave, ReservationsHold,
       Recorded, Absent
  <2>3. LedgerNamesEveryRun'
    BY <1>1, <1>2, <1>25 DEF Reserve, Reservable, LedgerNamesEveryRun, Exists,
       RunId, Run, Absent
  <2>4. QED
    BY <2>1, <2>2, <2>3 DEF MappingInv
<1>26. ASSUME NEW p \in Proc, WriteEntry(p) PROVE MappingInv'
  <2>1. OneWriter'
    BY <1>1, <1>2, <1>26 DEF WriteEntry, OneWriter
  <2>2. ReservationsHold'
    BY <1>1, <1>2, <1>26 DEF WriteEntry, ReservationsHold, Recorded, Torn,
       OneWriter
  <2>3. LedgerNamesEveryRun'
    BY <1>1, <1>2, <1>26 DEF WriteEntry, LedgerNamesEveryRun, Exists, Run,
       Torn, OneWriter
  <2>4. QED
    BY <2>1, <2>2, <2>3 DEF MappingInv
<1>27. ASSUME NEW p \in Proc, CreateRun(p) PROVE MappingInv'
  <2>1. OneWriter'
    BY <1>1, <1>27 DEF CreateRun, OneWriter
  <2>2. ReservationsHold'
    BY <1>1, <1>2, <1>27 DEF CreateRun, ReservationsHold
  <2>3. LedgerNamesEveryRun'
    BY SMTT(30), <1>1, <1>2, <1>27
       DEF CreateRun, inboxVars, lockVars, localVars, LedgerNamesEveryRun,
           Exists, RunId, Recorded, NoRun, Run, Torn, Absent, ReservationsHold,
           OneWriter
  <2>4. QED
    BY <2>1, <2>2, <2>3 DEF MappingInv
<1>28. ASSUME NEW p \in Proc, Execute(p) PROVE MappingInv'
  <2>1. OneWriter'
    BY <1>1, <1>28 DEF Execute, OneWriter
  <2>2. ReservationsHold'
    BY <1>1, <1>2, <1>28 DEF Execute, ReservationsHold
  <2>3. LedgerNamesEveryRun'
    <3> DEFINE mine == <<p, ev[p]>>
    <3>1. mine \in RunId /\ run[mine] \in Run
      BY <1>28 DEF Execute, TypeOK, RunId
    <3>2. run[mine] # NoRun
      BY <3>1 DEF Run, NoRun
    <3>3. run'[mine].payload = run[mine].payload
      BY <1>28 DEF Execute
    <3>4. \A r \in RunId : r # mine => run'[r] = run[r]
      BY <1>28 DEF Execute
    <3>5. UNCHANGED ledger
      BY <1>28 DEF Execute
    <3>6. QED
      BY <1>1, <3>2, <3>3, <3>4, <3>5 DEF LedgerNamesEveryRun, Exists
  <2>4. QED
    BY <2>1, <2>2, <2>3 DEF MappingInv
<1>29. ASSUME NEW p \in Proc, SetAside(p) PROVE MappingInv'
  <2>1. OneWriter'
    BY <1>1, <1>2, <1>29 DEF SetAside, inboxVars, OneWriter
  <2>2. ReservationsHold'
    BY <1>1, <1>2, <1>29 DEF SetAside, inboxVars, ReservationsHold
  <2>3. LedgerNamesEveryRun'
    BY <1>1, <1>29 DEF SetAside, inboxVars, LedgerNamesEveryRun, Exists
  <2>4. QED
    BY <2>1, <2>2, <2>3 DEF MappingInv
<1>30. ASSUME NEW p \in Proc, DeferQueued(p) PROVE MappingInv'
  <2>1. OneWriter'
    BY <1>1, <1>2, <1>30 DEF DeferQueued, Move, Leave, OneWriter
  <2>2. ReservationsHold'
    BY <1>1, <1>2, <1>30 DEF DeferQueued, Move, Leave, ReservationsHold
  <2>3. LedgerNamesEveryRun'
    BY <1>1, <1>30 DEF DeferQueued, LedgerNamesEveryRun, Exists
  <2>4. QED
    BY <2>1, <2>2, <2>3 DEF MappingInv
<1>31. ASSUME NEW p \in Proc, Reclaim(p) PROVE MappingInv'
  <2>1. OneWriter'
    BY <1>1, <1>2, <1>31 DEF Reclaim, OneWriter
  <2>2. ReservationsHold'
    BY <1>1, <1>2, <1>31 DEF Reclaim, ReservationsHold
  <2>3. LedgerNamesEveryRun'
    BY <1>1, <1>31 DEF Reclaim, LedgerNamesEveryRun, Exists
  <2>4. QED
    BY <2>1, <2>2, <2>3 DEF MappingInv
<1>32. ASSUME NEW p \in Proc, Defer(p) PROVE MappingInv'
  <2>1. OneWriter'
    BY <1>1, <1>2, <1>32 DEF Defer, Move, Leave, OneWriter
  <2>2. ReservationsHold'
    BY <1>1, <1>2, <1>32 DEF Defer, Move, Leave, ReservationsHold
  <2>3. LedgerNamesEveryRun'
    BY <1>1, <1>32 DEF Defer, LedgerNamesEveryRun, Exists
  <2>4. QED
    BY <2>1, <2>2, <2>3 DEF MappingInv
<1>33. ASSUME NEW p \in Proc, Raise(p) PROVE MappingInv'
  <2>1. OneWriter'
    BY <1>1, <1>33 DEF Raise, Leave, inboxVars, OneWriter
  <2>2. ReservationsHold'
    BY <1>1, <1>33 DEF Raise, Leave, inboxVars, ReservationsHold
  <2>3. LedgerNamesEveryRun'
    BY <1>1, <1>33 DEF Raise, inboxVars, LedgerNamesEveryRun, Exists
  <2>4. QED
    BY <2>1, <2>2, <2>3 DEF MappingInv
<1>34. ASSUME NEW p \in Proc, Crash(p) PROVE MappingInv'
  <2>1. OneWriter'
    BY <1>1, <1>34 DEF Crash, inboxVars, localVars, OneWriter
  <2>2. ReservationsHold'
    BY <1>1, <1>34 DEF Crash, inboxVars, localVars, ReservationsHold
  <2>3. LedgerNamesEveryRun'
    BY <1>1, <1>34 DEF Crash, inboxVars, LedgerNamesEveryRun, Exists
  <2>4. QED
    BY <2>1, <2>2, <2>3 DEF MappingInv
<1>35. CASE OperatorRemovesLock
  BY <1>35 DEF OperatorRemovesLock, inboxVars, localVars, MappingInv,
     OneWriter, ReservationsHold, LedgerNamesEveryRun, Exists
<1>36. QED
  BY <1>3, <1>4, <1>5, <1>6, <1>7, <1>8, <1>9, <1>10, <1>11, <1>12, <1>13,
     <1>14, <1>15, <1>16, <1>17, <1>18, <1>19, <1>20, <1>21, <1>22, <1>23, <1>24,
     <1>25, <1>26, <1>27, <1>28, <1>29, <1>30, <1>31, <1>32, <1>33, <1>34, <1>35
     DEF Next

\* The mapping invariant holds of every mixture of ticks and commands.
THEOREM MappingCorrect == Spec => []MappingInv
BY TypeCorrect, MappingInit, MappingStep, PTL DEF Spec

\* An event becomes at most one Run, whatever races, dies or is submitted again.
THEOREM AtMostOneRun == Spec => []OneRunPerEvent
<1>1. MappingInv => OneRunPerEvent
  BY DEF MappingInv, LedgerNamesEveryRun, OneRunPerEvent
<1>2. QED
  BY MappingCorrect, <1>1, PTL

\* No Run exists that the ledger does not name, with its bytes.
THEOREM EveryRunNamed == Spec => []LedgerNamesEveryRun
<1>1. MappingInv => LedgerNamesEveryRun
  BY DEF MappingInv
<1>2. QED
  BY MappingCorrect, <1>1, PTL

\* The ledger's mapping is write-once: only SettleWrite touches a written entry,
\* and what it writes back has the identity and is not a reservation.
THEOREM WriteOnce == Spec => MappingNeverRewritten
<1> DEFINE Kept ==
      \A e \in Event : ledger[e].state \in Recorded =>
        /\ ledger'[e].run = ledger[e].run
        /\ ledger'[e].payload = ledger[e].payload
        /\ ledger'[e].state \in Recorded
        /\ ledger'[e].state = "RESERVED" => ledger[e].state = "RESERVED"
<1>1. ASSUME TypeOK, MappingInv, [Next]_vars PROVE Kept
  <2> USE Assumed DEF Assumptions, At, Goto
  <2>1. /\ ledger \in [Event -> Entry]
        /\ ev \in [Proc -> Event]
        /\ goal \in [Proc -> {"INGESTED", "ABANDONED"}]
    BY <1>1 DEF TypeOK
  <2>2. CASE UNCHANGED ledger
    BY <2>2
  <2>3. ASSUME NEW p \in Proc, Reserve(p) PROVE Kept
    BY <2>1, <2>3 DEF Reserve, Reservable, Absent, Recorded
  <2>4. ASSUME NEW p \in Proc, WriteEntry(p) PROVE Kept
    BY <1>1, <2>1, <2>4
       DEF WriteEntry, MappingInv, OneWriter, Torn, Recorded
  <2>5. ASSUME NEW p \in Proc, SettleWrite(p) PROVE Kept
    <3>1. /\ ledger[ev[p]].run = seen[p].run
          /\ ledger[ev[p]].payload = seen[p].payload
      BY <1>1, <2>5 DEF SettleWrite, MappingInv, ReservationsHold
    <3>2. ledger' = [ledger EXCEPT ![ev[p]] = Settled(p)]
      BY <2>5 DEF SettleWrite
    <3>3. seen[p] \in [state : Recorded, run : RunId, payload : Payload]
      BY <1>1, <2>5 DEF SettleWrite, TypeOK, Entry, Unwritten, Recorded
    <3>4. /\ Settled(p).run = seen[p].run
          /\ Settled(p).payload = seen[p].payload
          /\ Settled(p).state \in {"INGESTED", "ABANDONED"}
      BY <2>1, <3>3 DEF Settled
    <3>5. QED
      BY <2>1, <3>1, <3>2, <3>4 DEF Recorded
  <2>6. QED
    BY ZenonT(60), <1>1, <2>2, <2>3, <2>4, <2>5
       DEF Next, vars, inboxVars, StartTick, StartCommand, Submit, Place,
            ReleaseLock, ListOrphans, TakeOrphan, AfterOrphan, CheckRunStatus,
            OrphansDone, SettleRead, Complete, Reject, PutBack, Promote,
            ListPending, TakeNext, Claim, Read, CheckLedger, AskProviders,
            CreateRun, Execute, SetAside, DeferQueued, Reclaim, Defer, Raise,
            Crash, OperatorRemovesLock
<1>2. QED
  BY TypeCorrect, MappingCorrect, <1>1, PTL DEF Spec, MappingNeverRewritten

-----------------------------------------------------------------------------
(* Ticks and lookups *)

Working(p) == p \in Workers \ dead /\ pc[p] \notin {"idle", "done"}

Unresolved(e) == ledger[e].state \in {"TORN", "RESERVED"}

Alone ==
  /\ \A p \in Workers : Working(p) => lockFile = p
  /\ \A p \in Producers : pc[p] \in {"idle", "place", "done"}

\* An entry names a Run of its own event.
NamesOwn ==
  \A e \in Event : ledger[e].state \in Recorded =>
    ledger[e].run \in RunId /\ ledger[e].run[2] = e

\* At work on one event, or between two of a reconcile.
AtOne ==
  {"write_entry", "create", "execute", "settle_read", "settle_write",
   "run_status", "complete", "reject", "put_back"}
PastReconcile ==
  {"promote", "list", "next", "claim", "read", "ledger", "providers", "reserve",
   "set_aside", "reclaim", "defer_queued", "defer"}

Tidy(p) ==
  /\ pc[p] \in PastReconcile => \A e \in Event : ~ Unresolved(e)
  /\ pc[p] = "orphan" =>
       job[p] = "reconcile" /\ \A e \in Event : Unresolved(e) => e \in todo[p]
  /\ pc[p] \in AtOne =>
       \A e \in Event : Unresolved(e) =>
         e = ev[p] \/ (job[p] = "reconcile" /\ e \in todo[p])
  /\ pc[p] \in {"complete", "reject", "put_back"} => ~ Unresolved(ev[p])

\* What settling the entry would say is so.
GoalIsTrue(p) ==
  LET status == run[ledger[ev[p]].run].status IN
  /\ goal[p] = "INGESTED"  => status \in {"CREATED", "NORMALIZED"}
  /\ goal[p] = "ABANDONED" => status \in {"NONE", "FAILED"}

Knows(p) ==
  /\ pc[p] \in {"ledger", "providers", "reserve"} => There("processing", ev[p])
  /\ pc[p] \in {"create", "execute"} =>
       ledger[ev[p]].state = "RESERVED" /\ ledger[ev[p]].run = <<p, ev[p]>>
  /\ pc[p] \in {"run_status", "settle_write"} => seen[p] = ledger[ev[p]]
  /\ pc[p] \in {"settle_read", "settle_write"} =>
       ledger[ev[p]].state = "RESERVED" /\ GoalIsTrue(p)

TicksInv ==
  /\ Alone
  /\ NamesOwn
  /\ OnlyTicks =>
       /\ ReservationIsFindable
       /\ SettledIsTrue
       /\ \A p \in Workers : Working(p) => Tidy(p) /\ Knows(p)

(* What a lookup has established *)

Nowhere(e, F) == \A f \in F : ~ There(f, e)
Somewhere(e, F) == \E f \in F : There(f, e)

\* Nobody else works while a tick looks.
TickLooks(p) ==
  LET e == look[p].event
      l == look[p].at
  IN /\ pc[p] = "list_orphans"
     /\ OnlyTicks /\ l # "ledger" => ledger[e] = Absent
     /\ OnlyTicks /\ l \in {"processed", "failed", "submit", "place"} =>
          ~ There("processing", e)
     /\ OnlyTicks /\ l \in {"failed", "submit", "place"} => ~ There("processed", e)
     /\ OnlyTicks /\ l \in {"submit", "place"} => ~ There("failed", e)

\* An event that was there all the while is where the lookup has yet to look.
YetToFind(p) ==
  LET e == look[p].event
      l == look[p].at
  IN /\ l = "ledger" => Known(e)
     /\ l = "incoming" =>
          Somewhere(e, {"incoming", "processing", "processed", "failed"})
     /\ l = "processing" => Somewhere(e, {"processing", "processed", "failed"})
     /\ l = "processed" => Somewhere(e, {"processed", "failed"})
     /\ l = "failed" => Somewhere(e, {"failed"})

LookInv ==
  \A p \in Proc :
    /\ look[p].at \notin {"deferred", "expired"}
    /\ look[p].at \in {"submit", "place"} => ~ look[p].known
    /\ p \in Workers /\ Looking(p) => TickLooks(p)
    /\ Looking(p) /\ look[p].known => YetToFind(p)

-----------------------------------------------------------------------------
(* Who acts, and what of the others it touches *)

Starts(p) == StartTick(p) \/ StartCommand(p) \/ Submit(p)
Reconciles(p) ==
  \/ ListOrphans(p) \/ TakeOrphan(p) \/ CheckRunStatus(p) \/ OrphansDone(p)
  \/ SettleRead(p) \/ SettleWrite(p)
Moves(p) ==
  \/ Place(p) \/ Complete(p) \/ Reject(p) \/ PutBack(p) \/ Promote(p)
  \/ Claim(p) \/ Read(p) \/ DeferQueued(p) \/ Reclaim(p) \/ Defer(p)
Ingests(p) ==
  \/ ListPending(p) \/ TakeNext(p) \/ CheckLedger(p) \/ AskProviders(p)
  \/ Reserve(p) \/ WriteEntry(p) \/ CreateRun(p) \/ Execute(p) \/ SetAside(p)
Ends(p) == ReleaseLock(p) \/ Raise(p) \/ Crash(p)

Acts(p) == Starts(p) \/ Reconciles(p) \/ Moves(p) \/ Ingests(p) \/ Ends(p)

LEMMA NextActs == Next <=> (\E p \in Proc : Acts(p)) \/ OperatorRemovesLock
BY DEF Next, Acts, Starts, Reconciles, Moves, Ingests, Ends

Local(p) == <<pc[p], job[p], todo[p], ev[p], body[p], seen[p], goal[p]>>

\* An invocation changes its own variables only.
LEMMA OthersStay ==
  ASSUME TypeOK, NEW p \in Proc, Acts(p), NEW q \in Proc, q # p
  PROVE  Local(q)' = Local(q)
<1> USE DEF TypeOK, Goto, Local, lockVars, inboxVars, localVars
<1>1. CASE Starts(p)
  BY <1>1 DEF Starts, StartTick, StartCommand, Submit
<1>2. CASE Reconciles(p)
  BY <1>2 DEF Reconciles, ListOrphans, TakeOrphan, CheckRunStatus, OrphansDone,
     SettleRead, SettleWrite
<1>3. CASE Moves(p)
  BY <1>3 DEF Moves, Move, Place, Complete, Reject, PutBack, Promote, Claim, Read,
     DeferQueued, Reclaim, Defer
<1>4. CASE Ingests(p)
  BY <1>4 DEF Ingests, ListPending, TakeNext, CheckLedger, AskProviders, Reserve,
     WriteEntry, CreateRun, Execute, SetAside
<1>5. CASE Ends(p)
  BY <1>5 DEF Ends, ReleaseLock, Raise, Crash
<1> QED
  BY <1>1, <1>2, <1>3, <1>4, <1>5 DEF Acts

\* Nobody becomes idle again, and the dead stay dead.
LEMMA NeverIdle ==
  ASSUME TypeOK, NEW p \in Proc, Acts(p)
  PROVE  /\ dead \subseteq dead'
         /\ pc[p] # "idle" => pc'[p] # "idle"
         /\ pc[p] = "idle" => Starts(p)
<1> USE DEF TypeOK, LockTypeOK, Goto, At, Leave, AfterEvent, lockVars, inboxVars, localVars
<1>1. CASE Starts(p)
  BY <1>1 DEF Starts, StartTick, StartCommand, Submit, Acquire, Refuse
<1>2. CASE Reconciles(p)
  BY <1>2 DEF Reconciles, ListOrphans, TakeOrphan, AfterOrphan, CheckRunStatus,
     OrphansDone, SettleRead, SettleWrite
<1>3. CASE Moves(p)
  BY <1>3 DEF Moves, Move, Place, Complete, Reject, PutBack, Promote, Claim, Read,
     DeferQueued, Reclaim, Defer
<1>4. CASE Ingests(p)
  BY <1>4 DEF Ingests, ListPending, TakeNext, CheckLedger, AfterLedger,
     AskProviders, Reserve, WriteEntry, CreateRun, Execute, SetAside
<1>5. CASE Ends(p)
  BY <1>5 DEF Ends, ReleaseLock, Release, Raise, Crash, Kill
<1> QED
  BY <1>1, <1>2, <1>3, <1>4, <1>5 DEF Acts

\* A tick that is at work was, or has just taken the lock; a producer submits.
LEMMA WorkStays ==
  ASSUME TypeOK, NEW p \in Proc, Acts(p)
  PROVE  /\ p \in Workers /\ Working(p)' /\ ~ Working(p) =>
              lockFile = NoProc /\ lockFile' = p /\ StartTick(p)
         /\ p \in Workers /\ Working(p)' /\ Working(p) => lockFile' = lockFile
         /\ p \in Producers /\ pc[p] \in {"idle", "place", "done"} =>
              /\ pc'[p] \in {"idle", "place", "done"}
              /\ Submit(p) \/ Place(p) \/ Raise(p) \/ Crash(p)
         /\ \A q \in Proc \ {p} : lockFile = q => lockFile' = q
<1> USE Assumed
    DEF Assumptions, TypeOK, LockTypeOK, Goto, At, Leave, AfterEvent, lockVars,
        inboxVars, localVars, Working
<1>0. p \in Workers => p \notin Producers
  BY PartiesAssumption
<1>1. CASE Starts(p)
  BY ZenonT(60), <1>0, <1>1, PartiesAssumption
  DEF Starts, StartTick, StartCommand, Submit, Acquire, Refuse
<1>2. CASE Reconciles(p)
  BY <1>2 DEF Reconciles, ListOrphans, TakeOrphan, AfterOrphan, CheckRunStatus,
     OrphansDone, SettleRead, SettleWrite
<1>3. CASE Moves(p)
  BY <1>3, PartiesAssumption
  DEF Moves, Move, Place, Complete, Reject, PutBack, Promote, Claim, Read,
     DeferQueued, Reclaim, Defer
<1>4. CASE Ingests(p)
  BY <1>4 DEF Ingests, ListPending, TakeNext, CheckLedger, AfterLedger,
     AskProviders, Reserve, WriteEntry, CreateRun, Execute, SetAside
<1>5. CASE Ends(p)
  BY <1>0, <1>5 DEF Ends, ReleaseLock, Release, Raise, Crash, Kill
<1> QED
  BY <1>1, <1>2, <1>3, <1>4, <1>5 DEF Acts

LEMMA OnlyTicksStays ==
  ASSUME TypeOK, NEW p \in Proc, Acts(p), OnlyTicks'
  PROVE  OnlyTicks /\ p \notin Operators
<1>1. ASSUME NEW o \in Operators, pc[o] # "idle" PROVE FALSE
  <2>1. o \in Proc /\ pc'[o] = "idle"
    BY PartiesAssumption DEF OnlyTicks
  <2>2. CASE o = p
    BY <1>1, <2>1, <2>2, NeverIdle
  <2>3. CASE o # p
    BY <1>1, <2>1, <2>3, OthersStay DEF Local
  <2> QED
    BY <2>2, <2>3
<1>2. ASSUME p \in Operators PROVE FALSE
  <2>1. pc[p] = "idle" /\ pc'[p] = "idle"
    BY <1>1, <1>2 DEF OnlyTicks
  <2>2. p \notin Workers
    BY <1>2, PartiesAssumption
  <2>3. StartCommand(p) \/ Submit(p)
    BY <2>1, <2>2, NeverIdle DEF Starts, StartTick
  <2> QED
    BY <2>1, <2>3 DEF StartCommand, Submit, Goto, TypeOK
<1> QED
  BY <1>1, <1>2 DEF OnlyTicks

LEMMA AloneStep ==
  ASSUME TypeOK, Alone, NEW p \in Proc, Acts(p)
  PROVE  Alone'
<1>1. ASSUME NEW q \in Workers, Working(q)' PROVE lockFile' = q
  <2>1. q \in Proc
    BY PartiesAssumption
  <2>2. CASE q = p
    BY <1>1, <2>2, WorkStays DEF Alone
  <2>3. CASE q # p
    <3>1. Working(q)
      BY <1>1, <2>1, <2>3, OthersStay, NeverIdle DEF Working, Local
    <3> QED
      BY <2>1, <2>3, <3>1, WorkStays DEF Alone
  <2> QED
    BY <2>2, <2>3
<1>2. ASSUME NEW q \in Producers PROVE pc'[q] \in {"idle", "place", "done"}
  <2>1. q \in Proc
    BY PartiesAssumption
  <2>2. CASE q = p
    BY <2>2, WorkStays DEF Alone
  <2>3. CASE q # p
    BY <2>1, <2>3, OthersStay DEF Local, Alone
  <2> QED
    BY <2>2, <2>3
<1> QED
  BY <1>1, <1>2 DEF Alone

\* Only these touch the ledger.
Writes(p) == Reserve(p) \/ WriteEntry(p) \/ SettleWrite(p)

LEMMA LedgerStays ==
  ASSUME NEW p \in Proc, Acts(p)
  PROVE  Writes(p) \/ UNCHANGED ledger
<1> USE DEF inboxVars, Writes
<1>1. CASE Starts(p)
  BY <1>1 DEF Starts, StartTick, StartCommand, Submit
<1>2. CASE Reconciles(p)
  BY <1>2 DEF Reconciles, ListOrphans, TakeOrphan, CheckRunStatus, OrphansDone,
     SettleRead
<1>3. CASE Moves(p)
  BY <1>3 DEF Moves, Place, Complete, Reject, PutBack, Promote, Claim, Read,
     DeferQueued, Reclaim, Defer
<1>4. CASE Ingests(p)
  BY <1>4 DEF Ingests, ListPending, TakeNext, CheckLedger, AskProviders,
     CreateRun, Execute, SetAside
<1>5. CASE Ends(p)
  BY <1>5 DEF Ends, ReleaseLock, Raise, Crash
<1> QED
  BY <1>1, <1>2, <1>3, <1>4, <1>5 DEF Acts

LEMMA NamesOwnStep ==
  ASSUME TypeOK, MappingInv, NamesOwn, NEW p \in Proc, Acts(p)
  PROVE  NamesOwn'
<1>1. CASE UNCHANGED ledger
  BY <1>1 DEF NamesOwn
<1>2. CASE Reserve(p)
  <2>1. ledger' = ledger \/ ledger' = [ledger EXCEPT ![ev[p]] = Torn]
    BY <1>2 DEF Reserve
  <2> QED
    BY <2>1 DEF NamesOwn, Torn, Recorded, TypeOK
<1>3. CASE WriteEntry(p)
  <2>1. <<p, ev[p]>> \in RunId
    BY DEF TypeOK, RunId
  <2>2. \A e \in Event \ {ev[p]} : ledger'[e] = ledger[e]
    BY <1>3 DEF WriteEntry, TypeOK
  <2>3. ledger'[ev[p]].run = <<p, ev[p]>>
    BY <1>3 DEF WriteEntry, TypeOK
  <2> QED
    BY <2>1, <2>2, <2>3 DEF NamesOwn
<1>4. CASE SettleWrite(p)
  <2>1. \A e \in Event \ {ev[p]} : ledger'[e] = ledger[e]
    BY <1>4 DEF SettleWrite, TypeOK
  <2>2. ledger[ev[p]].state \in Recorded /\ ledger[ev[p]].run = seen[p].run
    BY <1>4 DEF SettleWrite, At, MappingInv, ReservationsHold
  <2>3. ledger'[ev[p]].run = seen[p].run
    <3>1. seen[p] \in [state : Recorded, run : RunId, payload : Payload]
      BY <1>4 DEF SettleWrite, At, TypeOK, Entry, Unwritten, Recorded
    <3> QED
      BY <1>4, <3>1 DEF SettleWrite, Settled, TypeOK
  <2>4. ev[p] \in Event
    BY DEF TypeOK
  <2> QED
    BY <2>1, <2>2, <2>3, <2>4 DEF NamesOwn
<1> QED
  BY <1>1, <1>2, <1>3, <1>4, LedgerStays DEF Writes

-----------------------------------------------------------------------------
(* A tick leaves nothing it does not resolve *)

Fine(p) ==
  /\ ReservationIsFindable
  /\ SettledIsTrue
  /\ Tidy(p)
  /\ Knows(p)

\* Files are moved out of processing/ only when their entry is resolved.
LEMMA FindableAfterMove ==
  ASSUME TypeOK, ReservationIsFindable, UNCHANGED ledger,
         NEW e \in Event, NEW from \in Folders, NEW to \in Folders,
         box' = Moved(from, to, e), There(from, e),
         from = "processing" => ~ Unresolved(e)
  PROVE  ReservationIsFindable'
<1> SUFFICES ASSUME NEW x \in Event, ledger[x].state \in {"TORN", "RESERVED"}
             PROVE  box'["processing"][x] # None
  BY DEF ReservationIsFindable, There
<1>1. box["processing"][x] # None
  BY DEF ReservationIsFindable, There
<1>2. "processing" \in Folders
  BY DEF Folders
<1> QED
  BY <1>1, <1>2 DEF Moved, There, Unresolved, TypeOK

\* What the steps below are taken from.
Before(p) ==
  /\ TypeOK /\ MappingInv /\ NamesOwn /\ Fine(p)

LEMMA TickTypes ==
  ASSUME TypeOK, NEW p \in Workers
  PROVE  /\ p \in Proc /\ p \notin Operators /\ p \notin Producers
         /\ ev[p] \in Event /\ pc \in [Proc -> PcValues]
         /\ Leave(p) = "release"
BY PartiesAssumption DEF TypeOK, Leave

\* As long as nothing on disk changes, what a tick knows is all there is to show.
LEMMA FineAtRest ==
  ASSUME NEW p \in Workers, Fine(p), UNCHANGED inboxVars, (Tidy(p) /\ Knows(p))'
  PROVE  Fine(p)'
BY DEF Fine, inboxVars, ReservationIsFindable, SettledIsTrue, There

LEMMA FineOutside ==
  ASSUME NEW p \in Workers, Fine(p), UNCHANGED inboxVars,
         pc'[p] \in {"idle", "list_orphans", "release", "done"}
  PROVE  Fine(p)'
<1>1. Tidy(p)' /\ Knows(p)'
  BY DEF Tidy, Knows, PastReconcile, AtOne
<1> QED
  BY <1>1, FineAtRest

LEMMA ReconcileStep ==
  ASSUME NEW p \in Workers, Before(p), Reconciles(p)
  PROVE  Fine(p)'
<1> USE DEF Before, Fine, At, Goto, lockVars, inboxVars, localVars
<1>0. /\ p \in Proc /\ ev[p] \in Event /\ pc \in [Proc -> PcValues]
      /\ Leave(p) = "release" /\ TypeOK
  BY TickTypes
<1>1. CASE ListOrphans(p)
  <2>1. pc'[p] = "orphan" /\ job'[p] = "reconcile" /\ todo'[p] = Waiting("processing")
    BY <1>0, <1>1 DEF ListOrphans, TypeOK
  <2>2. \A e \in Event : Unresolved(e)' => e \in todo'[p]
    BY <1>1, <2>1 DEF ListOrphans, Unresolved, ReservationIsFindable, Waiting
  <2>3. Tidy(p)' /\ Knows(p)'
    BY <2>1, <2>2 DEF Tidy, Knows, PastReconcile, AtOne
  <2> QED
    BY <1>1, <2>3, FineAtRest DEF ListOrphans
<1>2. CASE TakeOrphan(p)
  <2>1. PICK e \in todo[p] :
          /\ todo' = [todo EXCEPT ![p] = @ \ {e}]
          /\ ev' = [ev EXCEPT ![p] = e]
          /\ seen' = [seen EXCEPT ![p] = ledger[e]]
          /\ Goto(p, AfterOrphan(p, ledger[e]))
    BY <1>2 DEF TakeOrphan
  <2>2. /\ e \in Event /\ ev'[p] = e /\ todo'[p] = todo[p] \ {e}
        /\ seen'[p] = ledger[e] /\ pc'[p] = AfterOrphan(p, ledger[e])
        /\ job'[p] = job[p] /\ job[p] = "reconcile"
    BY <1>0, <1>2, <2>1 DEF TakeOrphan, TypeOK, Tidy
  <2>3. \A x \in Event : Unresolved(x)' => x = e \/ x \in todo'[p]
    BY <1>2, <2>2 DEF TakeOrphan, Unresolved, Tidy
  <2>4. CASE ledger[e].state = "TORN"
    BY <1>0, <1>2, <2>2, <2>4, FineOutside DEF TakeOrphan, AfterOrphan
  <2>5. CASE ledger[e].state = "ABSENT"
    <3>1. pc'[p] = "put_back" /\ ~ Unresolved(e)'
      BY <1>2, <2>2, <2>5 DEF AfterOrphan, Unresolved, TakeOrphan
    <3>2. Tidy(p)' /\ Knows(p)'
      BY <2>2, <2>3, <3>1 DEF Tidy, Knows, PastReconcile, AtOne
    <3> QED
      BY <1>2, <3>2, FineAtRest DEF TakeOrphan
  <2>6. CASE ledger[e].state \notin {"TORN", "ABSENT"}
    <3>1. pc'[p] = "run_status" /\ seen'[p] = ledger'[ev'[p]]
      BY <1>2, <2>2, <2>6 DEF AfterOrphan, TakeOrphan
    <3>2. Tidy(p)' /\ Knows(p)'
      BY <2>2, <2>3, <3>1 DEF Tidy, Knows, PastReconcile, AtOne
    <3> QED
      BY <1>2, <3>2, FineAtRest DEF TakeOrphan
  <2> QED
    BY <2>4, <2>5, <2>6
<1>3. CASE CheckRunStatus(p)
  <2>1. /\ seen[p] = ledger[ev[p]] /\ seen[p].state \in Recorded
        /\ seen[p].run \in RunId /\ run[seen[p].run] \in Run \cup {NoRun}
    BY <1>0, <1>3 DEF CheckRunStatus, Knows, TypeOK, NamesOwn
  <2>2. /\ goal'[p] = IF RunWasMade(seen[p].run) THEN "INGESTED" ELSE "ABANDONED"
        /\ UNCHANGED <<ev, job, todo, seen, ledger, run>>
    BY <1>0, <1>3 DEF CheckRunStatus, TypeOK
  <2>3. GoalIsTrue(p)'
    BY <2>1, <2>2 DEF GoalIsTrue, RunWasMade, Run, NoRun
  <2>4. \A e \in Event : Unresolved(e)' =>
           e = ev'[p] \/ (job'[p] = "reconcile" /\ e \in todo'[p])
    BY <1>3, <2>2 DEF CheckRunStatus, Tidy, AtOne, Unresolved
  <2>5. CASE seen[p].state = "RESERVED"
    <3>1. pc'[p] = "settle_read"
      BY <1>0, <1>3, <2>5 DEF CheckRunStatus
    <3>2. Tidy(p)' /\ Knows(p)'
      BY <2>1, <2>2, <2>3, <2>4, <2>5, <3>1 DEF Tidy, Knows, PastReconcile, AtOne
    <3> QED
      BY <1>3, <3>2, FineAtRest DEF CheckRunStatus
  <2>6. CASE seen[p].state # "RESERVED"
    <3>1. pc'[p] \in {"complete", "reject"}
      BY <1>0, <1>3, <2>6 DEF CheckRunStatus
    <3>2. ~ Unresolved(ev[p])'
      BY <2>1, <2>2, <2>6 DEF Unresolved, Recorded
    <3>3. Tidy(p)' /\ Knows(p)'
      BY <2>2, <2>4, <3>1, <3>2 DEF Tidy, Knows, PastReconcile, AtOne
    <3> QED
      BY <1>3, <3>3, FineAtRest DEF CheckRunStatus
  <2> QED
    BY <2>5, <2>6
<1>4. CASE OrphansDone(p)
  <2>1. pc'[p] = "promote" /\ UNCHANGED ledger
    BY <1>0, <1>4 DEF OrphansDone
  <2>2. \A e \in Event : ~ Unresolved(e)'
    BY <1>4, <2>1 DEF OrphansDone, Tidy, Unresolved
  <2>3. Tidy(p)' /\ Knows(p)'
    BY <2>1, <2>2 DEF Tidy, Knows, AtOne
  <2> QED
    BY <1>4, <2>3, FineAtRest DEF OrphansDone
<1>5. CASE SettleRead(p)
  <2>1. ledger[ev[p]].state = "RESERVED" /\ GoalIsTrue(p)
    BY <1>5 DEF SettleRead, Knows
  <2>2. /\ pc'[p] = "settle_write" /\ seen'[p] = ledger[ev[p]]
        /\ UNCHANGED <<ev, job, todo, goal, ledger, run>>
    BY <1>0, <1>5, <2>1 DEF SettleRead, TypeOK, Recorded
  <2>3. \A e \in Event : Unresolved(e)' =>
           e = ev'[p] \/ (job'[p] = "reconcile" /\ e \in todo'[p])
    BY <1>5, <2>2 DEF SettleRead, Tidy, AtOne, Unresolved
  <2>4. Tidy(p)' /\ Knows(p)'
    BY <2>1, <2>2, <2>3 DEF Tidy, Knows, PastReconcile, AtOne, GoalIsTrue
  <2> QED
    BY <1>5, <2>4, FineAtRest DEF SettleRead
<1>6. CASE SettleWrite(p)
  <2>1. /\ seen[p] = ledger[ev[p]] /\ ledger[ev[p]].state = "RESERVED"
        /\ GoalIsTrue(p) /\ goal[p] \in {"INGESTED", "ABANDONED"}
    BY <1>0, <1>6 DEF SettleWrite, Knows, TypeOK
  <2>2. /\ \A e \in Event \ {ev[p]} : ledger'[e] = ledger[e]
        /\ ledger'[ev[p]] = [ledger[ev[p]] EXCEPT !.state = goal[p]]
        /\ UNCHANGED <<ev, job, todo, goal, run, box>>
    BY <1>0, <1>6, <2>1 DEF SettleWrite, Settled, TypeOK
  <2>3. ledger'[ev[p]].state = goal[p] /\ ledger'[ev[p]].run = ledger[ev[p]].run
    <3>1. ledger[ev[p]] \in [state : Recorded, run : RunId, payload : Payload]
      BY <1>0, <2>1 DEF TypeOK, Entry, Unwritten
    <3> QED
      BY <2>2, <3>1
  <2>4. ReservationIsFindable'
    BY <2>1, <2>2, <2>3 DEF ReservationIsFindable, There
  <2>5. SettledIsTrue'
    <3> DEFINE True(st, r) ==
          /\ st = "INGESTED"  => run[r].status \in {"CREATED", "NORMALIZED"}
          /\ st = "ABANDONED" => run[r].status \in {"NONE", "FAILED"}
    <3>1. \A e \in Event : True(ledger[e].state, ledger[e].run)
      BY DEF SettledIsTrue
    <3>2. True(goal[p], ledger[ev[p]].run)
      BY <2>1 DEF GoalIsTrue
    <3>3. \A e \in Event : True(ledger'[e].state, ledger'[e].run)
      <4> HIDE DEF True
      <4> QED
        BY <2>2, <2>3, <3>1, <3>2
    <3> QED
      BY <2>2, <3>3 DEF SettledIsTrue
  <2>6. pc'[p] \in {"complete", "reject"}
    BY <1>0, <1>6 DEF SettleWrite
  <2>7. \A e \in Event : Unresolved(e)' =>
           e = ev'[p] \/ (job'[p] = "reconcile" /\ e \in todo'[p])
    BY <1>6, <2>2 DEF SettleWrite, Tidy, AtOne, Unresolved
  <2>8. ~ Unresolved(ev[p])'
    BY <2>1, <2>2, <2>3 DEF Unresolved
  <2>9. Tidy(p)' /\ Knows(p)'
    BY <2>2, <2>6, <2>7, <2>8 DEF Tidy, Knows, PastReconcile, AtOne
  <2> QED
    BY <2>4, <2>5, <2>9
<1> QED
  BY <1>1, <1>2, <1>3, <1>4, <1>5, <1>6 DEF Reconciles

\* An event that is moved out of processing/ is resolved; run and ledger stay.
LEMMA FineAfterMove ==
  ASSUME NEW p \in Workers, Before(p), UNCHANGED <<ledger, run>>,
         NEW e \in Event, NEW from \in Folders, NEW to \in Folders,
         box' = Moved(from, to, e), There(from, e),
         from = "processing" => ~ Unresolved(e),
         (Tidy(p) /\ Knows(p))'
  PROVE  Fine(p)'
<1>1. ReservationIsFindable'
  BY FindableAfterMove DEF Before, Fine
<1>2. SettledIsTrue'
  BY DEF Before, Fine, SettledIsTrue
<1> QED
  BY <1>1, <1>2 DEF Fine

\* Moving the event at hand, from where it may have been taken meanwhile.
LEMMA FineMove ==
  ASSUME NEW p \in Workers, Before(p), UNCHANGED <<ledger, run, job, todo, ev>>,
         NEW from \in Folders, NEW to \in Folders,
         NEW next \in {"next", "orphan", "set_aside"},
         Move(p, from, to, next),
         from = "processing" => ~ Unresolved(ev[p]),
         next # "orphan" => \A e \in Event : ~ Unresolved(e),
         next = "orphan" =>
           /\ job[p] = "reconcile"
           /\ \A e \in Event : Unresolved(e) => e \in todo[p]
  PROVE  Fine(p)'
<1>0. p \in Proc /\ ev[p] \in Event /\ pc \in [Proc -> PcValues] /\ Leave(p) = "release"
  BY TickTypes DEF Before
<1>1. CASE There(from, ev[p])
  <2>1. box' = Moved(from, to, ev[p]) /\ pc'[p] = next
    BY <1>0, <1>1 DEF Move, Goto
  <2>2. \A e \in Event : Unresolved(e)' <=> Unresolved(e)
    BY DEF Unresolved
  <2>3. Tidy(p)' /\ Knows(p)'
    BY <2>1, <2>2 DEF Tidy, Knows, PastReconcile, AtOne
  <2> QED
    BY <1>0, <1>1, <2>1, <2>3, FineAfterMove
<1>2. CASE ~ There(from, ev[p])
  BY <1>0, <1>2, FineOutside DEF Move, Goto, Before, inboxVars
<1> QED
  BY <1>1, <1>2

LEMMA MoveStep ==
  ASSUME NEW p \in Workers, Before(p), Moves(p)
  PROVE  Fine(p)'
<1> USE DEF At, Goto, lockVars, inboxVars, localVars
<1>0. /\ p \in Proc /\ p \notin Operators /\ ev[p] \in Event
      /\ pc \in [Proc -> PcValues] /\ Leave(p) = "release" /\ TypeOK
  BY TickTypes DEF Before
<1>1. ReservationIsFindable /\ SettledIsTrue /\ Tidy(p) /\ Knows(p)
  BY DEF Before, Fine
<1>2. {"incoming", "processing", "processed", "failed", "deferred", "expired"} = Folders
  BY DEF Folders
<1>3. CASE Place(p)
  <2>1. pc'[p] = "done" /\ UNCHANGED <<ledger, run>>
    BY <1>0, <1>3 DEF Place
  <2>2. \A e \in Event : There("processing", e)' <=> There("processing", e)
    BY <1>0, <1>2, <1>3 DEF Place, There, TypeOK
  <2>3. ReservationIsFindable' /\ SettledIsTrue'
    BY <1>1, <2>1, <2>2 DEF ReservationIsFindable, SettledIsTrue
  <2>4. Tidy(p)' /\ Knows(p)'
    BY <2>1 DEF Tidy, Knows, PastReconcile, AtOne
  <2> QED
    BY <2>3, <2>4 DEF Fine
<1>4. CASE Complete(p) \/ Reject(p) \/ PutBack(p)
  <2>1. /\ pc[p] \in {"complete", "reject", "put_back"}
        /\ UNCHANGED <<ledger, run, job, todo, ev>>
    BY <1>4 DEF Complete, Reject, PutBack
  <2>2. /\ ~ Unresolved(ev[p])
        /\ \A e \in Event : Unresolved(e) => job[p] = "reconcile" /\ e \in todo[p]
    BY <1>1, <2>1 DEF Tidy, AtOne
  <2>3. job[p] \in {"reconcile", "ingest"}
    BY <1>0 DEF TypeOK
  <2>4. PICK to \in Folders, next \in {"next", "orphan", "set_aside"} :
          /\ Move(p, "processing", to, next)
          /\ next = "orphan" <=> job[p] = "reconcile"
    BY <1>2, <1>4, <2>3 DEF Complete, Reject, PutBack, AfterEvent
  <2> QED
    BY <1>2, <2>1, <2>2, <2>3, <2>4, FineMove
<1>5. CASE DeferQueued(p) \/ Defer(p)
  <2>1. /\ pc[p] \in PastReconcile
        /\ UNCHANGED <<ledger, run, job, todo, ev>>
    BY <1>5 DEF DeferQueued, Defer, PastReconcile
  <2>2. \A e \in Event : ~ Unresolved(e)
    BY <1>1, <2>1 DEF Tidy
  <2>3. PICK from \in Folders : Move(p, from, "deferred", "next")
    BY <1>2, <1>5 DEF DeferQueued, Defer
  <2> QED
    BY <1>0, <1>2, <2>1, <2>2, <2>3, FineMove
<1>6. CASE Promote(p) \/ Claim(p) \/ Read(p) \/ Reclaim(p)
  <2>1. pc[p] \in PastReconcile /\ UNCHANGED <<ledger, run, job, todo, ev, seen>>
    BY <1>6 DEF Promote, Claim, Read, Reclaim, PastReconcile
  <2>2. \A e \in Event : ~ Unresolved(e) /\ ~ Unresolved(e)'
    BY <1>1, <2>1 DEF Tidy, Unresolved
  <2>3. ReservationIsFindable' /\ SettledIsTrue'
    BY <1>1, <2>1, <2>2 DEF ReservationIsFindable, SettledIsTrue, Unresolved
  <2>4. pc'[p] \in {"promote", "list", "next", "read", "reject", "ledger", "defer"}
    BY <1>0, <1>6 DEF Promote, Claim, Read, Reclaim
  <2>5. pc'[p] = "ledger" => There("processing", ev[p])'
    <3>1. CASE Read(p)
      BY <1>0, <3>1, PayloadAssumption DEF Read, There
    <3>2. CASE Promote(p) \/ Claim(p) \/ Reclaim(p)
      BY <1>0, <3>2 DEF Promote, Claim, Reclaim
    <3> QED
      BY <1>6, <3>1, <3>2
  <2>6. Tidy(p)' /\ Knows(p)'
    BY <1>0, <2>1, <2>2, <2>4, <2>5 DEF Tidy, Knows, PastReconcile, AtOne
  <2> QED
    BY <2>3, <2>6 DEF Fine
<1> QED
  BY <1>3, <1>4, <1>5, <1>6 DEF Moves

LEMMA IngestStep ==
  ASSUME NEW p \in Workers, Before(p), Ingests(p)
  PROVE  Fine(p)'
<1> USE DEF At, Goto, lockVars, inboxVars, localVars
<1>0. /\ p \in Proc /\ ev[p] \in Event /\ <<p, ev[p]>> \in RunId
      /\ pc \in [Proc -> PcValues] /\ Leave(p) = "release" /\ TypeOK
  BY TickTypes DEF Before, RunId
<1>1. ReservationIsFindable /\ SettledIsTrue /\ Tidy(p) /\ Knows(p)
  BY DEF Before, Fine
<1>2. CASE ListPending(p) \/ TakeNext(p) \/ SetAside(p)
  <2>1. UNCHANGED inboxVars /\ \A e \in Event : ~ Unresolved(e)'
    BY <1>1, <1>2 DEF ListPending, TakeNext, SetAside, Tidy, PastReconcile, Unresolved
  <2>2. pc'[p] \in {"next", "claim", "release", "reclaim", "defer_queued"}
    BY <1>0, <1>2 DEF ListPending, TakeNext, SetAside
  <2>3. Tidy(p)' /\ Knows(p)'
    BY <2>1, <2>2 DEF Tidy, Knows, AtOne
  <2> QED
    BY <2>1, <2>3, FineAtRest DEF Before
<1>3. CASE CheckLedger(p) \/ AskProviders(p)
  <2>1. UNCHANGED <<inboxVars, ev, job, todo>>
    BY <1>3 DEF CheckLedger, AskProviders
  <2>2. (\A e \in Event : ~ Unresolved(e)') /\ There("processing", ev[p])
    BY <1>1, <1>3, <2>1 DEF CheckLedger, AskProviders, Tidy, Knows, PastReconcile,
       Unresolved
  <2>3. pc'[p] \in {"providers", "reject", "complete", "release", "reserve", "put_back"}
    BY <1>0, <1>3 DEF CheckLedger, AfterLedger, AskProviders
  <2>4. Tidy(p)' /\ Knows(p)'
    BY <1>0, <2>1, <2>2, <2>3 DEF Tidy, Knows, AtOne, There
  <2> QED
    BY <2>1, <2>4, FineAtRest DEF Before
<1>4. CASE Reserve(p)
  <2>1. (\A e \in Event : ~ Unresolved(e)) /\ There("processing", ev[p])
    BY <1>1, <1>4 DEF Reserve, Tidy, Knows, PastReconcile
  <2>2. CASE ~ Reservable(ev[p])
    BY <1>0, <1>4, <2>2, FineOutside DEF Reserve, Before
  <2>3. CASE Reservable(ev[p])
    <3>1. /\ \A e \in Event \ {ev[p]} : ledger'[e] = ledger[e]
          /\ ledger'[ev[p]] = Torn /\ pc'[p] = "write_entry"
          /\ UNCHANGED <<box, run, ev>>
      BY <1>0, <1>4, <2>3 DEF Reserve, TypeOK
    <3>2. \A e \in Event : Unresolved(e)' => e = ev'[p]
      BY <2>1, <3>1 DEF Unresolved
    <3>3. ReservationIsFindable'
      BY <2>1, <3>1, <3>2 DEF ReservationIsFindable, Unresolved, There
    <3>4. SettledIsTrue'
      BY <1>1, <3>1 DEF SettledIsTrue, Torn
    <3>5. Tidy(p)' /\ Knows(p)'
      BY <3>1, <3>2 DEF Tidy, Knows, PastReconcile
    <3> QED
      BY <3>3, <3>4, <3>5 DEF Fine
  <2> QED
    BY <2>2, <2>3
<1>5. CASE WriteEntry(p)
  <2>1. ledger[ev[p]] = Torn
    BY <1>0, <1>5 DEF WriteEntry, Before, MappingInv, OneWriter
  <2>2. /\ \A e \in Event \ {ev[p]} : ledger'[e] = ledger[e]
        /\ ledger'[ev[p]] =
             [state |-> "RESERVED", run |-> <<p, ev[p]>>, payload |-> body[p]]
        /\ pc'[p] = "create" /\ UNCHANGED <<box, run, ev, job, todo>>
    BY <1>0, <1>5 DEF WriteEntry, TypeOK
  <2>3. \A e \in Event : Unresolved(e)' => Unresolved(e)
    BY <2>1, <2>2 DEF Unresolved, Torn
  <2>4. ReservationIsFindable'
    BY <1>1, <2>2, <2>3 DEF ReservationIsFindable, Unresolved, There
  <2>5. SettledIsTrue'
    BY <1>1, <2>2 DEF SettledIsTrue
  <2>6. Tidy(p)' /\ Knows(p)'
    BY <1>0, <1>1, <1>5, <2>2, <2>3 DEF WriteEntry, Tidy, Knows, PastReconcile, AtOne
  <2> QED
    BY <2>4, <2>5, <2>6 DEF Fine
<1>6. CASE CreateRun(p) \/ Execute(p)
  <2>1. /\ ledger[ev[p]].state = "RESERVED" /\ ledger[ev[p]].run = <<p, ev[p]>>
        /\ UNCHANGED <<box, ledger, ev, job, todo>> /\ pc[p] \in AtOne
    BY <1>1, <1>6 DEF CreateRun, Execute, Knows, AtOne
  <2>2. \A r \in RunId : r # <<p, ev[p]>> => run'[r] = run[r]
    BY <1>0, <1>6 DEF CreateRun, Execute, TypeOK
  <2>3. ReservationIsFindable'
    BY <1>1, <2>1 DEF ReservationIsFindable, There
  <2>4. SettledIsTrue'
    <3>1. ASSUME NEW e \in Event, ledger[e].state \in {"INGESTED", "ABANDONED"}
          PROVE  run'[ledger[e].run] = run[ledger[e].run]
      <4>1. e # ev[p] /\ ledger[e].run \in RunId /\ ledger[e].run[2] = e
        BY <2>1, <3>1 DEF Before, NamesOwn, Recorded
      <4>2. ledger[e].run # <<p, ev[p]>>
        BY <4>1
      <4> QED
        BY <2>2, <4>1, <4>2
    <3>2. ledger' = ledger
      BY <2>1
    <3> QED
      BY <1>1, <3>1, <3>2 DEF SettledIsTrue
  <2>5. \A e \in Event : Unresolved(e)' =>
           e = ev'[p] \/ (job'[p] = "reconcile" /\ e \in todo'[p])
    BY <1>1, <2>1 DEF Tidy, Unresolved
  <2>6. CASE CreateRun(p)
    <3>1. pc'[p] = "execute"
      BY <1>0, <2>6 DEF CreateRun
    <3>2. Tidy(p)' /\ Knows(p)'
      BY <2>1, <2>5, <3>1 DEF Tidy, Knows, PastReconcile
    <3> QED
      BY <2>3, <2>4, <3>2 DEF Fine
  <2>7. CASE Execute(p)
    <3>1. PICK s \in {"NORMALIZED", "FAILED"} :
            /\ run' = [run EXCEPT ![<<p, ev[p]>>].status = s]
            /\ goal' = [goal EXCEPT ![p] =
                          IF s = "NORMALIZED" THEN "INGESTED" ELSE "ABANDONED"]
      BY <2>7 DEF Execute
    <3>2. run[<<p, ev[p]>>] \in Run
      BY <1>0, <2>7 DEF Execute, TypeOK
    <3>3. run'[<<p, ev[p]>>].status = s
      BY <1>0, <3>1, <3>2 DEF TypeOK, Run
    <3>4. GoalIsTrue(p)'
      BY <1>0, <2>1, <3>1, <3>3 DEF GoalIsTrue, TypeOK
    <3>5. pc'[p] = "settle_read"
      BY <1>0, <2>7 DEF Execute
    <3>6. Tidy(p)' /\ Knows(p)'
      BY <2>1, <2>5, <3>4, <3>5 DEF Tidy, Knows, PastReconcile
    <3> QED
      BY <2>3, <2>4, <3>6 DEF Fine
  <2> QED
    BY <1>6, <2>6, <2>7
<1> QED
  BY <1>2, <1>3, <1>4, <1>5, <1>6 DEF Ingests

LEMMA FineStep ==
  ASSUME NEW p \in Workers, Before(p), Acts(p)
  PROVE  Fine(p)'
<1> USE DEF At, Goto, lockVars, inboxVars, localVars
<1>0. /\ p \in Proc /\ p \notin Operators /\ p \notin Producers
      /\ pc \in [Proc -> PcValues] /\ Leave(p) = "release"
      /\ TypeOK /\ Fine(p)
  BY TickTypes DEF Before
<1>1. CASE Starts(p)
  BY <1>0, <1>1, FineOutside DEF Starts, StartTick, StartCommand, Submit
<1>2. CASE Crash(p)
  <2>1. UNCHANGED inboxVars /\ UNCHANGED localVars
    BY <1>2 DEF Crash
  <2>2. Tidy(p)' /\ Knows(p)'
    BY <1>0, <2>1 DEF Fine, Tidy, Knows, Unresolved, GoalIsTrue, There
  <2> QED
    BY <1>0, <2>1, <2>2, FineAtRest
<1>3. CASE ReleaseLock(p) \/ Raise(p)
  BY <1>0, <1>3, FineOutside DEF ReleaseLock, Raise
<1> QED
  BY <1>1, <1>2, <1>3, ReconcileStep, MoveStep, IngestStep DEF Acts, Ends

\* The dead do nothing, and whoever has not started can only start.
LEMMA ActsAlive ==
  ASSUME NEW p \in Proc, Acts(p)
  PROVE  p \notin dead /\ pc[p] # "done" /\ (pc[p] = "idle" => UNCHANGED inboxVars)
<1> USE DEF At, inboxVars
<1>1. CASE Starts(p)
  BY <1>1 DEF Starts, StartTick, StartCommand, Submit
<1>2. CASE Reconciles(p)
  BY <1>2 DEF Reconciles, ListOrphans, TakeOrphan, CheckRunStatus, OrphansDone,
     SettleRead, SettleWrite
<1>3. CASE Moves(p)
  BY <1>3 DEF Moves, Place, Complete, Reject, PutBack, Promote, Claim, Read,
     DeferQueued, Reclaim, Defer
<1>4. CASE Ingests(p)
  BY <1>4 DEF Ingests, ListPending, TakeNext, CheckLedger, AskProviders, Reserve,
     WriteEntry, CreateRun, Execute, SetAside
<1>5. CASE Ends(p)
  BY <1>5 DEF Ends, ReleaseLock, Raise, Crash, Kill
<1> QED
  BY <1>1, <1>2, <1>3, <1>4, <1>5 DEF Acts

\* Only incoming/ may change: what a submission does.
Quiet ==
  /\ UNCHANGED <<ledger, run>>
  /\ \A f \in Folders \ {"incoming"} : box'[f] = box[f]

LEMMA ProducersAreQuiet ==
  ASSUME TypeOK, Alone, NEW p \in Producers, Acts(p)
  PROVE  Quiet
<1>1. p \in Proc /\ (Submit(p) \/ Place(p) \/ Raise(p) \/ Crash(p))
  BY WorkStays, PartiesAssumption DEF Alone
<1> QED
  BY <1>1 DEF Quiet, Submit, Place, Raise, Crash, inboxVars, TypeOK, Folders

\* Whatever happens to incoming/, a tick knows as much as before.
LEMMA FineWhenQuiet ==
  ASSUME NEW q \in Workers, Fine(q), Quiet, Local(q)' = Local(q)
  PROVE  Fine(q)'
<1>1. \A e \in Event : There("processing", e)' <=> There("processing", e)
  BY DEF Quiet, There, Folders
<1>2. UNCHANGED <<ledger, run>>
  BY DEF Quiet
<1>3. /\ pc'[q] = pc[q] /\ ev'[q] = ev[q] /\ seen'[q] = seen[q]
      /\ goal'[q] = goal[q] /\ todo'[q] = todo[q] /\ job'[q] = job[q]
  BY DEF Local
<1>4. ReservationIsFindable' /\ SettledIsTrue'
  BY <1>1, <1>2 DEF Fine, ReservationIsFindable, SettledIsTrue
<1>5. Tidy(q)'
  BY <1>2, <1>3 DEF Fine, Tidy, Unresolved
<1>6. Knows(q)'
  <2>1. There("processing", ev[q])' <=> There("processing", ev[q])
    BY <1>3 DEF Quiet, There, Folders
  <2> QED
    BY <1>2, <1>3, <2>1 DEF Fine, Knows, GoalIsTrue, There
<1> QED
  BY <1>4, <1>5, <1>6 DEF Fine

LEMMA TicksActs ==
  ASSUME TypeOK, MappingInv, TicksInv, NEW p \in Proc, Acts(p)
  PROVE  TicksInv'
<1>1. Alone' /\ NamesOwn'
  BY AloneStep, NamesOwnStep DEF TicksInv
<1>2. ASSUME OnlyTicks' PROVE (ReservationIsFindable /\ SettledIsTrue)'
                              /\ \A q \in Workers : Working(q)' => (Tidy(q) /\ Knows(q))'
  <2>1. OnlyTicks /\ p \notin Operators
    BY <1>2, OnlyTicksStays
  <2>2. \A q \in Workers : Working(q) \/ pc[q] \in {"idle", "done"} => Fine(q)
    BY <2>1 DEF TicksInv, Fine, Tidy, Knows, PastReconcile, AtOne
  <2>3. CASE p \in Producers
    <3>1. Quiet
      BY <2>3, ProducersAreQuiet DEF TicksInv
    <3>2. ReservationIsFindable' /\ SettledIsTrue'
      BY <2>1, <3>1 DEF TicksInv, Quiet, ReservationIsFindable, SettledIsTrue, There,
         Folders
    <3>3. ASSUME NEW q \in Workers, Working(q)' PROVE (Tidy(q) /\ Knows(q))'
      <4>1. q \in Proc /\ q # p
        BY <2>3, PartiesAssumption
      <4>2. Working(q) /\ Local(q)' = Local(q)
        BY <3>3, <4>1, OthersStay, NeverIdle DEF Working, Local
      <4> QED
        BY <2>2, <3>1, <4>2, FineWhenQuiet DEF Fine
    <3> QED
      BY <3>2, <3>3
  <2>4. CASE p \in Workers
    <3>1. Fine(p)
      BY <2>2, <2>4, ActsAlive DEF Working
    <3>2. Fine(p)'
      BY <2>4, <3>1, FineStep DEF Before, TicksInv
    <3>3. ASSUME NEW q \in Workers, Working(q)', q # p PROVE (Tidy(q) /\ Knows(q))'
      <4>1. q \in Proc
        BY PartiesAssumption
      <4>2. Working(q) /\ Local(q)' = Local(q)
        BY <3>3, <4>1, OthersStay, NeverIdle DEF Working, Local
      <4>3. ~ Working(p)
        BY <2>4, <3>3, <4>2 DEF TicksInv, Alone
      <4>4. UNCHANGED inboxVars
        BY <2>4, <4>3, ActsAlive DEF Working
      <4>5. Quiet
        BY <4>4 DEF Quiet, inboxVars
      <4> QED
        BY <2>2, <4>2, <4>5, FineWhenQuiet DEF Fine
    <3> QED
      BY <3>2, <3>3 DEF Fine
  <2> QED
    BY <2>1, <2>3, <2>4, PartiesAssumption
<1> QED
  BY <1>1, <1>2 DEF TicksInv

LEMMA TicksStep == TypeOK /\ MappingInv /\ TicksInv /\ [Next]_vars => TicksInv'
<1> SUFFICES ASSUME TypeOK, MappingInv, TicksInv, [Next]_vars PROVE TicksInv'
  OBVIOUS
<1>1. CASE UNCHANGED <<inboxVars, localVars>> /\ UNCHANGED lockFile /\ UNCHANGED dead
  BY <1>1
  DEF inboxVars, localVars, TicksInv, Alone, NamesOwn, OnlyTicks, Working, Tidy, Knows,
      ReservationIsFindable, SettledIsTrue, There, Unresolved, GoalIsTrue
<1>2. CASE OperatorRemovesLock
  <2>1. /\ UNCHANGED <<inboxVars, localVars, dead>> /\ lockFile \in dead
    BY <1>2 DEF OperatorRemovesLock, HumanRemovesLock
  <2>2. \A p \in Workers : ~ Working(p)
    BY <2>1 DEF TicksInv, Alone, Working
  <2>3. \A p \in Workers : ~ Working(p)'
    BY <2>1, <2>2 DEF Working, localVars
  <2> QED
    BY <2>1, <2>3
    DEF inboxVars, localVars, TicksInv, Alone, NamesOwn, OnlyTicks,
        ReservationIsFindable, SettledIsTrue, There
<1>3. ASSUME NEW p \in Proc, Acts(p) PROVE TicksInv'
  BY <1>3, TicksActs
<1>4. CASE UNCHANGED vars
  BY <1>1, <1>4 DEF vars, lockVars
<1> QED
  BY <1>2, <1>3, <1>4, NextActs

LEMMA TicksInit == Init => TicksInv
BY PartiesAssumption
DEF Init, LockInit, TicksInv, Alone, NamesOwn, Working, ReservationIsFindable, SettledIsTrue,
    Absent, Recorded

LEMMA TicksEnough == TicksInv => TicksRecover
<1> SUFFICES ASSUME TicksInv, OnlyTicks
             PROVE  ReservationIsFindable /\ ReconcileResolvesAll /\ SettledIsTrue
  BY DEF TicksRecover
<1>1. \A p \in Workers : Working(p) => Tidy(p)
  BY DEF TicksInv
<1>2. ReconcileResolvesAll
  BY <1>1 DEF ReconcileResolvesAll, Working, Tidy, PastReconcile, Unresolved
<1> QED
  BY <1>2 DEF TicksInv

\* As long as only ticks ingest and reconcile, whatever a killed one left is
\* recovered to what is so: its event is where reconcile looks, no tick gets past
\* reconcile with a reservation unresolved, and a settled entry is true of its
\* Run (services/ingestion.py, reconcile).
THEOREM KilledTicksAreRecovered == Spec => []TicksRecover
BY TypeCorrect, MappingCorrect, TicksInit, TicksStep, TicksEnough, PTL DEF Spec

-----------------------------------------------------------------------------
(* Lookups *)

LEMMA SearchedIs ==
  /\ Searched[1] = "incoming" /\ Searched[2] = "processing"
  /\ Searched[3] = "processed" /\ Searched[4] = "failed"
  /\ Len(Searched) = 4
BY DEF Searched

\* What one lookup does to itself: the disk is as it was.
Steps(p) == LookInLedger(p) \/ LookInFolder(p) \/ CheckQueue(p) \/ GiveUp(p)

LEMMA AdmissionTypeInit == AdmissionInit => AdmissionTypeOK
<1>1. Blank("none") \in Lookup
  BY EventAssumption, PayloadAssumption DEF Blank, Lookup, LookAt
<1> QED
  BY <1>1, TypeInit DEF AdmissionInit, AdmissionTypeOK

LEMMA OntoType ==
  ASSUME NEW p \in Proc, NEW l \in LookAt, look \in [Proc -> Lookup], Onto(p, l)
  PROVE  /\ look' \in [Proc -> Lookup]
         /\ \A q \in Proc \ {p} : look'[q] = look[q]
         /\ look'[p].at = l
         /\ l # "over" => look'[p] = [look[p] EXCEPT !.at = l]
         /\ l = "over" => ~ look'[p].known
<1>1. Blank("over") \in Lookup /\ Blank("over").at = "over" /\ ~ Blank("over").known
  BY EventAssumption, PayloadAssumption DEF Blank, Lookup, LookAt
<1>2. look[p] \in Lookup
  OBVIOUS
<1>3. [look[p] EXCEPT !.at = l] \in Lookup /\ [look[p] EXCEPT !.at = l].at = l
  BY <1>2 DEF Lookup
<1> QED
  BY <1>1, <1>3 DEF Onto

LEMMA StepsOnto ==
  ASSUME NEW p \in Proc, Steps(p)
  PROVE  \E l \in LookAt : Onto(p, l)
<1>1. CASE LookInLedger(p)
  BY <1>1, SearchedIs DEF LookInLedger, LookAt, Folders
<1>2. CASE LookInFolder(p)
  <2>1. PICK i \in 1 .. 4 :
          Onto(p, IF There(Searched[i], look[p].event) THEN "over"
                  ELSE IF i = Len(Searched) THEN "submit"
                  ELSE Searched[i + 1])
    BY <1>2, SearchedIs DEF LookInFolder
  <2>2. i = 4 \/ Searched[i + 1] \in LookAt
    BY SearchedIs DEF LookAt, Folders
  <2> QED
    BY <2>1, <2>2, SearchedIs DEF LookAt
<1>3. CASE CheckQueue(p) \/ GiveUp(p)
  BY <1>3 DEF CheckQueue, GiveUp, LookAt
<1> QED
  BY <1>1, <1>2, <1>3 DEF Steps

LEMMA AdmissionTypeStep ==
  AdmissionTypeOK /\ [AdmissionNext]_admissionVars => AdmissionTypeOK'
<1> SUFFICES ASSUME AdmissionTypeOK, [AdmissionNext]_admissionVars
             PROVE  AdmissionTypeOK'
  OBVIOUS
<1>0. TypeOK /\ look \in [Proc -> Lookup]
  BY DEF AdmissionTypeOK
<1>1. CASE UNCHANGED admissionVars
  <2>1. UNCHANGED vars /\ UNCHANGED look
    BY <1>1 DEF admissionVars
  <2> QED
    BY <1>0, <2>1, TypeStep DEF AdmissionTypeOK
<1>2. ASSUME NEW p \in Proc, Offer(p) PROVE AdmissionTypeOK'
  <2>1. UNCHANGED vars
    BY <1>2 DEF Offer
  <2>2. PICK e \in Event, d \in Payload \ Malformed :
          look' = [look EXCEPT ![p] =
                     [at |-> "ledger", event |-> e, offer |-> d, known |-> Known(e)]]
    BY <1>2 DEF Offer
  <2>3. [at |-> "ledger", event |-> e, offer |-> d, known |-> Known(e)] \in Lookup
    <3>1. Known(e) \in BOOLEAN
      BY DEF Known
    <3> QED
      BY <3>1 DEF Lookup, LookAt
  <2> QED
    BY <1>0, <2>1, <2>2, <2>3, TypeStep DEF AdmissionTypeOK
<1>3. ASSUME NEW p \in Proc, Steps(p) PROVE AdmissionTypeOK'
  <2>1. UNCHANGED vars
    BY <1>3 DEF Steps, LookInLedger, LookInFolder, CheckQueue, GiveUp
  <2> QED
    BY <1>0, <1>3, <2>1, StepsOnto, OntoType, TypeStep DEF AdmissionTypeOK
<1>4. ASSUME NEW p \in Proc, Admit(p) PROVE AdmissionTypeOK'
  <2>1. look' \in [Proc -> Lookup]
    BY <1>0, <1>4, OntoType DEF Admit, LookAt
  <2>2. look[p].event \in Event /\ look[p].offer \in Payload
    BY <1>0 DEF Lookup
  <2>3. TypeOK'
    BY <1>0, <1>4, <2>2 DEF Admit, TypeOK, LockTypeOK, lockVars, localVars, Folders
  <2> QED
    BY <2>1, <2>3 DEF AdmissionTypeOK
<1>5. CASE Elsewhere
  <2>1. \A p \in Proc : Remembered(p) \in Lookup
    <3>1. TAKE p \in Proc
    <3>2. look[p] \in Lookup
      BY <1>0
    <3>3. (look[p].known /\ \A e \in Event : e = look[p].event => Known(e)' /\ Forward(e))
            \in BOOLEAN
      BY <3>2 DEF Lookup
    <3> QED
      BY <3>2, <3>3 DEF Remembered, Lookup
  <2>2. look' \in [Proc -> Lookup]
    BY <1>0, <1>5, <2>1 DEF Elsewhere
  <2> QED
    BY <1>0, <1>5, <2>2, TypeStep DEF Elsewhere, AdmissionTypeOK
<1> QED
  BY <1>1, <1>2, <1>3, <1>4, <1>5 DEF AdmissionNext, Steps

\* A submission after a lookup leaves everything else as it was.
LEMMA AdmitIsQuiet ==
  ASSUME TypeOK, NEW p \in Proc, Admit(p), look[p] \in Lookup
  PROVE  /\ Quiet /\ UNCHANGED <<lockVars, localVars>>
         /\ \A f \in Folders, e \in Event : There(f, e) => There(f, e)'
<1>1. look[p].event \in Event /\ look[p].offer # None
  BY PayloadAssumption DEF Lookup
<1> QED
  BY <1>1 DEF Admit, Quiet, There, TypeOK, Folders

LEMMA TicksAdmit ==
  ASSUME TypeOK, MappingInv, TicksInv, Quiet, UNCHANGED <<lockVars, localVars>>
  PROVE  MappingInv' /\ TicksInv'
<1>1. UNCHANGED <<ledger, run, pc, job, todo, ev, body, seen, goal, lockFile, dead>>
  BY DEF Quiet, lockVars, localVars
<1>2. MappingInv'
  BY <1>1 DEF MappingInv, OneWriter, ReservationsHold, LedgerNamesEveryRun, Exists
<1>3. Alone' /\ NamesOwn' /\ (OnlyTicks' => OnlyTicks)
  BY <1>1 DEF TicksInv, Alone, Working, NamesOwn, OnlyTicks
<1>4. ASSUME OnlyTicks PROVE ReservationIsFindable' /\ SettledIsTrue'
  BY <1>1, <1>4 DEF TicksInv, Quiet, ReservationIsFindable, SettledIsTrue, There, Folders
<1>5. ASSUME OnlyTicks, NEW q \in Workers, Working(q)' PROVE Tidy(q)' /\ Knows(q)'
  <2>1. Fine(q)
    BY <1>1, <1>5 DEF TicksInv, Working, Fine
  <2>2. Local(q)' = Local(q)
    BY <1>1 DEF Local
  <2> QED
    BY <2>1, <2>2, FineWhenQuiet DEF Fine
<1> QED
  BY <1>2, <1>3, <1>4, <1>5 DEF TicksInv

\* While a tick is at its listing, nobody else touches what it has looked at.
LEMMA QuietAround ==
  ASSUME TypeOK, Alone, [Next]_vars, OnlyTicks', NEW p \in Workers,
         Working(p), pc[p] = "list_orphans", pc'[p] = pc[p]
  PROVE  Quiet /\ OnlyTicks
<1> USE DEF Quiet, inboxVars, vars
<1>1. CASE UNCHANGED vars
  BY <1>1 DEF localVars, OnlyTicks
<1>2. CASE OperatorRemovesLock
  BY <1>2 DEF OperatorRemovesLock, localVars, OnlyTicks
<1>3. ASSUME NEW q \in Proc, Acts(q) PROVE Quiet /\ OnlyTicks
  <2>1. OnlyTicks /\ q \notin Operators
    BY <1>3, OnlyTicksStays
  <2>2. CASE q \in Producers
    BY <1>3, <2>1, <2>2, ProducersAreQuiet
  <2>3. CASE q \in Workers /\ q # p
    <3>1. ~ Working(q)
      BY <2>3 DEF Alone
    <3> QED
      BY <1>3, <2>1, <2>3, <3>1, ActsAlive DEF Working
  <2>4. CASE q = p
    <3>1. p \in Proc
      BY PartiesAssumption
    <3>2. ListOrphans(p) \/ Raise(p) \/ Crash(p)
      BY <1>3, <2>4
      DEF Acts, Starts, Reconciles, Moves, Ingests, Ends, At, StartTick, StartCommand,
          Submit, TakeOrphan, CheckRunStatus, OrphansDone, SettleRead, SettleWrite, Place,
          Complete, Reject, PutBack, Promote, Claim, Read, DeferQueued, Reclaim, Defer,
          ListPending, TakeNext, CheckLedger, AskProviders, Reserve, WriteEntry,
          CreateRun, Execute, SetAside, ReleaseLock
    <3> QED
      BY <2>1, <3>1, <3>2 DEF ListOrphans, Raise, Crash
  <2> QED
    BY <2>1, <2>2, <2>3, <2>4, PartiesAssumption
<1> QED
  BY <1>1, <1>2, <1>3, NextActs

\* One lookup's part of LookInv.
Honest(p) ==
  /\ look[p].at \notin {"deferred", "expired"}
  /\ look[p].at \in {"submit", "place"} => ~ look[p].known
  /\ p \in Workers /\ Looking(p) => TickLooks(p)
  /\ Looking(p) /\ look[p].known => YetToFind(p)

\* A step of the lookup itself.
LEMMA HonestStep ==
  ASSUME AdmissionTypeOK, NEW p \in Proc, Honest(p), Steps(p)
  PROVE  Honest(p)'
<1>0. look \in [Proc -> Lookup] /\ look[p] \in Lookup
  BY DEF AdmissionTypeOK
<1>1. UNCHANGED vars /\ Looking(p)
  BY DEF Steps, LookInLedger, LookInFolder, CheckQueue, GiveUp
<1>2. UNCHANGED <<box, ledger, pc, dead>>
  BY <1>1 DEF vars, inboxVars, localVars, lockVars
<1>3. CASE look'[p].at = "over"
  BY <1>3 DEF Honest, Looking
<1>4. ASSUME NEW l \in LookAt \ {"over"}, Onto(p, l)
      PROVE  /\ look'[p].at = l
             /\ look'[p].event = look[p].event /\ look'[p].known = look[p].known
  <2>1. look'[p] = [look[p] EXCEPT !.at = l] /\ look'[p].at = l
    BY <1>0, <1>4, OntoType
  <2> QED
    BY <1>0, <2>1 DEF Lookup
<1>5. CASE LookInLedger(p)
  <2>1. CASE ledger[look[p].event] = Absent
    <3>1. Onto(p, "incoming") /\ look[p].at = "ledger"
      BY <1>5, <2>1, SearchedIs DEF LookInLedger
    <3>2. /\ look'[p].at = "incoming"
          /\ look'[p].event = look[p].event /\ look'[p].known = look[p].known
      BY <1>4, <3>1 DEF LookAt, Folders
    <3>3. p \in Workers => TickLooks(p)'
      BY <1>1, <1>2, <2>1, <3>2 DEF Honest, TickLooks
    <3>4. look[p].known => YetToFind(p)'
      BY <1>1, <1>2, <2>1, <3>1, <3>2 DEF Honest, YetToFind, Known, Somewhere, There
    <3> QED
      BY <3>2, <3>3, <3>4 DEF Honest
  <2>2. CASE ledger[look[p].event] # Absent
    <3>1. Onto(p, "over")
      BY <1>5, <2>2 DEF LookInLedger
    <3> QED
      BY <1>0, <1>3, <3>1, OntoType DEF LookAt
  <2> QED
    BY <2>1, <2>2
<1>6. CASE LookInFolder(p)
  <2>1. PICK i \in 1 .. 4 :
          /\ look[p].at = Searched[i]
          /\ Onto(p, IF There(Searched[i], look[p].event) THEN "over"
                     ELSE IF i = 4 THEN "submit" ELSE Searched[i + 1])
    BY <1>6, SearchedIs DEF LookInFolder
  <2>2. CASE There(Searched[i], look[p].event)
    BY <1>0, <1>3, <2>1, <2>2, OntoType DEF LookAt
  <2>3. CASE ~ There(Searched[i], look[p].event)
    <3> DEFINE l == IF i = 4 THEN "submit" ELSE Searched[i + 1]
    <3>1. Onto(p, l) /\ l \in {"processing", "processed", "failed", "submit"}
      BY <2>1, <2>3, SearchedIs
    <3>2. /\ look'[p].at = l
          /\ look'[p].event = look[p].event /\ look'[p].known = look[p].known
      BY <1>4, <3>1 DEF LookAt, Folders
    <3>3. \/ look[p].at = "incoming" /\ l = "processing"
          \/ look[p].at = "processing" /\ l = "processed"
          \/ look[p].at = "processed" /\ l = "failed"
          \/ look[p].at = "failed" /\ l = "submit"
      BY <2>1, SearchedIs
    <3>4. ~ There(look[p].at, look[p].event)
      BY <2>1, <2>3
    <3>5. p \in Workers => TickLooks(p)'
      BY <1>1, <1>2, <3>2, <3>3, <3>4 DEF Honest, TickLooks, There, OnlyTicks
    <3>6. look[p].known => YetToFind(p)' /\ l # "submit"
      BY <1>1, <1>2, <3>2, <3>3, <3>4 DEF Honest, YetToFind, Somewhere, There
    <3> QED
      BY <3>1, <3>2, <3>5, <3>6 DEF Honest
  <2> QED
    BY <2>2, <2>3
<1>7. CASE CheckQueue(p)
  <2>1. CASE There("incoming", look[p].event)
    BY <1>0, <1>3, <1>7, <2>1, OntoType DEF CheckQueue, LookAt
  <2>2. CASE ~ There("incoming", look[p].event)
    <3>1. Onto(p, "place") /\ look[p].at = "submit"
      BY <1>7, <2>2 DEF CheckQueue
    <3>2. /\ look'[p].at = "place"
          /\ look'[p].event = look[p].event /\ look'[p].known = look[p].known
      BY <1>4, <3>1 DEF LookAt
    <3>3. p \in Workers => TickLooks(p)'
      BY <1>1, <1>2, <3>1, <3>2 DEF Honest, TickLooks, There, OnlyTicks
    <3> QED
      BY <3>1, <3>2, <3>3 DEF Honest, YetToFind
  <2> QED
    BY <2>1, <2>2
<1>8. CASE GiveUp(p)
  BY <1>0, <1>3, <1>8, OntoType DEF GiveUp, LookAt
<1> QED
  BY <1>5, <1>6, <1>7, <1>8 DEF Steps

\* What an event in one of these folders may do without being forgotten.
LEMMA AheadIs ==
  ASSUME NEW e \in Event, Forward(e)
  PROVE  /\ There("incoming", e) => There("incoming", e)' \/ There("processing", e)'
         /\ There("processing", e) =>
              There("processing", e)' \/ There("processed", e)' \/ There("failed", e)'
         /\ There("processed", e) => There("processed", e)'
         /\ There("failed", e) => There("failed", e)'
<1>1. \A f \in Folders : There(f, e) /\ ~ There(f, e)' =>
        \E m \in Ahead : m[1] = f /\ There(m[2], e)'
  BY DEF Forward
<1>2. /\ \A m \in Ahead : m[1] = "incoming" => m[2] = "processing"
      /\ \A m \in Ahead : m[1] = "processing" => m[2] \in {"processed", "failed"}
      /\ \A m \in Ahead : m[1] \notin {"processed", "failed"}
  BY DEF Ahead
<1> QED
  BY <1>1, <1>2 DEF Folders

\* A step of anybody else.
LEMMA HonestElsewhere ==
  ASSUME AdmissionTypeOK, Alone, Elsewhere, NEW p \in Proc, Honest(p)
  PROVE  Honest(p)'
<1>0. look \in [Proc -> Lookup] /\ look[p] \in Lookup /\ TypeOK /\ Next
  BY DEF AdmissionTypeOK, Elsewhere
<1>1. CASE ~ Looking(p)
  <2>1. look'[p] = look[p]
    BY <1>0, <1>1 DEF Elsewhere
  <2>2. dead \subseteq dead'
    <3>1. CASE OperatorRemovesLock
      BY <3>1 DEF OperatorRemovesLock, HumanRemovesLock
    <3> QED
      BY <1>0, <3>1, NextActs, NeverIdle
  <2>3. ~ Looking(p)'
    BY <1>1, <2>1, <2>2 DEF Looking
  <2> QED
    BY <2>1, <2>3 DEF Honest
<1>2. CASE Looking(p)
  <2> DEFINE e == look[p].event
             kept == look[p].known /\ \A x \in Event : x = e => Known(x)' /\ Forward(x)
  <2>1. /\ look'[p].at = look[p].at /\ look'[p].event = e /\ e \in Event
        /\ look'[p].known = kept
    BY <1>0, <1>2 DEF Elsewhere, Remembered, Lookup
  <2>2. ASSUME p \in Workers PROVE TickLooks(p)'
    <3>1. pc[p] = "list_orphans" /\ Working(p) /\ pc'[p] = pc[p]
      BY <1>2, <2>2 DEF Honest, TickLooks, Working, Looking, Elsewhere
    <3>2. OnlyTicks' => Quiet /\ OnlyTicks
      BY <1>0, <2>2, <3>1, QuietAround
    <3>3. CASE OnlyTicks'
      <4>1. Quiet /\ OnlyTicks
        BY <3>2, <3>3
      <4>2. /\ ledger' = ledger
            /\ There("processing", e)' <=> There("processing", e)
            /\ There("processed", e)' <=> There("processed", e)
            /\ There("failed", e)' <=> There("failed", e)
        BY <2>1, <4>1 DEF Quiet, There, Folders
      <4> QED
        BY <1>2, <2>1, <2>2, <3>1, <4>1, <4>2 DEF Honest, TickLooks, There
    <3>4. CASE ~ OnlyTicks'
      BY <3>1, <3>4 DEF TickLooks
    <3> QED
      BY <3>3, <3>4
  <2>3. ASSUME kept PROVE YetToFind(p)'
    <3>1. Known(e)' /\ Forward(e) /\ YetToFind(p)
      BY <1>2, <2>1, <2>3 DEF Honest
    <3>2. /\ There("incoming", e) => There("incoming", e)' \/ There("processing", e)'
          /\ There("processing", e) =>
               There("processing", e)' \/ There("processed", e)' \/ There("failed", e)'
          /\ There("processed", e) => There("processed", e)'
          /\ There("failed", e) => There("failed", e)'
      BY <2>1, <3>1, AheadIs
    <3>3. \A F : Somewhere(e, F)' <=> \E f \in F : There(f, e)'
      BY DEF Somewhere
    <3>4. /\ look[p].at = "incoming" =>
               Somewhere(e, {"incoming", "processing", "processed", "failed"})'
          /\ look[p].at = "processing" =>
               Somewhere(e, {"processing", "processed", "failed"})'
          /\ look[p].at = "processed" => Somewhere(e, {"processed", "failed"})'
          /\ look[p].at = "failed" => Somewhere(e, {"failed"})'
      BY <3>1, <3>2, <3>3 DEF YetToFind, Somewhere
    <3> QED
      BY <2>1, <3>1, <3>4 DEF YetToFind
  <2> QED
    BY <2>1, <2>2, <2>3 DEF Honest
<1> QED
  BY <1>1, <1>2

LEMMA LookInit == AdmissionInit => LookInv
<1>1. Blank("none").at = "none"
  BY DEF Blank
<1> QED
  BY <1>1 DEF AdmissionInit, LookInv, Looking

LEMMA LookStep ==
  AdmissionTypeOK /\ Alone /\ LookInv /\ [AdmissionNext]_admissionVars => LookInv'
<1> SUFFICES ASSUME AdmissionTypeOK, Alone, LookInv, [AdmissionNext]_admissionVars,
                    NEW q \in Proc
             PROVE  Honest(q)'
  BY DEF LookInv, Honest
<1>0. Honest(q) /\ look \in [Proc -> Lookup]
  BY DEF LookInv, Honest, AdmissionTypeOK
<1>1. ASSUME look'[q] = look[q], UNCHANGED vars PROVE Honest(q)'
  BY <1>0, <1>1
  DEF Honest, Looking, TickLooks, YetToFind, Somewhere, There, Known, OnlyTicks, vars,
      inboxVars, localVars, lockVars
<1>2. ASSUME NEW p \in Proc, Offer(p) PROVE Honest(q)'
  <2>1. CASE q # p
    BY <1>0, <1>1, <1>2, <2>1 DEF Offer
  <2>2. CASE q = p
    <3>1. PICK e \in Event, d \in Payload \ Malformed :
            look' = [look EXCEPT ![p] =
                       [at |-> "ledger", event |-> e, offer |-> d, known |-> Known(e)]]
      BY <1>2 DEF Offer
    <3>2. /\ look'[p].at = "ledger" /\ look'[p].event = e
          /\ look'[p].known = Known(e)
      BY <1>0, <3>1
    <3>3. UNCHANGED <<box, ledger, pc>>
      BY <1>2 DEF Offer, vars, inboxVars, localVars
    <3>4. p \in Workers => pc[p] = "list_orphans"
      BY <1>2, PartiesAssumption DEF Offer, At
    <3>5. Known(e)' <=> Known(e)
      BY <3>3 DEF Known, There
    <3> QED
      BY <2>2, <3>2, <3>3, <3>4, <3>5 DEF Honest, TickLooks, YetToFind, Known, There
  <2> QED
    BY <2>1, <2>2
<1>3. ASSUME NEW p \in Proc, Steps(p) PROVE Honest(q)'
  <2>1. CASE q = p
    BY <1>0, <1>3, <2>1, HonestStep
  <2>2. CASE q # p
    BY <1>0, <1>1, <1>3, <2>2, StepsOnto, OntoType
    DEF Steps, LookInLedger, LookInFolder, CheckQueue, GiveUp
  <2> QED
    BY <2>1, <2>2
<1>4. ASSUME NEW p \in Proc, Admit(p) PROVE Honest(q)'
  <2>1. Onto(p, "over")
    BY <1>4 DEF Admit
  <2>2. CASE q = p
    <3>1. look'[p].at = "over"
      BY <1>0, <2>1, OntoType DEF LookAt
    <3> QED
      BY <2>2, <3>1 DEF Honest, Looking
  <2>3. CASE q # p
    <3>1. look'[q] = look[q] /\ look[q].event \in Event
      BY <1>0, <2>1, <2>3, OntoType DEF LookAt, Lookup
    <3>2. /\ Quiet /\ UNCHANGED <<lockVars, localVars>>
          /\ \A f \in Folders, e \in Event : There(f, e) => There(f, e)'
      BY <1>0, <1>4, AdmitIsQuiet DEF AdmissionTypeOK
    <3>3. \A f \in Folders \ {"incoming"}, e \in Event : There(f, e)' <=> There(f, e)
      BY <3>2 DEF Quiet, There
    <3>4. UNCHANGED <<pc, dead, ledger>>
      BY <3>2 DEF Quiet, lockVars, localVars
    <3>5. Looking(q)' <=> Looking(q)
      BY <3>1, <3>4 DEF Looking
    <3>6. TickLooks(q) => TickLooks(q)'
      BY <3>1, <3>3, <3>4 DEF TickLooks, OnlyTicks, Folders, There
    <3>7. YetToFind(q) => YetToFind(q)'
      BY <3>1, <3>2, <3>4 DEF YetToFind, Somewhere, Known, Folders, There
    <3> QED
      BY <1>0, <3>1, <3>5, <3>6, <3>7 DEF Honest
  <2> QED
    BY <2>2, <2>3
<1>5. CASE Elsewhere
  BY <1>0, <1>5, HonestElsewhere
<1>6. CASE UNCHANGED admissionVars
  BY <1>1, <1>6 DEF admissionVars
<1> QED
  BY <1>2, <1>3, <1>4, <1>5, <1>6 DEF AdmissionNext, Steps

-----------------------------------------------------------------------------
(* The theorems about lookups *)

AdmissionInv == AdmissionTypeOK /\ MappingInv /\ TicksInv /\ LookInv

LEMMA AdmissionStep ==
  AdmissionInv /\ [AdmissionNext]_admissionVars => AdmissionInv'
<1> SUFFICES ASSUME AdmissionInv, [AdmissionNext]_admissionVars PROVE AdmissionInv'
  OBVIOUS
<1>1. AdmissionTypeOK' /\ LookInv'
  BY AdmissionTypeStep, LookStep DEF AdmissionInv, TicksInv
<1>2. TypeOK /\ MappingInv /\ TicksInv
  BY DEF AdmissionInv, AdmissionTypeOK
<1>3. CASE [Next]_vars
  BY <1>1, <1>2, <1>3, MappingStep, TicksStep DEF AdmissionInv
<1>4. ASSUME NEW p \in Proc, Admit(p) PROVE MappingInv' /\ TicksInv'
  <2>1. look[p] \in Lookup
    BY DEF AdmissionInv, AdmissionTypeOK
  <2> QED
    BY <1>2, <1>4, <2>1, AdmitIsQuiet, TicksAdmit
<1>5. [Next]_vars \/ \E p \in Proc : Admit(p)
  BY DEF AdmissionNext, admissionVars, Offer, LookInLedger, LookInFolder, CheckQueue,
     GiveUp, Elsewhere
<1> QED
  BY <1>1, <1>3, <1>4, <1>5 DEF AdmissionInv

\* The types, the mapping of events to Runs, what a tick leaves behind and what a
\* lookup knows, whoever looks before submitting and whoever does not.
THEOREM AdmissionCorrect == AdmissionSpec => []AdmissionInv
<1>1. AdmissionInit => AdmissionInv
  BY AdmissionTypeInit, MappingInit, TicksInit, LookInit DEF AdmissionInit, AdmissionInv
<1> QED
  BY <1>1, AdmissionStep, PTL DEF AdmissionSpec

\* Where producers look before they submit, an event still becomes at most one
\* Run, and what killed ticks left is still recovered.
THEOREM LookingChangesNothing == AdmissionSpec => [](OneRunPerEvent /\ TicksRecover)
<1>1. AdmissionInv => OneRunPerEvent /\ TicksRecover
  <2>1. MappingInv => OneRunPerEvent
    BY DEF MappingInv, LedgerNamesEveryRun, OneRunPerEvent
  <2> QED
    BY <2>1, TicksEnough DEF AdmissionInv
<1> QED
  BY AdmissionCorrect, <1>1, PTL

\* A lookup folder by folder misses no event that moves ahead meanwhile, and a
\* tick admits nothing that is, or was, being worked on (services/admission.py).
THEOREM NoEventIsMissed == AdmissionSpec => []LookupMissesNothing
<1>1. AdmissionInv => LookupMissesNothing
  <2> SUFFICES ASSUME AdmissionInv PROVE LookupMissesNothing
    OBVIOUS
  <2>1. \A p \in Proc : Honest(p)
    BY DEF AdmissionInv, LookInv, Honest
  <2>2. ASSUME OnlyTicks, NEW p \in Workers, p \notin dead,
               look[p].at \in {"submit", "place"}
        PROVE  /\ ledger[look[p].event] = Absent
               /\ \A f \in {"processing", "processed", "failed"} :
                    ~ There(f, look[p].event)
    <3>1. TickLooks(p)
      BY <2>1, <2>2, PartiesAssumption DEF Honest, Looking
    <3> QED
      BY <2>2, <3>1 DEF TickLooks
  <2> QED
    BY <2>1, <2>2 DEF LookupMissesNothing, Honest
<1> QED
  BY AdmissionCorrect, <1>1, PTL
=============================================================================

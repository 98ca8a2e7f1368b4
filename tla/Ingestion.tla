------------------------------ MODULE Ingestion ------------------------------
(***************************************************************************)
(* From an analysis event in the inbox to a Run: services/inbox.py (the     *)
(* folders and the ledger), services/ingestion.py (ingest and reconcile),   *)
(* services/pipeline.py (create_run) and the part of an automation tick     *)
(* around them.  Ticks take the worker lock; the operator's commands        *)
(* (inbox-submit, pipeline-ingest, inbox-process-one, inbox-reconcile       *)
(* --recover) and a producing bot take none.                                *)
(*                                                                         *)
(* A process is one invocation.  Each step is one access to the disk, the   *)
(* market or the preferences; any step may raise or be the last.            *)
(***************************************************************************)
EXTENDS RunLock

CONSTANTS
  Workers,         \* automation ticks
  Operators,       \* commands an operator gives
  Producers,       \* submissions by whoever produces analyses
  Event,           \* event ids
  Payload,         \* contents of an event file; a content is its own digest
  Malformed,       \* contents that do not parse as an analysis event
  None,            \* no file, no Run
  RenameReplaces   \* whether os.rename overwrites its target (POSIX) or
                   \* fails (Windows, where this runs)

ASSUME PartiesAssumption ==
  /\ Proc = Workers \cup Operators \cup Producers
  /\ Workers \cap (Operators \cup Producers) = {}
  /\ Operators \cap Producers = {}
ASSUME EventAssumption == Event # {}
ASSUME PayloadAssumption ==
  /\ Payload # {}
  /\ Malformed \subseteq Payload
  /\ None \notin Payload
ASSUME RenameAssumption == RenameReplaces \in BOOLEAN

VARIABLES
  box,     \* box[folder][event]: the content of <event>.json there, or None
  ledger,  \* index/<event>.json
  run,     \* the Runs on disk, by run id
  pc,      \* where each invocation stands
  job,     \* whether it is reconciling or ingesting
  todo,    \* the listing it is working through
  ev,      \* the event at hand
  body,    \* its content, as read or as submitted
  seen,    \* the ledger entry it read last
  goal     \* the state it will settle the ledger to

inboxVars == <<box, ledger, run>>
localVars == <<pc, job, todo, ev, body, seen, goal>>
vars == <<lockVars, inboxVars, localVars>>

Folders ==
  {"incoming", "processing", "processed", "failed", "deferred", "expired"}

\* generate_run_id gives a fresh id: a process handles an event at most once.
RunId == Proc \X Event

Recorded == {"RESERVED", "INGESTED", "ABANDONED"}
Unwritten ==
  [state : {"ABSENT", "TORN"}, run : {None}, payload : {None}]
Entry == [state : Recorded, run : RunId, payload : Payload] \cup Unwritten
Absent == [state |-> "ABSENT", run |-> None, payload |-> None]
\* Created with O_EXCL, not yet written: exists, and cannot be parsed.
Torn == [state |-> "TORN", run |-> None, payload |-> None]

NoRun == [status |-> "NONE", payload |-> None]
Run == [status : {"CREATED", "NORMALIZED", "FAILED"}, payload : Payload]

PcValues ==
  {"idle", "place", "list_orphans", "orphan", "run_status", "settle_read",
   "settle_write", "complete", "reject", "put_back", "promote", "list", "next",
   "claim", "read", "ledger", "providers", "reserve", "write_entry", "create",
   "execute", "set_aside", "reclaim", "defer_queued", "defer", "release",
   "done"}

TypeOK ==
  /\ LockTypeOK
  /\ box \in [Folders -> [Event -> Payload \cup {None}]]
  /\ ledger \in [Event -> Entry]
  /\ run \in [RunId -> Run \cup {NoRun}]
  /\ pc \in [Proc -> PcValues]
  /\ job \in [Proc -> {"reconcile", "ingest"}]
  /\ todo \in [Proc -> SUBSET Event]
  /\ ev \in [Proc -> Event]
  /\ body \in [Proc -> Payload]
  /\ seen \in [Proc -> Entry]
  /\ goal \in [Proc -> {"INGESTED", "ABANDONED"}]
  /\ \A p \in Proc :
       /\ pc[p] \in {"run_status", "settle_write"} => seen[p].state \in Recorded
       /\ pc[p] = "execute" => run[<<p, ev[p]>>] \in Run

Init ==
  /\ LockInit
  /\ box = [f \in Folders |-> [e \in Event |-> None]]
  /\ ledger = [e \in Event |-> Absent]
  /\ run = [r \in RunId |-> NoRun]
  /\ pc = [p \in Proc |-> "idle"]
  /\ job = [p \in Proc |-> "ingest"]
  /\ todo = [p \in Proc |-> {}]
  /\ ev = [p \in Proc |-> CHOOSE e \in Event : TRUE]
  /\ body = [p \in Proc |-> CHOOSE d \in Payload : TRUE]
  /\ seen = [p \in Proc |-> Absent]
  /\ goal = [p \in Proc |-> "INGESTED"]

At(p, l) == p \notin dead /\ pc[p] = l
Goto(p, l) == pc' = [pc EXCEPT ![p] = l]

There(f, e) == box[f][e] # None
Waiting(f) == {e \in Event : There(f, e)}

\* _move: os.replace, which overwrites a file of the same name.
Moved(from, to, e) ==
  [box EXCEPT ![from][e] = None, ![to][e] = box[from][e]]

\* Where an invocation goes when something raises: a tick releases its lock.
Leave(p) == IF p \in Workers THEN "release" ELSE "done"

\* A move of p's event that raises FileNotFoundError when somebody took it.
Move(p, from, to, next) ==
  IF There(from, ev[p])
    THEN box' = Moved(from, to, ev[p]) /\ Goto(p, next)
    ELSE UNCHANGED box /\ Goto(p, Leave(p))

\* Where it goes when it is done with one event.
AfterEvent(p) ==
  IF job[p] = "reconcile" THEN "orphan"
  ELSE IF p \in Workers THEN "next" ELSE "done"

-----------------------------------------------------------------------------
(* Invocations start *)

\* run_tick: take the worker lock, or SKIPPED.
StartTick(p) ==
  /\ p \in Workers
  /\ At(p, "idle")
  /\ \/ Acquire(p) /\ Goto(p, "list_orphans")
     \/ Refuse(p) /\ Goto(p, "done")
  /\ UNCHANGED <<inboxVars, job, todo, ev, body, seen, goal>>

\* inbox-process-one and inbox-reconcile --recover.
StartCommand(p) ==
  /\ p \in Operators
  /\ At(p, "idle")
  /\ \E l \in {"list", "list_orphans"} : Goto(p, l)
  /\ UNCHANGED <<lockVars, inboxVars, job, todo, ev, body, seen, goal>>

\* Inbox.submit: refused when an event of that id is already waiting.  The
\* commands parse the event first.
Submit(p) ==
  /\ p \in Operators \cup Producers
  /\ At(p, "idle")
  /\ \E e \in Event, d \in Payload :
       /\ d \in Malformed => p \in Producers
       /\ ev' = [ev EXCEPT ![p] = e]
       /\ body' = [body EXCEPT ![p] = d]
       /\ Goto(p, IF There("incoming", e) THEN "done" ELSE "place")
  /\ UNCHANGED <<lockVars, inboxVars, job, todo, seen, goal>>

\* The rename into place.  pipeline-ingest goes on to claim what it submitted.
Place(p) ==
  /\ At(p, "place")
  /\ box' = [box EXCEPT !["incoming"][ev[p]] = body[p]]
  /\ \/ Goto(p, "done")
     \/ p \in Operators /\ Goto(p, "claim")
  /\ UNCHANGED <<lockVars, ledger, run, job, todo, ev, body, seen, goal>>

ReleaseLock(p) ==
  /\ At(p, "release")
  /\ Release(p)
  /\ Goto(p, "done")
  /\ UNCHANGED <<inboxVars, job, todo, ev, body, seen, goal>>

-----------------------------------------------------------------------------
(* reconcile(recover=True) *)

ListOrphans(p) ==
  /\ At(p, "list_orphans")
  /\ job' = [job EXCEPT ![p] = "reconcile"]
  /\ todo' = [todo EXCEPT ![p] = Waiting("processing")]
  /\ Goto(p, "orphan")
  /\ UNCHANGED <<lockVars, inboxVars, ev, body, seen, goal>>

\* A plausible bug: an event whose Run was never settled is simply retried.
AfterOrphanRetried(p, entry) ==
  CASE entry.state = "TORN"                  -> Leave(p)
    [] entry.state \in {"ABSENT", "RESERVED"} -> "put_back"
    [] OTHER                                 -> "run_status"

\* Nothing reserved: back to incoming.  An unreadable entry raises.
AfterOrphan(p, entry) ==
  CASE entry.state = "TORN"   -> Leave(p)
    [] entry.state = "ABSENT" -> "put_back"
    [] OTHER                  -> "run_status"

TakeOrphan(p) ==
  /\ At(p, "orphan")
  /\ \E e \in todo[p] :
       /\ todo' = [todo EXCEPT ![p] = @ \ {e}]
       /\ ev' = [ev EXCEPT ![p] = e]
       /\ seen' = [seen EXCEPT ![p] = ledger[e]]
       /\ Goto(p, AfterOrphan(p, ledger[e]))
  /\ UNCHANGED <<lockVars, inboxVars, job, body, goal>>

\* A plausible bug: a Run that failed still counts as made.
RunWasMadeEvenFailed(r) == run[r] # NoRun

\* _run_status, then "not None and not FAILED".
RunWasMade(r) == run[r] # NoRun /\ run[r].status # "FAILED"

CheckRunStatus(p) ==
  /\ At(p, "run_status")
  /\ LET made == RunWasMade(seen[p].run)
     IN  /\ goal' = [goal EXCEPT ![p] =
                       IF made THEN "INGESTED" ELSE "ABANDONED"]
         /\ Goto(p, IF seen[p].state = "RESERVED" THEN "settle_read"
                    ELSE IF made THEN "complete"
                    ELSE "reject")
  /\ UNCHANGED <<lockVars, inboxVars, job, todo, ev, body, seen>>

\* A plausible bug: recovery stops after the first orphan it repairs.
OrphansDoneEarly(p) ==
  /\ At(p, "orphan")
  /\ Goto(p, IF p \in Workers THEN "promote" ELSE "done")
  /\ UNCHANGED <<lockVars, inboxVars, job, todo, ev, body, seen, goal>>

OrphansDone(p) ==
  /\ At(p, "orphan")
  /\ todo[p] = {}
  /\ Goto(p, IF p \in Workers THEN "promote" ELSE "done")
  /\ UNCHANGED <<lockVars, inboxVars, job, todo, ev, body, seen, goal>>

-----------------------------------------------------------------------------
(* Ledger.settle and the moves that end an event *)

SettleRead(p) ==
  /\ At(p, "settle_read")
  /\ seen' = [seen EXCEPT ![p] = ledger[ev[p]]]
  /\ Goto(p, IF ledger[ev[p]].state \in Recorded THEN "settle_write" ELSE Leave(p))
  /\ UNCHANGED <<lockVars, inboxVars, job, todo, ev, body, goal>>

\* A plausible bug: the settled entry names the settling process's Run.
SettledOwnRun(p) ==
  [seen[p] EXCEPT !.state = goal[p], !.run = <<p, ev[p]>>]

\* Only the state changes; the mapping is rewritten as it was read.
Settled(p) == [seen[p] EXCEPT !.state = goal[p]]

SettleWrite(p) ==
  /\ At(p, "settle_write")
  /\ ledger' = [ledger EXCEPT ![ev[p]] = Settled(p)]
  /\ Goto(p, IF goal[p] = "INGESTED" THEN "complete" ELSE "reject")
  /\ UNCHANGED <<lockVars, box, run, job, todo, ev, body, seen, goal>>

Complete(p) ==
  /\ At(p, "complete")
  /\ Move(p, "processing", "processed", AfterEvent(p))
  /\ UNCHANGED <<lockVars, ledger, run, job, todo, ev, body, seen, goal>>

Reject(p) ==
  /\ At(p, "reject")
  /\ Move(p, "processing", "failed", AfterEvent(p))
  /\ UNCHANGED <<lockVars, ledger, run, job, todo, ev, body, seen, goal>>

\* Inbox.release; a tick then sets the event aside.
PutBack(p) ==
  /\ At(p, "put_back")
  /\ Move(p, "processing", "incoming",
          IF job[p] = "ingest" /\ p \in Workers THEN "set_aside"
          ELSE AfterEvent(p))
  /\ UNCHANGED <<lockVars, ledger, run, job, todo, ev, body, seen, goal>>

-----------------------------------------------------------------------------
(* Finding an event *)

\* _promote_deferred: every event whose wait is over returns to the queue.
Promote(p) ==
  /\ At(p, "promote")
  /\ \/ /\ \E e \in Waiting("deferred") : box' = Moved("deferred", "incoming", e)
        /\ UNCHANGED pc
     \/ UNCHANGED box /\ Goto(p, "list")
  /\ UNCHANGED <<lockVars, ledger, run, job, todo, ev, body, seen, goal>>

\* Inbox.pending.
ListPending(p) ==
  /\ At(p, "list")
  /\ job' = [job EXCEPT ![p] = "ingest"]
  /\ todo' = [todo EXCEPT ![p] = Waiting("incoming")]
  /\ Goto(p, "next")
  /\ UNCHANGED <<lockVars, inboxVars, ev, body, seen, goal>>

\* The next candidate, or the end of the listing, the event cap or the time.
TakeNext(p) ==
  /\ At(p, "next")
  /\ \/ \E e \in todo[p] :
          /\ todo' = [todo EXCEPT ![p] = @ \ {e}]
          /\ ev' = [ev EXCEPT ![p] = e]
          /\ Goto(p, "claim")
     \/ /\ todo[p] = {} \/ p \in Workers
        /\ Goto(p, Leave(p))
        /\ UNCHANGED <<todo, ev>>
  /\ UNCHANGED <<lockVars, inboxVars, job, body, seen, goal>>

Claimable(e) == There("incoming", e) /\ (There("processing", e) => RenameReplaces)

\* Inbox.claim: a rename, or None when somebody else has it.
Claim(p) ==
  /\ At(p, "claim")
  /\ IF Claimable(ev[p])
       THEN box' = Moved("incoming", "processing", ev[p]) /\ Goto(p, "read")
       ELSE UNCHANGED box /\ Goto(p, "next")
  /\ UNCHANGED <<lockVars, ledger, run, job, todo, ev, body, seen, goal>>

-----------------------------------------------------------------------------
(* ingest_claimed *)

\* The exact bytes are read once.  A tick may find the analysis too old, and
\* retires it before anything else; what cannot be read or parsed is rejected.
Read(p) ==
  /\ At(p, "read")
  /\ LET d == box["processing"][ev[p]] IN
       \/ /\ d \in Malformed \cup {None}
          /\ Goto(p, "reject")
          /\ UNCHANGED <<box, body>>
       \/ /\ d \in Payload \ Malformed
          /\ body' = [body EXCEPT ![p] = d]
          /\ Goto(p, "ledger")
          /\ UNCHANGED box
       \/ /\ d \in Payload \ Malformed
          /\ p \in Workers
          /\ box' = Moved("processing", "expired", ev[p])
          /\ Goto(p, "next")
          /\ UNCHANGED body
  /\ UNCHANGED <<lockVars, ledger, run, job, todo, ev, seen, goal>>

\* _check_ledger: never seen; reused for other content; unfinished; a replay.
AfterLedger(entry, d) ==
  IF entry.state = "ABSENT" THEN "providers"
  ELSE IF entry.payload # d THEN "reject"
  ELSE IF entry.state = "RESERVED" THEN "reject"
  ELSE "complete"

CheckLedger(p) ==
  /\ At(p, "ledger")
  /\ Goto(p, IF ledger[ev[p]].state = "TORN" THEN Leave(p)
             ELSE AfterLedger(ledger[ev[p]], body[p]))
  /\ UNCHANGED <<lockVars, inboxVars, job, todo, ev, body, seen, goal>>

\* The preferences and the market are asked before anything durable is written.
AskProviders(p) ==
  /\ At(p, "providers")
  /\ \E l \in {"reserve", "put_back"} : Goto(p, l)
  /\ UNCHANGED <<lockVars, inboxVars, job, todo, ev, body, seen, goal>>

\* A plausible bug: the reservation is written over whatever is there.
ReservableAlways(e) == TRUE

\* O_CREAT | O_EXCL.
Reservable(e) == ledger[e] = Absent

Reserve(p) ==
  /\ At(p, "reserve")
  /\ IF Reservable(ev[p])
       THEN ledger' = [ledger EXCEPT ![ev[p]] = Torn] /\ Goto(p, "write_entry")
       ELSE UNCHANGED ledger /\ Goto(p, Leave(p))
  /\ UNCHANGED <<lockVars, box, run, job, todo, ev, body, seen, goal>>

\* A plausible bug: the entry is left for settle to write.
WriteEntryForgotten(p) ==
  /\ At(p, "write_entry")
  /\ Goto(p, "create")
  /\ UNCHANGED <<lockVars, inboxVars, job, todo, ev, body, seen, goal>>

WriteEntry(p) ==
  /\ At(p, "write_entry")
  /\ ledger' = [ledger EXCEPT ![ev[p]] =
                  [state |-> "RESERVED", run |-> <<p, ev[p]>>,
                   payload |-> body[p]]]
  /\ Goto(p, "create")
  /\ UNCHANGED <<lockVars, box, run, job, todo, ev, body, seen, goal>>

\* create_run: the directory and the first manifest.  (A directory without a
\* manifest reads as no Run at all.)
CreateRun(p) ==
  /\ At(p, "create")
  /\ run' = [run EXCEPT ![<<p, ev[p]>>] =
               [status |-> "CREATED", payload |-> body[p]]]
  /\ Goto(p, "execute")
  /\ UNCHANGED <<lockVars, box, ledger, job, todo, ev, body, seen, goal>>

\* ... and its end: NORMALIZED, or FAILED on a PipelineError.
Execute(p) ==
  /\ At(p, "execute")
  /\ \E s \in {"NORMALIZED", "FAILED"} :
       /\ run' = [run EXCEPT ![<<p, ev[p]>>].status = s]
       /\ goal' = [goal EXCEPT ![p] =
                     IF s = "NORMALIZED" THEN "INGESTED" ELSE "ABANDONED"]
  /\ Goto(p, "settle_read")
  /\ UNCHANGED <<lockVars, box, ledger, job, todo, ev, body, seen>>

-----------------------------------------------------------------------------
(* A tick sets aside an event whose providers were not available *)

\* Damaged preferences defer it from incoming; a closed market claims it again
\* first; a misconfigured one leaves it where it is.
SetAside(p) ==
  /\ At(p, "set_aside")
  /\ \/ Goto(p, "next")
     \/ /\ There("incoming", ev[p])
        /\ \E l \in {"reclaim", "defer_queued"} : Goto(p, l)
  /\ UNCHANGED <<lockVars, inboxVars, job, todo, ev, body, seen, goal>>

DeferQueued(p) ==
  /\ At(p, "defer_queued")
  /\ Move(p, "incoming", "deferred", "next")
  /\ UNCHANGED <<lockVars, ledger, run, job, todo, ev, body, seen, goal>>

Reclaim(p) ==
  /\ At(p, "reclaim")
  /\ IF Claimable(ev[p])
       THEN box' = Moved("incoming", "processing", ev[p]) /\ Goto(p, "defer")
       ELSE UNCHANGED box /\ Goto(p, "next")
  /\ UNCHANGED <<lockVars, ledger, run, job, todo, ev, body, seen, goal>>

Defer(p) ==
  /\ At(p, "defer")
  /\ Move(p, "processing", "deferred", "next")
  /\ UNCHANGED <<lockVars, ledger, run, job, todo, ev, body, seen, goal>>

-----------------------------------------------------------------------------
(* Faults and people *)

\* Any step may raise (an OSError, an unexpected provider error).
Raise(p) ==
  /\ p \notin dead
  /\ pc[p] \notin {"idle", "release", "done"}
  /\ Goto(p, Leave(p))
  /\ UNCHANGED <<lockVars, inboxVars, job, todo, ev, body, seen, goal>>

Crash(p) ==
  /\ pc[p] \notin {"idle", "done"}
  /\ Kill(p)
  /\ UNCHANGED <<inboxVars, localVars>>

OperatorRemovesLock ==
  /\ HumanRemovesLock
  /\ UNCHANGED <<inboxVars, localVars>>

Next ==
  \/ \E p \in Proc :
       \/ StartTick(p) \/ StartCommand(p) \/ Submit(p) \/ Place(p)
       \/ ReleaseLock(p)
       \/ ListOrphans(p) \/ TakeOrphan(p) \/ CheckRunStatus(p) \/ OrphansDone(p)
       \/ SettleRead(p) \/ SettleWrite(p) \/ Complete(p) \/ Reject(p)
       \/ PutBack(p)
       \/ Promote(p) \/ ListPending(p) \/ TakeNext(p) \/ Claim(p)
       \/ Read(p) \/ CheckLedger(p) \/ AskProviders(p)
       \/ Reserve(p) \/ WriteEntry(p) \/ CreateRun(p) \/ Execute(p)
       \/ SetAside(p) \/ DeferQueued(p) \/ Reclaim(p) \/ Defer(p)
       \/ Raise(p) \/ Crash(p)
  \/ OperatorRemovesLock

Spec == Init /\ [][Next]_vars

-----------------------------------------------------------------------------
(* What ingestion promises, whoever runs it *)

Exists(r) == run[r] # NoRun

\* One analysis becomes one Run ("turning an inbox event into a Run, exactly
\* once"), with any mixture of ticks, commands, kills, resubmissions and
\* recoveries.
OneRunPerEvent ==
  \A r, s \in RunId : Exists(r) /\ Exists(s) /\ r[2] = s[2] => r = s

\* Every Run on disk is named, with the bytes it was made from, by the ledger:
\* the reservation is durable before the Run is.
LedgerNamesEveryRun ==
  \A r \in RunId : Exists(r) =>
    /\ ledger[r[2]].state \in Recorded
    /\ ledger[r[2]].run = r
    /\ ledger[r[2]].payload = run[r].payload

\* An entry, once written, keeps its event, Run and digest and never becomes a
\* reservation again ("write-once").
MappingNeverRewritten ==
  [][\A e \in Event : ledger[e].state \in Recorded =>
       /\ ledger'[e].run = ledger[e].run
       /\ ledger'[e].payload = ledger[e].payload
       /\ ledger'[e].state \in Recorded
       /\ ledger'[e].state = "RESERVED" => ledger[e].state = "RESERVED"]_vars

-----------------------------------------------------------------------------
(* Why: what makes the mapping one to one *)

\* Only the process whose O_EXCL succeeded is writing an entry.
OneWriter ==
  /\ \A p \in Proc : pc[p] = "write_entry" => ledger[ev[p]] = Torn
  /\ \A p, q \in Proc :
       pc[p] = "write_entry" /\ pc[q] = "write_entry" /\ ev[p] = ev[q] => p = q

\* A process about to make a Run holds the reservation that names it, and one
\* about to settle an entry has its identity right, however old its reading.
ReservationsHold ==
  \A p \in Proc :
    /\ pc[p] = "create" =>
         /\ ledger[ev[p]].state \in Recorded
         /\ ledger[ev[p]].run = <<p, ev[p]>>
         /\ ledger[ev[p]].payload = body[p]
    /\ pc[p] = "settle_write" =>
         /\ ledger[ev[p]].state \in Recorded
         /\ ledger[ev[p]].run = seen[p].run
         /\ ledger[ev[p]].payload = seen[p].payload

MappingInv == OneWriter /\ ReservationsHold /\ LedgerNamesEveryRun

-----------------------------------------------------------------------------
(* What holds when only ticks ingest and reconcile *)

\* Only ticks ingest and reconcile so far.
OnlyTicks == \A o \in Operators : pc[o] = "idle"

\* What a settled entry says of its Run is so: abandoned means no usable Run.
SettledIsTrue ==
  \A e \in Event :
    LET status == run[ledger[e].run].status IN
    /\ ledger[e].state = "INGESTED"  => status \in {"CREATED", "NORMALIZED"}
    /\ ledger[e].state = "ABANDONED" => status \in {"NONE", "FAILED"}

\* An unfinished reservation has its event in processing, where reconcile looks:
\* no sequence of kills, resubmissions and put-backs hides it.
ReservationIsFindable ==
  \A e \in Event :
    ledger[e].state \in {"TORN", "RESERVED"} => There("processing", e)

\* A tick that got past reconcile leaves no earlier reservation unresolved.
ReconcileResolvesAll ==
  \A p \in Workers, e \in Event :
    /\ p \notin dead
    /\ pc[p] \in {"promote", "list", "next", "claim", "read", "ledger",
                  "providers", "reserve", "set_aside", "reclaim", "defer_queued",
                  "defer"}
    => ledger[e].state \notin {"TORN", "RESERVED"}

\* Whatever a killed tick left is recovered to what is so: no kill, resubmission
\* or put-back takes an unfinished reservation's event out of processing/, where
\* reconcile looks; a tick past its reconcile leaves no earlier reservation
\* unresolved; and what a settled entry says of its Run is so (Ledger.reserve,
\* reconcile, Ledger.settle).
TicksRecover ==
  OnlyTicks => ReservationIsFindable /\ ReconcileResolvesAll /\ SettledIsTrue

\* What the docs say an INGESTED entry means (README: "Reserved Run exists and
\* normalized").
IngestedIsNormalized ==
  \A e \in Event :
    ledger[e].state = "INGESTED" => run[ledger[e].run].status = "NORMALIZED"
=============================================================================

----------------------------- MODULE Automation -----------------------------
(***************************************************************************)
(* What one automation tick does with many Runs and events, and when it     *)
(* comes back to them: services/automation.py, services/automation_state.py *)
(* and the retry record of schemas/automation.py.                           *)
(*                                                                         *)
(* Ticks follow one another under the worker lock.  An invocation of a Run  *)
(* and an ingestion are one step each (RunPipeline and Ingestion look       *)
(* inside), between which people submit analyses, drive Runs by hand and    *)
(* change the settings.  A tick reads the clock once: ages and waits are in  *)
(* minutes as of that instant, lag is what has passed since.  Between ticks *)
(* they are as of now.                                                      *)
(***************************************************************************)
EXTENDS Integers, Sequences, Functions

CONSTANTS
  N,               \* event ids, in the order of their file names
  Backoff,         \* BACKOFF_MINUTES
  ConfigurationBackoff,
  DeferRetry,      \* defer_retry_minutes
  MaxEventAge,     \* max_event_age_minutes
  MaxRunAge,       \* auto_publish_max_run_age_minutes
  MaxTick,         \* max_tick_minutes: when a tick stops starting work
  MaxEvents,       \* max_events_per_tick
  MaxLag,          \* bound: what the tick's calls can take altogether
  MaxRest,         \* bound: minutes from one tick's end to the next's start
  MaxSubmits,      \* bound: submissions
  MaxHands         \* bound: invocations by hand

Minutes == Nat \ {0}

ASSUME SizesAssumption ==
  /\ N \in Nat \ {0}
  /\ MaxEvents \in Nat \ {0}
  /\ MaxSubmits \in Nat \ {0}
  /\ MaxHands \in Nat
ASSUME BackoffAssumption ==
  /\ Backoff \in Seq(Minutes)
  /\ Backoff # <<>>
  /\ ConfigurationBackoff \in Minutes
  /\ DeferRetry \in Minutes
ASSUME TimesAssumption ==
  /\ MaxEventAge \in Minutes
  /\ MaxRunAge \in Minutes
  /\ MaxTick \in Minutes
  /\ MaxRest \in Minutes
  /\ MaxLag \in Nat
  /\ MaxLag >= MaxTick

Event == 1 .. N   \* and, once it is ingested, its Run

VARIABLES
  incoming,   \* events in incoming/
  deferred,   \* events in deferred/
  deferWait,  \* minutes until a deferral is over
  eventAge,   \* minutes since the analysis was written
  known,      \* events submitted so far
  submits,    \* how many submissions there were
  abandoned,  \* events whose Run could not be made
  made,       \* the Runs, in the order of their creation
  status,     \* of each Run
  runAge,     \* minutes since its creation
  retry,      \* automation/retries/<run>.json
  driven,     \* the Run a person holds the lock of, if any
  hands,      \* invocations by hand so far
  pc,         \* where the tick stands
  mode,       \* how far it takes a Run: PUBLISH is auto_publish_enabled
  todo,       \* the Runs, then the events, it has listed
  phase,      \* which of the two it is working through
  cur,        \* the one at hand
  count,      \* events it has claimed
  lag,        \* minutes since its instant
  rest,       \* minutes since the last tick ended
  backlog     \* history: Runs ready, and too old, when it started

inboxVars == <<incoming, deferred, deferWait, known, abandoned>>
runVars == <<made, status, retry>>
ageVars == <<eventAge, runAge>>
peopleVars == <<submits, driven, hands>>
tickVars == <<pc, mode, todo, phase, cur, count, lag, rest, backlog>>
vars == <<inboxVars, runVars, ageVars, peopleVars, tickVars>>

Made == Range(made)

\* DRAFTED stands for DRAFTED, REVIEWED and FINALIZED; STOPPED for what ends
\* without an article sent: a verdict, a blocked gate, a failed, partial or
\* uncertain publication.
Path == <<"NORMALIZED", "DRAFTED", "READY_TO_PUBLISH">>
Resumable == {"NORMALIZED", "DRAFTED"}
Ended == {"PUBLISHED", "STOPPED"}
Statuses == {"NONE", "READY_TO_PUBLISH"} \cup Resumable \cup Ended

Failures == {"TRANSIENT", "CONFIGURATION", "PERMANENT", "TERMINAL"}
Modes == {"READY_FOR_PUBLISH", "PUBLISH"}

\* Past Len(Backoff) further attempts change neither delay nor exhaustion.
Attempts == 0 .. Len(Backoff) + 1
RetryRecord ==
  [attempts : Attempts, class : Failures \cup {"NONE"}, wait : Nat]
NoRecord == [attempts |-> 0, class |-> "NONE", wait |-> 0]

\* Past its limit an age need not be told from a greater one; what is new in a
\* tick is younger than its instant.
Ages(limit) == -MaxLag .. limit + 1

TypeOK ==
  /\ incoming \subseteq Event
  /\ deferred \subseteq Event
  /\ deferWait \in [Event -> 0 .. DeferRetry]
  /\ eventAge \in [Event -> Ages(MaxEventAge)]
  /\ known \subseteq Event
  /\ submits \in 0 .. MaxSubmits
  /\ abandoned \subseteq Event
  /\ made \in Seq(Event)
  /\ status \in [Event -> Statuses]
  /\ runAge \in [Event -> Ages(MaxRunAge)]
  /\ retry \in [Event -> RetryRecord]
  /\ driven \in Event \cup {0}
  /\ hands \in 0 .. MaxHands
  /\ pc \in {"idle", "resume", "check", "invoke", "events", "ingest"}
  /\ mode \in Modes
  /\ todo \subseteq Event
  /\ phase \in {"resume", "events"}
  /\ cur \in Event
  /\ count \in 0 .. MaxEvents
  /\ lag \in 0 .. MaxLag
  /\ rest \in 0 .. MaxRest
  /\ backlog \subseteq Event
  /\ \A e \in Event : status[e] # "NONE" <=> e \in Made

Init ==
  /\ incoming = {}
  /\ deferred = {}
  /\ deferWait = [e \in Event |-> 0]
  /\ eventAge = [e \in Event |-> 0]
  /\ known = {}
  /\ submits = 0
  /\ abandoned = {}
  /\ made = <<>>
  /\ status = [e \in Event |-> "NONE"]
  /\ runAge = [e \in Event |-> 0]
  /\ retry = [e \in Event |-> NoRecord]
  /\ driven = 0
  /\ hands = 0
  /\ pc = "idle"
  /\ mode = "READY_FOR_PUBLISH"
  /\ todo = {}
  /\ phase = "resume"
  /\ cur = 1
  /\ count = 0
  /\ lag = 0
  /\ rest = 0
  /\ backlog = {}

-----------------------------------------------------------------------------
(* Time *)

Less(n, m) == IF n > m THEN n - m ELSE 0
Least(n, m) == IF n < m THEN n ELSE m
Waited(r, m) ==
  [attempts |-> r.attempts, class |-> r.class, wait |-> Less(r.wait, m)]
Older(age, m, limit) == Least(age + m, limit + 1)

\* m minutes are over, for everything that ages or waits.
Pass(m) ==
  /\ eventAge' = [e \in Event |->
       IF e \in known THEN Older(eventAge[e], m, MaxEventAge) ELSE 0]
  /\ runAge' = [e \in Event |->
       IF e \in Made THEN Older(runAge[e], m, MaxRunAge) ELSE 0]
  /\ deferWait' = [e \in Event |-> Less(deferWait[e], m)]
  /\ retry' = [e \in Event |-> Waited(retry[e], m)]

Rest ==
  /\ pc = "idle"
  /\ rest < MaxRest
  /\ rest' = rest + 1
  /\ Pass(1)
  /\ UNCHANGED <<incoming, deferred, known, abandoned, made, status,
                 peopleVars, pc, mode, todo, phase, cur, count, lag, backlog>>

\* Calls to a provider are what takes time in a tick.
Calling ==
  \/ pc = "invoke"
  \/ pc = "ingest" /\ cur \notin Made \cup abandoned

Call ==
  /\ Calling
  /\ lag < MaxLag
  /\ lag' = lag + 1
  /\ UNCHANGED <<inboxVars, runVars, ageVars, peopleVars, pc, mode, todo, phase,
                 cur, count, rest, backlog>>

OutOfTime == lag >= MaxTick

-----------------------------------------------------------------------------
(* The retry record *)

\* A plausible bug: a missing key uses up the attempts like any failure.
ExhaustedByConfiguration(r) ==
  \/ r.class \in {"PERMANENT", "TERMINAL"}
  \/ r.attempts > Len(Backoff)

Exhausted(r) ==
  \/ r.class \in {"PERMANENT", "TERMINAL"}
  \/ r.class = "TRANSIENT" /\ r.attempts > Len(Backoff)

\* retry_allows, RetryRecord.due.
Allowed(e) == retry[e] = NoRecord \/ (~Exhausted(retry[e]) /\ retry[e].wait = 0)

Delay(attempts, class) ==
  CASE class = "CONFIGURATION" -> ConfigurationBackoff
    [] class = "TRANSIENT"     -> Backoff[Least(attempts, Len(Backoff))]
    [] OTHER                   -> 0

\* record_failure: the record of before is counted on, whatever its class, and
\* the delay runs from the tick's instant, not from the failure.
Failed(r, class) ==
  LET attempts == Least(r.attempts + 1, Len(Backoff) + 1)
  IN  [attempts |-> attempts, class |-> class,
       wait |-> Delay(attempts, class)]

-----------------------------------------------------------------------------
(* People and producers *)

\* Inbox.submit; a resubmission is the same analysis.
Submit(e) ==
  /\ submits < MaxSubmits
  /\ e \notin incoming
  /\ incoming' = incoming \cup {e}
  /\ submits' = submits + 1
  /\ known' = known \cup {e}
  /\ eventAge' = [eventAge EXCEPT ![e] = IF e \in known THEN @ ELSE -lag]
  /\ UNCHANGED <<deferred, deferWait, abandoned, runVars, runAge, driven, hands,
                 tickVars>>

\* A Run is driven by hand, under its lock; the retry record is not touched.
HandStarts(e) ==
  /\ hands < MaxHands
  /\ driven = 0
  /\ e \in Made
  /\ ~(pc = "invoke" /\ cur = e)
  /\ driven' = e
  /\ hands' = hands + 1
  /\ UNCHANGED <<inboxVars, runVars, ageVars, submits, tickVars>>

-----------------------------------------------------------------------------
(* resume_pipeline, seen from outside *)

Rank(s) == CHOOSE i \in DOMAIN Path : Path[i] = s

Ceiling(m) == IF m = "PUBLISH" THEN "PUBLISHED" ELSE "READY_TO_PUBLISH"

\* Where a Run at s may stand when a stage of it fails.
Interrupted(s, m) ==
  {t \in Range(Path) :
     Rank(t) >= Rank(s) /\ (t = "READY_TO_PUBLISH" => m = "PUBLISH")}

\* What a stage may fail with, as far as classify tells it apart.
Errors == {"artifacts tampered with", "review not readable", "payload refused",
           "article type not ready", "settings incomplete", "preferences unavailable",
           "market unavailable", "provider failed"}

classify(error) ==
  CASE error \in {"artifacts tampered with", "review not readable", "payload refused",
                  "article type not ready"} -> "PERMANENT"
    [] error \in {"settings incomplete", "preferences unavailable"} -> "CONFIGURATION"
    [] OTHER -> "TRANSIENT"

Classified == {classify(e) : e \in Errors}

\* Each outcome with what _record_outcome makes of it: COMPLETED,
\* ALREADY_COMPLETED; BLOCKED, NOT_RESUMABLE; or a failure, classified.
Outcomes(s, m) ==
  CASE s = "PUBLISHED" -> {[status |-> s, class |-> "DONE"]}
    [] s = "STOPPED"   -> {[status |-> s, class |-> "TERMINAL"]}
    [] s = Ceiling(m)  -> {[status |-> s, class |-> "DONE"]}
    [] OTHER           ->
         {[status |-> Ceiling(m), class |-> "DONE"],
          [status |-> "STOPPED", class |-> "TERMINAL"]}
         \cup [status : Interrupted(s, m), class : Classified]

HandEnds ==
  /\ driven # 0
  /\ \E o \in Outcomes(status[driven], "PUBLISH") :
       status' = [status EXCEPT ![driven] = o.status]
  /\ driven' = 0
  /\ UNCHANGED <<inboxVars, made, retry, ageVars, submits, hands, tickVars>>

-----------------------------------------------------------------------------
(* A tick *)

\* may_resume and retry_allows.
MayResume(e, m) ==
  status[e] \in Resumable \/ (status[e] = "READY_TO_PUBLISH" /\ m = "PUBLISH")

Due(e, m) == MayResume(e, m) /\ Allowed(e)

TooOld(e) == runAge[e] > MaxRunAge

Channels == {"none", "ours", "another"}
Settings == [auto_publish_enabled : BOOLEAN, allowed : Channels, target : Channels]

\* _require_auto_publish_allowed: the channel must be named twice.
Authorised(settings) ==
  settings.auto_publish_enabled => settings.allowed = settings.target /\ settings.target # "none"

ModeUnder(settings) ==
  IF settings.auto_publish_enabled THEN "PUBLISH" ELSE "READY_FOR_PUBLISH"

StartModes == {ModeUnder(s) : s \in {t \in Settings : Authorised(t)}}

\* run_tick up to _resume_runs' listing.  The settings are read anew each time,
\* and the operator may have changed them; a tick they do not authorise ends
\* before it has taken its lock.
StartTick ==
  /\ pc = "idle"
  /\ rest > 0
  /\ LET over == {e \in deferred : deferWait[e] = 0}
     IN  /\ incoming' = incoming \cup over
         /\ deferred' = deferred \ over
  /\ mode' \in StartModes
  /\ todo' = {e \in Made : Due(e, mode')}
  /\ phase' = "resume"
  /\ pc' = "resume"
  /\ rest' = 0
  /\ backlog' = {e \in Event : status[e] = "READY_TO_PUBLISH" /\ TooOld(e)}
  /\ UNCHANGED <<deferWait, known, abandoned, runVars, ageVars, peopleVars,
                 cur, count, lag>>

Oldest(e) ==
  \A f \in todo : \A i, j \in DOMAIN made : made[i] = e /\ made[j] = f => i <= j

\* The next Run, oldest first, unless the time is up.
NextRun ==
  /\ pc = "resume"
  /\ ~OutOfTime
  /\ \E e \in todo :
       /\ Oldest(e)
       /\ todo' = todo \ {e}
       /\ cur' = e
  /\ pc' = "check"
  /\ UNCHANGED <<inboxVars, runVars, ageVars, peopleVars, mode, phase, count,
                 lag, rest, backlog>>

\* A plausible bug: only the Runs a tick listed itself are looked at.
RefusedIfListed(e) ==
  /\ mode = "PUBLISH" /\ phase = "resume"
  /\ status[e] = "READY_TO_PUBLISH" /\ TooOld(e)

\* _publish_refusal: only of a Run that is ready already.
Refused(e) == mode = "PUBLISH" /\ status[e] = "READY_TO_PUBLISH" /\ TooOld(e)

Check ==
  /\ pc = "check"
  /\ pc' = IF Refused(cur) THEN phase ELSE "invoke"
  /\ UNCHANGED <<inboxVars, runVars, ageVars, peopleVars, mode, todo, phase, cur,
                 count, lag, rest, backlog>>

\* clear_retry or record_failure.
Recorded(r, class) == IF class = "DONE" THEN NoRecord ELSE Failed(r, class)

\* _advance.  A Run somebody holds is skipped.
Invoke ==
  /\ pc = "invoke"
  /\ \/ driven = cur /\ UNCHANGED <<status, retry>>
     \/ /\ driven # cur
        /\ \E o \in Outcomes(status[cur], mode) :
             /\ status' = [status EXCEPT ![cur] = o.status]
             /\ retry' = [retry EXCEPT ![cur] = Recorded(@, o.class)]
  /\ pc' = phase
  /\ UNCHANGED <<inboxVars, made, ageVars, peopleVars, mode, todo, phase, cur,
                 count, lag, rest, backlog>>

\* _process_events lists what waits.
ListEvents ==
  /\ pc = "resume"
  /\ todo = {} \/ OutOfTime
  /\ todo' = incoming
  /\ phase' = "events"
  /\ pc' = "events"
  /\ count' = 0
  /\ UNCHANGED <<inboxVars, runVars, ageVars, peopleVars, mode, cur, lag, rest,
                 backlog>>

EventsDone == todo = {} \/ count = MaxEvents \/ OutOfTime

\* A plausible bug: the time an event was set aside does not count.
StaleButSetAside(e) == eventAge[e] > MaxEventAge + DeferRetry

\* A plausible bug: the age is left to the market data's own check.
StaleNever(e) == FALSE

Stale(e) == eventAge[e] > MaxEventAge

\* The first by name is claimed; too old, it is retired to expired/.
NextEvent ==
  /\ pc = "events"
  /\ ~EventsDone
  /\ \E e \in todo :
         /\ \A f \in todo : e <= f
         /\ todo' = todo \ {e}
         /\ cur' = e
         /\ incoming' = incoming \ {e}
         /\ pc' = IF Stale(e) THEN "events" ELSE "ingest"
  /\ count' = count + 1
  /\ UNCHANGED <<deferred, deferWait, known, abandoned, runVars, ageVars,
                 peopleVars, mode, phase, lag, rest, backlog>>

\* A replay of a settled event: its Run, if it has one, is driven on, whatever
\* its retry record says.
Replay ==
  /\ pc = "ingest"
  /\ cur \in Made \cup abandoned
  /\ pc' = IF cur \in Made THEN "check" ELSE "events"
  /\ UNCHANGED <<inboxVars, runVars, ageVars, peopleVars, mode, todo, phase, cur,
                 count, lag, rest, backlog>>

Fresh == pc = "ingest" /\ cur \notin Made \cup abandoned

\* The providers answered: there is a Run, driven on at once, or there is none.
Ingest ==
  /\ Fresh
  /\ \/ /\ made' = Append(made, cur)
        /\ status' = [status EXCEPT ![cur] = "NORMALIZED"]
        /\ runAge' = [runAge EXCEPT ![cur] = -lag]
        /\ pc' = "check"
        /\ UNCHANGED abandoned
     \/ /\ abandoned' = abandoned \cup {cur}
        /\ pc' = "events"
        /\ UNCHANGED <<made, status, runAge>>
  /\ UNCHANGED <<incoming, deferred, deferWait, known, retry, eventAge,
                 peopleVars, mode, todo, phase, cur, count, lag, rest, backlog>>

\* A closed market or damaged preferences: set aside.
Defer ==
  /\ Fresh
  /\ deferred' = deferred \cup {cur}
  /\ deferWait' = [deferWait EXCEPT ![cur] = DeferRetry]
  /\ pc' = "events"
  /\ UNCHANGED <<incoming, known, abandoned, runVars, ageVars, peopleVars,
                 mode, todo, phase, cur, count, lag, rest, backlog>>

\* A misconfigured market: back in the queue.
PutBack ==
  /\ Fresh
  /\ incoming' = incoming \cup {cur}
  /\ pc' = "events"
  /\ UNCHANGED <<deferred, deferWait, known, abandoned, runVars, ageVars,
                 peopleVars, mode, todo, phase, cur, count, lag, rest, backlog>>

EndTick ==
  /\ pc = "events"
  /\ EventsDone
  /\ Pass(lag)
  /\ pc' = "idle"
  /\ mode' = "READY_FOR_PUBLISH"
  /\ todo' = {}
  /\ phase' = "resume"
  /\ cur' = 1
  /\ count' = 0
  /\ lag' = 0
  /\ backlog' = {}
  /\ UNCHANGED <<incoming, deferred, known, abandoned, made, status,
                 peopleVars, rest>>

Tick ==
  \/ NextRun \/ Check \/ Invoke \/ ListEvents \/ NextEvent
  \/ Replay \/ Ingest \/ Defer \/ PutBack \/ EndTick

Next ==
  \/ Rest \/ Call
  \/ \E e \in Event : Submit(e) \/ HandStarts(e)
  \/ HandEnds
  \/ StartTick \/ Tick

Spec == Init /\ [][Next]_vars

\* The task starts a tick every minute, its calls end, and so does what a
\* person started; nobody has to submit or to drive anything.
Fairness ==
  WF_vars(Rest) /\ WF_vars(StartTick) /\ WF_vars(Tick) /\ WF_vars(HandEnds)

FairSpec == Spec /\ Fairness

-----------------------------------------------------------------------------
(* Properties *)

\* A Run that was approved and too old when a tick started is left where it is,
\* also by a resubmission of its event and with people driving Runs meanwhile
\* ("must not empty last week's approved backlog into the channel").
BacklogStaysPut ==
  [][\A e \in backlog :
       pc = "invoke" /\ pc' # pc /\ cur = e /\ status'[e] = "PUBLISHED"
         => status[e] = "PUBLISHED"]_vars

\* No Run is made from an analysis that is older than the limit by more than
\* this tick has lasted, however often it was deferred, put back or resubmitted.
StaleAnalysisNeverIngested ==
  [][\A e \in Event :
       e \notin Made /\ status'[e] # "NONE" => eventAge[e] <= MaxEventAge]_vars

\* A Run that is unfinished, and has not failed for good, is tried again, or
\* somebody brings it further: no other Run, event or slow tick starves it.
\* Configuration failures never use up the attempts.
NotFailedForGood(e) ==
  \/ retry[e].class \in {"NONE", "CONFIGURATION"}
  \/ retry[e].class = "TRANSIENT" /\ retry[e].attempts <= Len(Backoff)

NoRunStarves ==
  \A e \in Event :
    status[e] \in Resumable /\ NotFailedForGood(e)
      ~> status[e] \notin Resumable \/ (pc = "invoke" /\ cur = e /\ driven # e)

\* An event that waits, in the queue or set aside, comes to an end: a Run, a
\* rejection, or expiry.
Waits(e) == e \in incoming \cup deferred \/ (pc = "ingest" /\ cur = e)

EveryEventEnds == \A e \in Event : Waits(e) ~> ~Waits(e)

\* What AutomationStore.clear_retry promises: a Run that moved forward does not
\* carry the delay of its earlier failures into its next stage.
AdvanceForgetsFailures ==
  [][\A e \in Event :
       /\ pc = "invoke" /\ pc' # pc /\ cur = e
       /\ status[e] \in Resumable /\ status'[e] \in Range(Path)
       /\ Rank(status'[e]) > Rank(status[e])
       => retry'[e].attempts <= 1]_vars
=============================================================================

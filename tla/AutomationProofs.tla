-------------------------- MODULE AutomationProofs --------------------------
(***************************************************************************)
(* For any number of events, any delays, limits and bounds: the types, that *)
(* a tick leaves the approved backlog alone, and that it makes no Run from  *)
(* a stale analysis.                                                        *)
(***************************************************************************)
EXTENDS Automation, TLAPS

USE SizesAssumption, BackoffAssumption, TimesAssumption

-----------------------------------------------------------------------------
(* Helpers *)

\* Appending to the creation order adds exactly that Run.
LEMMA RangeAppend ==
  ASSUME NEW s \in Seq(Event), NEW e \in Event
  PROVE  /\ Append(s, e) \in Seq(Event)
         /\ Range(Append(s, e)) = Range(s) \cup {e}
<1>1. Append(s, e) \in Seq(Event)
  OBVIOUS
<1>2. Range(Append(s, e)) \subseteq Range(s) \cup {e}
  BY DEF Range
<1>3. \A x \in Range(s) : x \in Range(Append(s, e))
  <2>1. SUFFICES ASSUME NEW i \in DOMAIN s
                 PROVE  s[i] \in Range(Append(s, e))
    BY DEF Range
  <2>2. i \in DOMAIN Append(s, e) /\ Append(s, e)[i] = s[i]
    OBVIOUS
  <2> QED BY <2>2 DEF Range
<1>4. e \in Range(Append(s, e))
  <2>1. Len(s) + 1 \in DOMAIN Append(s, e) /\ Append(s, e)[Len(s) + 1] = e
    OBVIOUS
  <2> QED BY <2>1 DEF Range
<1> QED BY <1>1, <1>2, <1>3, <1>4

\* The places on the way of an article.
LEMMA RankOfReady ==
  /\ Range(Path) = {"NORMALIZED", "DRAFTED", "READY_TO_PUBLISH"}
  /\ Rank("NORMALIZED") = 1
  /\ Rank("DRAFTED") = 2
  /\ Rank("READY_TO_PUBLISH") = 3
<1>1. /\ Path[1] = "NORMALIZED" /\ Path[2] = "DRAFTED"
      /\ Path[3] = "READY_TO_PUBLISH" /\ DOMAIN Path = {1, 2, 3}
  BY DEF Path
<1>2. Range(Path) = {Path[1], Path[2], Path[3]}
  BY <1>1 DEF Range
<1> QED BY <1>1, <1>2 DEF Rank

\* What an invocation may leave behind.
LEMMA OutcomeTypes ==
  ASSUME NEW s \in Statuses, NEW m \in Modes, NEW o \in Outcomes(s, m)
  PROVE  /\ o.status \in Statuses \ {"NONE"} \/ o.status = s
         /\ o.status # "NONE" \/ s = "NONE"
         /\ o.class \in Failures \cup {"DONE"}
<1>1. Interrupted(s, m) \subseteq {"NORMALIZED", "DRAFTED", "READY_TO_PUBLISH"}
  BY RankOfReady DEF Interrupted
<1>2. Classified \subseteq Failures
  BY DEF Classified, classify, Failures
<1> QED
  BY <1>1, <1>2 DEF Outcomes, Statuses, Resumable, Ended, Failures, Ceiling, Modes

\* A Run that is ready, or past that, never comes back; only an invocation that
\* may publish changes one that is ready.
LEMMA ReadyOutcomes ==
  ASSUME NEW s \in {"READY_TO_PUBLISH"} \cup Ended, NEW m \in Modes,
         NEW o \in Outcomes(s, m)
  PROVE  /\ o.status \in {"READY_TO_PUBLISH"} \cup Ended
         /\ s \in Ended => o.status = s
         /\ m = "READY_FOR_PUBLISH" => o.status = s
<1>1. Interrupted("READY_TO_PUBLISH", "PUBLISH") \subseteq {"READY_TO_PUBLISH"}
  BY RankOfReady DEF Interrupted
<1> QED
  BY <1>1 DEF Outcomes, Ended, Ceiling, Modes

\* A new retry record is one.
LEMMA RecordTypes ==
  ASSUME NEW r \in RetryRecord, NEW class \in Failures \cup {"DONE"}
  PROVE  Recorded(r, class) \in RetryRecord
<1> DEFINE n == Least(r.attempts + 1, Len(Backoff) + 1)
<1>1. Len(Backoff) \in Nat \ {0} /\ r.attempts \in 0 .. Len(Backoff) + 1
  BY DEF RetryRecord, Attempts
<1>2. n \in 1 .. Len(Backoff) + 1
  BY <1>1 DEF Least
<1>3. Least(n, Len(Backoff)) \in 1 .. Len(Backoff)
  BY <1>1, <1>2 DEF Least
<1>4. Delay(n, class) \in Nat
  BY <1>3 DEF Delay, Minutes
<1>5. class # "DONE" => Failed(r, class) \in RetryRecord
  BY <1>2, <1>4 DEF Failed, RetryRecord, Attempts
<1>6. NoRecord \in RetryRecord
  BY <1>1 DEF NoRecord, RetryRecord, Attempts
<1> QED BY <1>5, <1>6 DEF Recorded

-----------------------------------------------------------------------------
(* The inductive invariant *)

\* A tick, or a person, works only on Runs that exist.
WorkInv ==
  /\ phase = "resume" => todo \subseteq Made
  /\ pc = "resume" => phase = "resume"
  /\ pc \in {"check", "invoke"} => cur \in Made
  /\ driven \in Made \cup {0}

\* What was ready and too old when the tick started still is, or somebody has
\* published it; the tick gets as far as invoking it only with nothing to do.
BacklogInv ==
  /\ pc = "idle" => backlog = {}
  /\ \A e \in backlog :
       /\ status[e] \in {"READY_TO_PUBLISH"} \cup Ended
       /\ runAge[e] > MaxRunAge
       /\ pc = "invoke" /\ cur = e /\ status[e] = "READY_TO_PUBLISH"
            => mode = "READY_FOR_PUBLISH"

\* What is being ingested was young enough when it was claimed.
YoungInv == pc = "ingest" => eventAge[cur] <= MaxEventAge

Inv == TypeOK /\ WorkInv /\ BacklogInv /\ YoungInv

LEMMA InvInit == Init => Inv
<1> SUFFICES ASSUME Init PROVE Inv
  OBVIOUS
<1> USE DEF Init, Event
<1>1. made = <<>> /\ made \in Seq(1 .. N) /\ Range(made) = {}
  BY DEF Range
<1>2. NoRecord \in RetryRecord
  BY DEF NoRecord, RetryRecord, Attempts
<1>3. 0 \in Ages(MaxEventAge) /\ 0 \in Ages(MaxRunAge)
  BY DEF Ages, Minutes
<1>4. Made = {} /\ "NONE" \in Statuses
  BY <1>1 DEF Made, Statuses
<1>5. /\ retry \in [Event -> RetryRecord]
      /\ eventAge \in [Event -> Ages(MaxEventAge)]
      /\ runAge \in [Event -> Ages(MaxRunAge)]
  BY <1>2, <1>3
<1>6. /\ deferWait \in [Event -> 0 .. DeferRetry]
      /\ status \in [Event -> Statuses]
      /\ \A e \in Event : status[e] # "NONE" <=> e \in Made
  BY <1>4 DEF Minutes
<1>7. /\ cur \in Event /\ driven \in Event \cup {0}
      /\ submits \in 0 .. MaxSubmits /\ hands \in 0 .. MaxHands
      /\ count \in 0 .. MaxEvents /\ lag \in 0 .. MaxLag /\ rest \in 0 .. MaxRest
  BY DEF Minutes
<1>8. /\ incoming \subseteq Event /\ deferred \subseteq Event
      /\ known \subseteq Event /\ abandoned \subseteq Event
      /\ todo \subseteq Event /\ backlog \subseteq Event
      /\ mode \in Modes /\ phase \in {"resume", "events"}
      /\ pc \in {"idle", "resume", "check", "invoke", "events", "ingest"}
  BY DEF Modes
<1>9. TypeOK
  BY <1>1, <1>5, <1>6, <1>7, <1>8, Zenon DEF TypeOK
<1> QED
  <2>1. WorkInv /\ BacklogInv /\ YoungInv
    BY DEF WorkInv, BacklogInv, YoungInv
  <2> QED BY <1>9, <2>1 DEF Inv

\* Letting time pass keeps the types, and what is too old stays too old.
LEMMA PassTypes ==
  ASSUME TypeOK, NEW m \in Nat, Pass(m), UNCHANGED <<known, made>>
  PROVE  /\ eventAge' \in [Event -> Ages(MaxEventAge)]
         /\ runAge' \in [Event -> Ages(MaxRunAge)]
         /\ deferWait' \in [Event -> 0 .. DeferRetry]
         /\ retry' \in [Event -> RetryRecord]
<1> USE DEF TypeOK, Pass
<1>1. \A age \in Ages(MaxEventAge) : Older(age, m, MaxEventAge) \in Ages(MaxEventAge)
  BY DEF Ages, Older, Least, Minutes
<1>2. \A age \in Ages(MaxRunAge) : Older(age, m, MaxRunAge) \in Ages(MaxRunAge)
  BY DEF Ages, Older, Least, Minutes
<1>3. 0 \in Ages(MaxEventAge) /\ 0 \in Ages(MaxRunAge)
  BY DEF Ages, Minutes
<1>4. eventAge' \in [Event -> Ages(MaxEventAge)]
  BY <1>1, <1>3
<1>5. runAge' \in [Event -> Ages(MaxRunAge)]
  BY <1>2, <1>3
<1>6. \A n \in 0 .. DeferRetry : Less(n, m) \in 0 .. DeferRetry
  BY DEF Less, Minutes
<1>7. deferWait' \in [Event -> 0 .. DeferRetry]
  BY <1>6
<1>8. \A r \in RetryRecord : Waited(r, m) \in RetryRecord
  <2> SUFFICES ASSUME NEW r \in RetryRecord PROVE Waited(r, m) \in RetryRecord
    OBVIOUS
  <2>1. r.attempts \in Attempts /\ r.class \in Failures \cup {"NONE"} /\ r.wait \in Nat
    BY DEF RetryRecord
  <2>2. Less(r.wait, m) \in Nat
    BY <2>1 DEF Less
  <2> QED BY <2>1, <2>2 DEF RetryRecord, Waited
<1>9. retry' \in [Event -> RetryRecord]
  BY <1>8
<1> QED BY <1>4, <1>5, <1>7, <1>9

\* Every step keeps the types: one case per action.
LEMMA TypeStep == TypeOK /\ WorkInv /\ [Next]_vars => TypeOK'
<1> SUFFICES ASSUME TypeOK, WorkInv, [Next]_vars PROVE TypeOK'
  OBVIOUS
<1> USE DEF TypeOK, inboxVars, runVars, ageVars, peopleVars, tickVars
<1>1. CASE UNCHANGED vars
  BY <1>1 DEF vars, Made
<1>2. CASE Rest
  <2>1. /\ eventAge' \in [Event -> Ages(MaxEventAge)]
        /\ runAge' \in [Event -> Ages(MaxRunAge)]
        /\ deferWait' \in [Event -> 0 .. DeferRetry]
        /\ retry' \in [Event -> RetryRecord]
    BY <1>2, PassTypes DEF Rest
  <2> QED BY <1>2, <2>1 DEF Rest, Made, Minutes
<1>3. CASE Call
  BY <1>3 DEF Call, Made
<1>4. ASSUME NEW e \in Event, Submit(e) PROVE TypeOK'
  <2>1. -lag \in Ages(MaxEventAge)
    BY DEF Ages, Minutes
  <2>2. eventAge' \in [Event -> Ages(MaxEventAge)]
    BY <1>4, <2>1 DEF Submit
  <2> QED BY <1>4, <2>2 DEF Submit, Made
<1>5. ASSUME NEW e \in Event, HandStarts(e) PROVE TypeOK'
  BY SMTT(30), <1>5 DEF HandStarts, Made
<1>6. CASE HandEnds
  <2>1. PICK o \in Outcomes(status[driven], "PUBLISH") :
          status' = [status EXCEPT ![driven] = o.status]
    BY <1>6 DEF HandEnds
  <2>2. driven \in Made /\ status[driven] \in Statuses \ {"NONE"}
    BY <1>6 DEF HandEnds, WorkInv
  <2>3. o.status \in Statuses \ {"NONE"}
    BY <2>2, OutcomeTypes DEF Modes
  <2>4. /\ status' \in [Event -> Statuses]
        /\ \A e \in Event : status'[e] # "NONE" <=> e \in Made
    BY <2>1, <2>2, <2>3
  <2> QED BY <1>6, <2>4 DEF HandEnds, Made
<1>7. CASE StartTick
  <2>1. Made \subseteq Event
    BY DEF Made, Range
  <2>2. todo' \subseteq Event /\ backlog' \subseteq Event
    BY <1>7, <2>1 DEF StartTick
  <2>3. incoming' \subseteq Event /\ deferred' \subseteq Event
    BY <1>7 DEF StartTick
  <2>4. mode' \in Modes
    BY <1>7 DEF StartTick, StartModes, ModeUnder, Modes
  <2> QED BY <1>7, <2>2, <2>3, <2>4 DEF StartTick, Made, Minutes
<1>8. CASE NextRun
  BY <1>8 DEF NextRun, Made
<1>9. CASE Check
  BY <1>9 DEF Check, Made
<1>10. CASE Invoke
  <2>1. CASE UNCHANGED <<status, retry>>
    BY <1>10, <2>1 DEF Invoke, Made
  <2>2. ASSUME NEW o \in Outcomes(status[cur], mode),
               status' = [status EXCEPT ![cur] = o.status],
               retry' = [retry EXCEPT ![cur] = Recorded(@, o.class)]
        PROVE  TypeOK'
    <3>1. cur \in Made /\ status[cur] \in Statuses \ {"NONE"}
      BY <1>10 DEF Invoke, WorkInv
    <3>2. o.status \in Statuses \ {"NONE"} /\ o.class \in Failures \cup {"DONE"}
      BY <2>2, <3>1, OutcomeTypes
    <3>3. /\ status' \in [Event -> Statuses]
          /\ \A e \in Event : status'[e] # "NONE" <=> e \in Made
      BY <2>2, <3>1, <3>2
    <3>4. Recorded(retry[cur], o.class) \in RetryRecord
      BY <3>2, RecordTypes
    <3>5. retry' \in [Event -> RetryRecord]
      BY <2>2, <3>4
    <3> QED BY <1>10, <3>3, <3>5 DEF Invoke, Made
  <2> QED BY <1>10, <2>1, <2>2 DEF Invoke
<1>11. CASE ListEvents
  BY <1>11 DEF ListEvents, Made
<1>12. CASE NextEvent
  BY <1>12 DEF NextEvent, EventsDone, Made
<1>13. CASE Replay
  BY <1>13 DEF Replay, Made
<1>14. CASE Ingest
  <2>1. -lag \in Ages(MaxRunAge)
    BY DEF Ages, Minutes
  <2>2. runAge' \in [Event -> Ages(MaxRunAge)]
    BY <1>14, <2>1 DEF Ingest
  <2>3. CASE made' = Append(made, cur)
    <3>1. made' \in Seq(Event) /\ Made' = Made \cup {cur}
      BY <2>3, RangeAppend DEF Made
    <3>2. status' = [status EXCEPT ![cur] = "NORMALIZED"] \/ made' = made
      BY <1>14 DEF Ingest
    <3>3. made' # made
      BY <2>3
    <3>4. /\ status' \in [Event -> Statuses]
          /\ \A e \in Event : status'[e] # "NONE" <=> e \in Made'
      BY <3>1, <3>2, <3>3 DEF Statuses, Resumable
    <3> QED BY <1>14, <2>2, <3>1, <3>4 DEF Ingest
  <2>4. CASE UNCHANGED <<made, status>>
    BY <1>14, <2>2, <2>4 DEF Ingest, Made
  <2> QED BY <1>14, <2>3, <2>4 DEF Ingest
<1>15. CASE Defer
  BY <1>15 DEF Defer, Made, Minutes
<1>16. CASE PutBack
  BY <1>16 DEF PutBack, Made
<1>17. CASE EndTick
  <2>1. /\ eventAge' \in [Event -> Ages(MaxEventAge)]
        /\ runAge' \in [Event -> Ages(MaxRunAge)]
        /\ deferWait' \in [Event -> 0 .. DeferRetry]
        /\ retry' \in [Event -> RetryRecord]
    BY <1>17, PassTypes DEF EndTick
  <2> QED BY SMTT(30), <1>17, <2>1 DEF EndTick, Made, Modes, Event
<1> QED
  BY <1>1, <1>2, <1>3, <1>4, <1>5, <1>6, <1>7, <1>8, <1>9, <1>10, <1>11, <1>12,
     <1>13, <1>14, <1>15, <1>16, <1>17 DEF Next, Tick

\* Runs are only ever added.
LEMMA MadeGrows == TypeOK /\ [Next]_vars => Made \subseteq Made'
<1> SUFFICES ASSUME TypeOK, [Next]_vars PROVE Made \subseteq Made'
  OBVIOUS
<1> USE DEF inboxVars, runVars, ageVars, peopleVars, tickVars
<1>1. CASE made' = made
  BY <1>1 DEF Made
<1>2. CASE made' = Append(made, cur)
  BY <1>2, RangeAppend DEF TypeOK, Made
<1>3. made' = made \/ made' = Append(made, cur)
  BY DEF vars, Next, Tick, Rest, Call, Submit, HandStarts, HandEnds, StartTick,
         NextRun, Check, Invoke, ListEvents, NextEvent, Replay, Ingest, Defer,
         PutBack, EndTick
<1> QED BY <1>1, <1>2, <1>3

\* Every step keeps the listing and the Run at hand among the Runs there are.
LEMMA WorkStep == TypeOK /\ WorkInv /\ [Next]_vars => WorkInv'
<1> SUFFICES ASSUME TypeOK, WorkInv, [Next]_vars PROVE WorkInv'
  OBVIOUS
<1>0. Made \subseteq Made'
  BY MadeGrows
<1> USE DEF WorkInv, inboxVars, runVars, ageVars, peopleVars, tickVars
<1>1. CASE UNCHANGED vars
  BY <1>1 DEF vars, Made
<1>2. CASE Rest \/ Call
  BY <1>0, <1>2 DEF Rest, Call
<1>3. ASSUME NEW e \in Event, Submit(e) PROVE WorkInv'
  BY <1>0, <1>3 DEF Submit
<1>4. ASSUME NEW e \in Event, HandStarts(e) PROVE WorkInv'
  BY <1>0, <1>4 DEF HandStarts
<1>5. CASE HandEnds
  BY <1>0, <1>5 DEF HandEnds
<1>6. CASE StartTick
  BY <1>0, <1>6 DEF StartTick
<1>7. CASE NextRun
  BY <1>0, <1>7 DEF NextRun
<1>8. CASE Check \/ Invoke
  BY <1>0, <1>8 DEF Check, Invoke, TypeOK
<1>9. CASE ListEvents
  BY <1>0, <1>9 DEF ListEvents
<1>10. CASE NextEvent
  BY <1>0, <1>10 DEF NextEvent
<1>11. CASE Replay
  BY <1>0, <1>11 DEF Replay
<1>12. CASE Ingest
  <2>1. CASE made' = Append(made, cur) /\ pc' = "check"
    <3>1. cur \in Made'
      BY <2>1, RangeAppend DEF TypeOK, Made
    <3> QED BY <1>0, <1>12, <2>1, <3>1 DEF Ingest
  <2>2. CASE pc' = "events"
    BY <1>0, <1>12, <2>2 DEF Ingest
  <2> QED BY <1>12, <2>1, <2>2 DEF Ingest
<1>13. CASE Defer \/ PutBack
  BY <1>0, <1>13 DEF Defer, PutBack
<1>14. CASE EndTick
  BY <1>0, <1>14 DEF EndTick
<1> QED
  BY <1>1, <1>2, <1>3, <1>4, <1>5, <1>6, <1>7, <1>8, <1>9, <1>10, <1>11, <1>12,
     <1>13, <1>14 DEF Next, Tick

\* Every step keeps the backlog what it was: the tick neither invokes it to
\* publish nor makes it younger.
LEMMA BacklogStep == Inv /\ [Next]_vars => BacklogInv'
<1> SUFFICES ASSUME TypeOK, WorkInv, BacklogInv, [Next]_vars PROVE BacklogInv'
  BY DEF Inv
<1> USE DEF BacklogInv, inboxVars, runVars, ageVars, peopleVars, tickVars
<1>0. backlog \subseteq Made
  BY DEF TypeOK, Ended
<1>1. CASE UNCHANGED vars
  BY <1>1 DEF vars
<1>2. CASE Rest
  BY <1>2 DEF Rest
<1>3. CASE Call
  BY <1>3 DEF Call
<1>4. ASSUME NEW e \in Event, Submit(e) PROVE BacklogInv'
  BY <1>4 DEF Submit
<1>5. ASSUME NEW e \in Event, HandStarts(e) PROVE BacklogInv'
  BY <1>5 DEF HandStarts
<1>6. CASE HandEnds
  <2>1. PICK o \in Outcomes(status[driven], "PUBLISH") :
          status' = [status EXCEPT ![driven] = o.status]
    BY <1>6 DEF HandEnds
  <2>2. SUFFICES ASSUME NEW e \in backlog
                 PROVE  /\ status'[e] \in {"READY_TO_PUBLISH"} \cup Ended
                        /\ status'[e] = "READY_TO_PUBLISH"
                             => status[e] = "READY_TO_PUBLISH"
    BY <1>6 DEF HandEnds
  <2>3. CASE e = driven
    <3>1. status[e] \in {"READY_TO_PUBLISH"} \cup Ended
      BY <2>2
    <3>2. /\ o.status \in {"READY_TO_PUBLISH"} \cup Ended
          /\ status[e] \in Ended => o.status = status[e]
      BY <2>1, <2>3, <3>1, ReadyOutcomes DEF Modes
    <3>3. status'[e] = o.status
      BY <2>1, <2>3 DEF TypeOK
    <3> QED BY <3>1, <3>2, <3>3 DEF Ended
  <2>4. CASE e # driven
    BY <2>1, <2>4 DEF TypeOK
  <2> QED BY <2>3, <2>4
<1>7. CASE StartTick
  BY <1>7 DEF StartTick, TooOld
<1>8. CASE NextRun
  BY <1>8 DEF NextRun
<1>9. CASE Check
  <2>1. ASSUME NEW e \in backlog, pc' = "invoke", cur = e,
               status[e] = "READY_TO_PUBLISH"
        PROVE  mode = "READY_FOR_PUBLISH"
    <3>1. ~Refused(cur)
      BY <1>9, <2>1 DEF Check, TypeOK
    <3> QED BY <2>1, <3>1 DEF Refused, TooOld, TypeOK, Modes
  <2> QED BY <1>9, <2>1 DEF Check, TypeOK
<1>10. CASE Invoke
  <2>1. SUFFICES ASSUME NEW e \in backlog
                 PROVE  status'[e] \in {"READY_TO_PUBLISH"} \cup Ended
    BY <1>10 DEF Invoke, TypeOK
  <2>2. CASE UNCHANGED status
    BY <2>2
  <2>3. ASSUME NEW o \in Outcomes(status[cur], mode),
               status' = [status EXCEPT ![cur] = o.status]
        PROVE  status'[e] \in {"READY_TO_PUBLISH"} \cup Ended
    <3>1. CASE e = cur
      BY <2>3, <3>1, ReadyOutcomes DEF TypeOK
    <3>2. CASE e # cur
      BY <2>3, <3>2 DEF TypeOK
    <3> QED BY <3>1, <3>2
  <2> QED BY <1>10, <2>2, <2>3 DEF Invoke
<1>11. CASE ListEvents
  BY <1>11 DEF ListEvents
<1>12. CASE NextEvent
  BY <1>12 DEF NextEvent
<1>13. CASE Replay
  BY <1>13 DEF Replay
<1>14. CASE Ingest
  <2>1. cur \notin backlog
    BY <1>0, <1>14 DEF Ingest, Fresh
  <2>2. \A e \in backlog : status'[e] = status[e] /\ runAge'[e] = runAge[e]
    BY <1>14, <2>1 DEF Ingest, TypeOK
  <2> QED BY <1>14, <2>2 DEF Ingest
<1>15. CASE Defer \/ PutBack
  BY <1>15 DEF Defer, PutBack
<1>16. CASE EndTick
  BY <1>16 DEF EndTick
<1> QED
  BY <1>1, <1>2, <1>3, <1>4, <1>5, <1>6, <1>7, <1>8, <1>9, <1>10, <1>11, <1>12,
     <1>13, <1>14, <1>15, <1>16 DEF Next, Tick

\* What is claimed is young enough, and does not age before the tick is over.
LEMMA YoungStep == Inv /\ [Next]_vars => YoungInv'
<1> SUFFICES ASSUME TypeOK, YoungInv, [Next]_vars, pc' = "ingest"
             PROVE  eventAge'[cur'] <= MaxEventAge
  BY DEF Inv, YoungInv
<1> USE DEF YoungInv, inboxVars, runVars, ageVars, peopleVars, tickVars
<1>1. CASE UNCHANGED <<pc, cur, eventAge>>
  BY <1>1
<1>2. ASSUME NEW e \in Event, Submit(e)
      PROVE  eventAge'[cur'] <= MaxEventAge
  <2>1. pc = "ingest" /\ cur' = cur
    BY <1>2 DEF Submit
  <2>2. eventAge'[cur] = eventAge[cur] \/ eventAge'[cur] = -lag
    BY <1>2 DEF Submit, TypeOK
  <2>3. -lag <= MaxEventAge
    BY DEF TypeOK, Minutes
  <2> QED BY <2>1, <2>2, <2>3
<1>3. CASE NextEvent
  <2>1. eventAge' = eventAge /\ cur' \in Event /\ ~Stale(cur')
    BY <1>3 DEF NextEvent, TypeOK
  <2> QED BY <2>1 DEF Stale, TypeOK, Ages, Minutes
<1> QED
  BY <1>1, <1>2, <1>3
  DEF vars, Next, Tick, Rest, Call, HandStarts, HandEnds, StartTick, NextRun,
      Check, Invoke, ListEvents, Replay, Ingest, Defer, PutBack, EndTick, TypeOK

LEMMA InvStep == Inv /\ [Next]_vars => Inv'
BY TypeStep, WorkStep, BacklogStep, YoungStep DEF Inv

\* The invariant holds throughout.
THEOREM AutomationCorrect == Spec => []Inv
<1>1. Init => Inv
  BY InvInit
<1>2. Inv /\ [Next]_vars => Inv'
  BY InvStep
<1> QED BY <1>1, <1>2, PTL DEF Spec

-----------------------------------------------------------------------------
(* What a reader wants to know *)

\* Every variable keeps to its type.
THEOREM TypeCorrect == Spec => []TypeOK
<1>1. Inv => TypeOK
  BY DEF Inv
<1> QED BY <1>1, AutomationCorrect, PTL

\* A tick never publishes a Run that was ready, and too old, when it started.
THEOREM BacklogIsLeftAlone == Spec => BacklogStaysPut
<1> DEFINE Published(e) ==
      pc = "invoke" /\ pc' # pc /\ cur = e /\ status'[e] = "PUBLISHED"
        => status[e] = "PUBLISHED"
<1>1. ASSUME Inv, [Next]_vars PROVE [\A e \in backlog : Published(e)]_vars
  <2>1. SUFFICES ASSUME Next, NEW e \in backlog, pc = "invoke", pc' # pc, cur = e,
                        status'[e] = "PUBLISHED"
                 PROVE  status[e] = "PUBLISHED"
    BY <1>1
  <2>2. Invoke
    BY <2>1 DEF Next, Tick, Rest, Call, Submit, HandStarts, HandEnds, StartTick,
                NextRun, Check, ListEvents, NextEvent, Replay, Ingest, Fresh,
                Defer, PutBack, EndTick, tickVars
  <2>3. /\ status[e] \in {"READY_TO_PUBLISH"} \cup Ended
        /\ status[e] = "READY_TO_PUBLISH" => mode = "READY_FOR_PUBLISH"
    BY <1>1, <2>1 DEF Inv, BacklogInv
  <2>4. CASE UNCHANGED status
    BY <2>1, <2>4
  <2>5. ASSUME NEW o \in Outcomes(status[cur], mode),
               status' = [status EXCEPT ![cur] = o.status]
        PROVE  status[e] = "PUBLISHED"
    <3>1. o.status = status[e]
      BY <1>1, <2>1, <2>3, <2>5, ReadyOutcomes DEF Inv, TypeOK
    <3>2. status'[e] = o.status
      BY <1>1, <2>1, <2>5 DEF Inv, TypeOK
    <3> QED BY <2>1, <3>1, <3>2
  <2> QED BY <2>2, <2>4, <2>5 DEF Invoke
<1> QED BY <1>1, AutomationCorrect, PTL DEF Spec, BacklogStaysPut

\* No Run is made from an analysis that was too old when its tick started.
THEOREM StaleIsNeverIngested == Spec => StaleAnalysisNeverIngested
<1>1. ASSUME Inv, [Next]_vars
      PROVE  [\A e \in Event : e \notin Made /\ status'[e] # "NONE"
                => eventAge[e] <= MaxEventAge]_vars
  <2>1. SUFFICES ASSUME Next, NEW e \in Event, e \notin Made, status'[e] # "NONE"
                 PROVE  eventAge[e] <= MaxEventAge
    BY <1>1
  <2>2. e \in Made'
    BY <1>1, <2>1, InvStep DEF Inv, TypeOK
  <2>3. made' # made
    BY <2>1, <2>2 DEF Made
  <2>4. Ingest
    BY <2>1, <2>3 DEF Next, Tick, Rest, Call, Submit, HandStarts, HandEnds,
                      StartTick, NextRun, Check, Invoke, ListEvents, NextEvent,
                      Replay, Defer, PutBack, EndTick, runVars
  <2>5. Made' = Made \cup {cur}
    BY <1>1, <2>3, <2>4, RangeAppend DEF Ingest, Inv, TypeOK, Made
  <2>6. e = cur /\ pc = "ingest"
    BY <2>1, <2>2, <2>4, <2>5 DEF Ingest, Fresh
  <2> QED BY <1>1, <2>6 DEF Inv, YoungInv
<1> QED BY <1>1, AutomationCorrect, PTL DEF Spec, StaleAnalysisNeverIngested
=============================================================================

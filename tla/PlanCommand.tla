----------------------------- MODULE PlanCommand -----------------------------
(***************************************************************************)
(* The /plan command: services/plan_command.py polls Telegram and submits   *)
(* requests, services/plan_delivery.py answers them, one automation tick    *)
(* after another (automation.py, _poll_plan_commands at its start and       *)
(* _deliver_plan_replies at its end).                                       *)
(*                                                                         *)
(* Telegram hands out every update from the offset on, again and again,     *)
(* until the offset moves.  Each write to the disk and each call of the bot *)
(* is a step, and a tick may be killed before any of them.  What becomes of *)
(* a submitted event (Ingestion, RunPipeline, Automation) goes on meanwhile *)
(* and is seen here only as far as a reply depends on it.                   *)
(***************************************************************************)
EXTENDS Naturals

CONSTANTS
  N,            \* updates people may cause, in the order of their ids
  Asks,         \* those whose text is /plan, written by a human
  Chat,         \* chats
  ChatOf,       \* the chat of each update
  PollLimit,    \* POLL_LIMIT
  Initially,    \* the settings to start from
  MaxCrashes,   \* bound: ticks killed
  MaxEdits,     \* bound: plan-command-activate and plan-command-disable
  MaxFailures   \* bound: failures of Runs (retries are bounded)

Update == 1 .. N

ASSUME UpdateAssumption ==
  /\ N \in Nat
  /\ Asks \subseteq Update
  /\ ChatOf \in [Update -> Chat]
  /\ PollLimit \in Nat \ {0}
ASSUME BoundAssumption ==
  /\ MaxCrashes \in Nat
  /\ MaxEdits \in Nat
  /\ MaxFailures \in Nat

VARIABLES
  posted,     \* Telegram holds the updates 1 .. posted
  settings,   \* plan_command.json
  edits,      \* how often it was written
  offset,     \* offset.json; 1 while there is none
  ignored,    \* audit lines
  receipt,    \* receipts/
  late,       \* receipts older than GIVE_UP_AFTER
  submitted,  \* history: how often each request entered the inbox
  stage,      \* how far its event and Run have come
  failures,   \* failures of Runs so far
  intent,     \* replies/<key>.intent.json
  result,     \* the status in replies/<key>.result.json
  arrived,    \* how often a reply reached its chat
  said,       \* what the responses that arrived said
  pc,         \* where the tick stands
  using,      \* the settings it read when it started
  todo,       \* the updates, then the receipts, it is working through
  cur,        \* the one at hand
  key,        \* the reply it is sending
  kind,       \* and what that is
  status,     \* and how the call ended
  crashes     \* ticks killed so far

storeVars == <<offset, ignored, receipt>>
replyVars == <<intent, result>>
chatVars == <<arrived, said>>
worldVars == <<posted, settings, edits, late, failures, crashes>>
eventVars == <<submitted, stage>>
tickVars == <<pc, using, todo, cur, key, kind, status>>
vars == <<storeVars, replyVars, chatVars, worldVars, eventVars, tickVars>>

\* The acknowledgement, and the one reply that is a plan or a failure notice.
Parts == {"ack", "response"}
Key == Update \X Parts
Kinds == {"ACKNOWLEDGEMENT", "PLAN", "FAILURE_NOTICE"}
Delivery == {"DELIVERED", "FAILED", "UNCERTAIN", "SKIPPED"}

NoKey == <<0, "ack">>

Off == [on |-> FALSE, chats |-> {}]
Settings == [on : BOOLEAN, chats : SUBSET Chat]
ASSUME InitiallyAssumption == Initially \in Settings

\* The event: INCOMING, or AWAY in processing/ or deferred/.  Its ledger entry:
\* TORN when it cannot be read.  Its Run: WORKING until it is READY (also once
\* published), TRANSIENT while a retry record says so.  ENDED: in failed/ or
\* expired/, abandoned, blocked, failed, exhausted, or no longer provably the
\* text that was approved.
Stages ==
  {"NONE", "INCOMING", "AWAY", "TORN", "WORKING", "TRANSIENT", "ENDED", "READY"}

PcValues ==
  {"idle", "orphans", "poll", "updates", "ignore", "submit", "receipt",
   "offset", "reserve", "send", "settle", "close", "replies"}

TypeOK ==
  /\ posted \in 0 .. N
  /\ settings \in Settings
  /\ edits \in 0 .. MaxEdits
  /\ offset \in 1 .. N + 1
  /\ offset <= posted + 1
  /\ ignored \subseteq Update
  /\ receipt \subseteq Update
  /\ late \subseteq receipt
  /\ submitted \in [Update -> Nat]
  /\ stage \in [Update -> Stages]
  /\ failures \in 0 .. MaxFailures
  /\ intent \subseteq Key
  /\ result \in [Key -> Delivery \cup {"NONE"}]
  /\ arrived \in [Key -> Nat]
  /\ said \subseteq Update \X Kinds
  /\ pc \in PcValues
  /\ using \in Settings
  /\ todo \subseteq Update
  /\ cur \in Nat
  /\ key \in Nat \X Parts
  /\ kind \in Kinds
  /\ status \in Delivery
  /\ crashes \in 0 .. MaxCrashes

Init ==
  /\ posted = 0
  /\ settings = Initially
  /\ edits = 0
  /\ offset = 1
  /\ ignored = {}
  /\ receipt = {}
  /\ late = {}
  /\ submitted = [u \in Update |-> 0]
  /\ stage = [u \in Update |-> "NONE"]
  /\ failures = 0
  /\ intent = {}
  /\ result = [k \in Key |-> "NONE"]
  /\ arrived = [k \in Key |-> 0]
  /\ said = {}
  /\ pc = "idle"
  /\ using = Off
  /\ todo = {}
  /\ cur = 0
  /\ key = NoKey
  /\ kind = "ACKNOWLEDGEMENT"
  /\ status = "UNCERTAIN"
  /\ crashes = 0

\* The offset that an update, dealt with, allows.
PastBatch(u) == posted + 1
Past(u) == u + 1

Oldest(S) == CHOOSE u \in S : \A v \in S : u <= v

Goto(l) == pc' = l

(***************************************************************************)
(* The world around the tick                                               *)
(***************************************************************************)
\* What happens between steps that cannot tell is put before the next that can:
\* the settings and the clock are read when a tick starts, Telegram is asked
\* once, and what has become of an event is looked at before each reply.
Post ==
  /\ pc \in {"idle", "poll"}
  /\ posted < N
  /\ posted' = posted + 1
  /\ UNCHANGED <<storeVars, replyVars, chatVars, eventVars, tickVars, settings,
                 edits, late, failures, crashes>>

Write(s) ==
  /\ pc = "idle"
  /\ edits < MaxEdits
  /\ edits' = edits + 1
  /\ settings' = s
  /\ UNCHANGED <<storeVars, replyVars, chatVars, eventVars, tickVars, posted,
                 late, failures, crashes>>

\* plan-command-activate names the one chat that may ask from now on.
Activate(c) == Write([on |-> TRUE, chats |-> {c}])
Disable == settings.on /\ Write([settings EXCEPT !.on = FALSE])

GrowLate(u) ==
  /\ pc = "idle"
  /\ u \in receipt \ late
  /\ late' = late \cup {u}
  /\ UNCHANGED <<storeVars, replyVars, chatVars, eventVars, tickVars, posted,
                 settings, edits, failures, crashes>>

\* Where an event and its Run can go from each stage.
Onward ==
  [NONE |-> {}, TORN |-> {},
   INCOMING |-> {"AWAY", "ENDED"},
   AWAY |-> {"INCOMING", "ENDED", "TORN", "WORKING"},
   WORKING |-> {"TRANSIENT", "ENDED", "READY"},
   TRANSIENT |-> {"WORKING", "ENDED"},
   ENDED |-> {"WORKING"},       \* exhausted, and resumed by hand
   READY |-> {"ENDED"}]

Progress(u) ==
  /\ pc \in {"idle", "replies"}
  /\ \E s \in Onward[stage[u]] :
       /\ stage' = [stage EXCEPT ![u] = s]
       /\ IF s \in {"TRANSIENT", "ENDED"}
            THEN failures < MaxFailures /\ failures' = failures + 1
            ELSE UNCHANGED failures
  /\ UNCHANGED <<storeVars, replyVars, chatVars, tickVars, posted, settings,
                 edits, late, crashes, submitted>>

\* A retry that is due is attempted: the record is cleared or exhausted.
Retried(u) == stage[u] = "TRANSIENT" /\ Progress(u)

(***************************************************************************)
(* Replying, at most once                                                  *)
(***************************************************************************)
Orphans == {k \in intent : result[k] = "NONE"}
OwnedIfCertain(k) == result[k] \in {"DELIVERED", "SKIPPED"}
Owned(k) == k \in intent \/ result[k] # "NONE"

Settled(k, s) == result' = [result EXCEPT ![k] = s]

\* close_orphans records that nobody knows, and sends nothing.  A tick does it
\* before it polls and again before it replies.
CloseOrphan ==
  /\ pc \in {"orphans", "close"}
  /\ \E k \in Orphans : Settled(k, "UNCERTAIN")
  /\ UNCHANGED <<storeVars, chatVars, worldVars, eventVars, tickVars, intent>>

\* The listing of receipts is made once the orphans are closed.
OrphansClosed ==
  /\ Orphans = {}
  /\ \/ pc = "orphans" /\ Goto("poll") /\ UNCHANGED todo
     \/ pc = "close" /\ Goto("replies") /\ todo' = receipt
  /\ UNCHANGED <<storeVars, replyVars, chatVars, worldVars, eventVars, using,
                 cur, key, kind, status>>

After(k) == IF k[2] = "ack" THEN "updates" ELSE "replies"

\* send_once: the intent is created exclusively before the call.
Reserve ==
  /\ pc = "reserve"
  /\ IF Owned(key)
       THEN Goto(After(key)) /\ UNCHANGED intent
       ELSE Goto("send") /\ intent' = intent \cup {key}
  /\ UNCHANGED <<storeVars, chatVars, worldVars, eventVars, result, using, todo,
                 cur, key, kind, status>>

Reach == <<key[1], kind>>

\* The chat has it or not, and the answer says so, or is lost or unreadable.
Send ==
  /\ pc = "send"
  /\ Goto("settle")
  /\ \/ /\ status' \in {"DELIVERED", "UNCERTAIN"}
        /\ arrived' = [arrived EXCEPT ![key] = @ + 1]
        /\ said' = IF key[2] = "response" THEN said \cup {Reach} ELSE said
     \/ /\ status' \in {"FAILED", "UNCERTAIN"}
        /\ UNCHANGED chatVars
  /\ UNCHANGED <<storeVars, replyVars, worldVars, eventVars, using, todo, cur,
                 key, kind>>

Settle ==
  /\ pc = "settle"
  /\ Settled(key, status)
  /\ Goto(After(key))
  /\ key' = NoKey
  /\ kind' = "ACKNOWLEDGEMENT"
  /\ status' = "UNCERTAIN"
  /\ UNCHANGED <<storeVars, chatVars, worldVars, eventVars, intent, using, todo,
                 cur>>

(***************************************************************************)
(* Polling                                                                 *)
(***************************************************************************)
\* The context, settings included, is built once per tick.
StartTick ==
  /\ pc = "idle"
  /\ settings.on
  /\ using' = settings
  /\ Goto("orphans")
  /\ UNCHANGED <<storeVars, replyVars, chatVars, worldVars, eventVars, todo,
                 cur, key, kind, status>>

\* The oldest updates from the offset on, or an error that costs one line.
Poll ==
  /\ pc = "poll"
  /\ \/ Goto("close") /\ UNCHANGED todo
     \/ /\ todo' = {u \in offset .. posted : u < offset + PollLimit}
        /\ Goto("updates")
  /\ UNCHANGED <<storeVars, replyVars, chatVars, worldVars, eventVars, using,
                 cur, key, kind, status>>

IsRequest(u) == u \in Asks /\ ChatOf[u] \in using.chats

AlreadySubmittedByReceipt(u) == u \in receipt
\* A receipt, a file in one of the six folders, or a ledger entry, readable or
\* not.  An event's file is moved and never deleted.
AlreadySubmitted(u) == u \in receipt \/ stage[u] # "NONE"

NextUpdate ==
  /\ pc = "updates"
  /\ todo # {}
  /\ cur' = Oldest(todo)
  /\ todo' = todo \ {cur'}
  /\ Goto(IF ~IsRequest(cur') THEN "ignore"
          ELSE IF AlreadySubmitted(cur') THEN "receipt" ELSE "submit")
  /\ UNCHANGED <<storeVars, replyVars, chatVars, worldVars, eventVars, using,
                 key, kind, status>>

\* Between polling and replying the tick works on events and Runs: Progress.
Polled ==
  /\ pc = "updates"
  /\ todo = {}
  /\ Goto("close")
  /\ UNCHANGED <<storeVars, replyVars, chatVars, worldVars, eventVars, using,
                 todo, cur, key, kind, status>>

Ignore ==
  /\ pc = "ignore"
  /\ ignored' = ignored \cup {cur}
  /\ Goto("offset")
  /\ UNCHANGED <<replyVars, chatVars, worldVars, eventVars, offset, receipt,
                 using, todo, cur, key, kind, status>>

\* Inbox.submit refuses a name that is taken in incoming/.
Submit ==
  /\ pc = "submit"
  /\ IF stage[cur] = "INCOMING"
       THEN UNCHANGED eventVars
       ELSE /\ submitted' = [submitted EXCEPT ![cur] = @ + 1]
            /\ stage' = [stage EXCEPT ![cur] = "INCOMING"]
  /\ Goto("receipt")
  /\ UNCHANGED <<storeVars, replyVars, chatVars, worldVars, using, todo, cur,
                 key, kind, status>>

WriteReceipt ==
  /\ pc = "receipt"
  /\ receipt' = receipt \cup {cur}
  /\ Goto("offset")
  /\ UNCHANGED <<replyVars, chatVars, worldVars, eventVars, offset, ignored,
                 using, todo, cur, key, kind, status>>

\* Past an update only once it is dealt with; a request is then acknowledged.
WriteOffset ==
  /\ pc = "offset"
  /\ offset' = Past(cur)
  /\ IF IsRequest(cur)
       THEN /\ key' = <<cur, "ack">>
            /\ kind' = "ACKNOWLEDGEMENT"
            /\ Goto("reserve")
       ELSE Goto("updates") /\ UNCHANGED <<key, kind>>
  /\ UNCHANGED <<replyVars, chatVars, worldVars, eventVars, ignored, receipt,
                 using, todo, cur, status>>

(***************************************************************************)
(* Answering                                                               *)
(***************************************************************************)
PatientWithAny == {"TORN", "TRANSIENT", "WORKING"}
\* However late: an unreadable ledger entry, a retry that is still to come.
Patient == {"TORN", "TRANSIENT"}

ReplyDue(u) ==
  IF stage[u] = "READY" THEN "PLAN"
  ELSE IF stage[u] = "ENDED" \/ (u \in late /\ stage[u] \notin Patient)
    THEN "FAILURE_NOTICE"
  ELSE "WAIT"

NextReply ==
  /\ pc = "replies"
  /\ todo # {}
  /\ LET u == Oldest(todo)
         k == <<u, "response">>
     IN /\ todo' = todo \ {u}
        /\ \/ /\ Owned(k) \/ ReplyDue(u) = "WAIT"
              /\ UNCHANGED <<pc, result, key, kind>>
           \/ /\ ~Owned(k)
              /\ ReplyDue(u) # "WAIT"
              /\ ChatOf[u] \notin using.chats
              /\ Settled(k, "SKIPPED")
              /\ UNCHANGED <<pc, key, kind>>
           \/ /\ ~Owned(k)
              /\ ReplyDue(u) # "WAIT"
              /\ ChatOf[u] \in using.chats
              /\ key' = k
              /\ kind' = ReplyDue(u)
              /\ Goto("reserve")
              /\ UNCHANGED result
  /\ UNCHANGED <<storeVars, chatVars, worldVars, eventVars, intent, using, cur,
                 status>>

\* What a tick had in memory is gone when it ends.
Forget ==
  /\ Goto("idle")
  /\ using' = Off
  /\ todo' = {}
  /\ cur' = 0
  /\ key' = NoKey
  /\ kind' = "ACKNOWLEDGEMENT"
  /\ status' = "UNCERTAIN"

EndTick ==
  /\ pc = "replies"
  /\ todo = {}
  /\ Forget
  /\ UNCHANGED <<storeVars, replyVars, chatVars, worldVars, eventVars>>

Crash ==
  /\ pc # "idle"
  /\ crashes < MaxCrashes
  /\ crashes' = crashes + 1
  /\ Forget
  /\ UNCHANGED <<storeVars, replyVars, chatVars, eventVars, posted, settings,
                 edits, late, failures>>

Tick ==
  \/ StartTick \/ OrphansClosed \/ CloseOrphan \/ Poll \/ NextUpdate \/ Ignore
  \/ Polled \/ Submit \/ WriteReceipt \/ WriteOffset \/ Reserve \/ Send \/ Settle
  \/ NextReply \/ EndTick

World ==
  \/ Post
  \/ \E c \in Chat : Activate(c)
  \/ Disable
  \/ \E u \in Update : GrowLate(u) \/ Progress(u)
  \/ Crash

Next == Tick \/ World

Spec == Init /\ [][Next]_vars

\* The scheduler starts a tick every minute and a tick that is not killed goes
\* on; polls do not fail for ever; time passes; a due retry is attempted.
FairSpec ==
  /\ Spec
  /\ WF_vars(Tick)
  /\ SF_vars(Poll /\ pc' = "updates")
  /\ \A u \in Update : SF_vars(GrowLate(u)) /\ SF_vars(Retried(u))

-----------------------------------------------------------------------------
(***************************************************************************)
(* Properties                                                              *)
(***************************************************************************)

\* An update behind the offset will never be handed out again.  If it was a
\* request, it has a receipt and its event was submitted: moving the offset
\* loses nothing, wherever a tick is killed.  And Telegram hands out a request
\* again after a crash: the event that is already somewhere in the inbox, or only
\* remembered by the ledger, is recognised.
OneEventPerRequest ==
  /\ \A u \in 1 .. offset - 1 :
       \/ u \in ignored
       \/ u \in Asks /\ u \in receipt /\ submitted[u] > 0
  /\ \A u \in Update : submitted[u] <= 1

\* No chat ever gets two acknowledgements, two answers, or both a plan and an
\* apology for one request, whatever is lost and whenever a tick is killed.
OneReplyEach ==
  /\ \A k \in Key : arrived[k] <= 1
  /\ \A u \in Update :
       ~ (<<u, "PLAN">> \in said /\ <<u, "FAILURE_NOTICE">> \in said)

\* Each reply keeps the promise a publication makes (PublishOnce, one chunk): an
\* attempt that is recorded before it reaches anybody, is made once, and whose
\* recorded outcome is true of what the chat can see.
Copies(k) == [chunk : {1}, nth : 1 .. arrived[k]]

Once(k) == INSTANCE PublishOnce WITH
  Message <- [chunk : {1}, nth : 1 .. 2],
  NChunks <- 1,
  phase <- IF k \notin intent THEN "approved"
           ELSE IF result[k] = "NONE" THEN "attempting" ELSE "closed",
  delivered <- Copies(k),
  outcome <- IF result[k] = "DELIVERED" THEN "PUBLISHED"
             ELSE IF result[k] = "SKIPPED" THEN "NONE" ELSE result[k]

RepliesKeepPromise ==
  /\ \A k \in Key : Once(k)!Init
  /\ [][\A k \in Key : [Once(k)!Next]_(Once(k)!vars)]_vars

\* Every /plan is answered in the end, or ignored, or its answer's failure is on
\* record, if the command stays on and no crash tore the event's ledger entry.
EveryRequestAnswered ==
  \A u \in Asks :
    <>[] settings.on =>
      ((u <= posted) ~> (\/ u \in ignored
                         \/ result[<<u, "response">>] # "NONE"
                         \/ stage[u] = "TORN"))
=============================================================================

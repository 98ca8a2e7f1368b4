----------------------------- MODULE PlanProofs -----------------------------
(***************************************************************************)
(* Theorems of a trade plan: of the command that asks for one and answers   *)
(* (PlanCommand), and of the stage that writes it (TradePlan).              *)
(***************************************************************************)
EXTENDS TradePlan, PlanCommand, FiniteSetTheorems, TLAPS

\* Some numbers have a least one.
LEMMA LeastElement ==
  ASSUME NEW S, S \subseteq Nat, S # {}
  PROVE  \E n \in S : \A m \in S : n <= m
<1> DEFINE T == {0 .. n : n \in S}
<1>1. T \subseteq FiniteSubsetsOf(Nat)
  <2>1. ASSUME NEW n \in S PROVE 0 .. n \in FiniteSubsetsOf(Nat)
    <3>1. n \in Int /\ 0 .. n \subseteq Nat
      OBVIOUS
    <3>2. IsFiniteSet(0 .. n)
      BY <3>1, FS_Interval
    <3> QED
      BY <3>1, <3>2 DEF FiniteSubsetsOf
  <2> QED
    BY <2>1
<1>2. PICK x \in T : \A y \in T : <<y, x>> \notin StrictSubsetOrdering(Nat)
  <2>1. T # {}
    OBVIOUS
  <2> HIDE DEF T
  <2> QED
    BY <1>1, <2>1, WFMin, FS_StrictSubsetOrderingWellFounded
<1>3. PICK n \in S : x = 0 .. n
  OBVIOUS
<1>4. ASSUME NEW m \in S, m < n PROVE FALSE
  <2>1. 0 .. m \in T
    OBVIOUS
  <2>2. 0 .. m \subseteq 0 .. n /\ 0 .. m # 0 .. n
    BY <1>4
  <2>3. <<0 .. m, 0 .. n>> \in StrictSubsetOrdering(Nat)
    BY <2>2 DEF StrictSubsetOrdering
  <2> QED
    BY <2>1, <2>3, <1>2, <1>3
<1> QED
  BY <1>4

(***************************************************************************)
(* Theorems of PlanCommand, for any updates, requests, chats and limits:    *)
(* its types, OneEventPerRequest, OneReplyEach, and that each reply keeps    *)
(* the promise PublishOnce makes of a publication.                          *)
(*                                                                         *)
(* What carries the first is that a batch is worked through without a hole: *)
(* what is left of it begins where the offset stands (BatchInv), so the     *)
(* offset only ever passes the update that has just been dealt with.  What  *)
(* carries the replies is that a key is reserved by whoever sends under it,  *)
(* and by nobody again (ReplyInv).                                          *)
(***************************************************************************)

Handling == {"ignore", "submit", "receipt", "offset"}
Replying == {"reserve", "send", "settle"}
InBatch == pc = "updates" \/ (pc \in Replying /\ key[2] = "ack")

Handled(u) ==
  \/ u \in ignored
  \/ u \in Asks /\ u \in receipt /\ submitted[u] > 0

\* What is left of the batch begins at n, and has no hole.
From(n) ==
  \A v \in todo : n <= v /\ v <= posted /\ \A u \in n .. v : u \in todo

BatchInv ==
  /\ InBatch => From(offset)
  /\ pc \in Handling => cur = offset /\ cur \in 1 .. posted /\ From(offset + 1)

CurInv ==
  /\ pc = "submit" => cur \in Asks /\ stage[cur] = "NONE"
  /\ pc = "receipt" => cur \in Asks /\ stage[cur] # "NONE"
  /\ pc = "offset" => Handled(cur)

EventInv ==
  /\ \A u \in Update : submitted[u] = IF stage[u] = "NONE" THEN 0 ELSE 1
  /\ \A u \in receipt : u \in Asks /\ stage[u] # "NONE"
  /\ \A u \in 1 .. offset - 1 : Handled(u)

\* What the tick knows of the reply it is sending.
SendingInv ==
  /\ pc \in Replying => key \in Key
  /\ pc \in Replying /\ key[2] = "response" => kind \in {"PLAN", "FAILURE_NOTICE"}
  /\ pc \in {"send", "settle"} => key \in intent /\ result[key] = "NONE"
  /\ pc = "send" => arrived[key] = 0
  /\ pc = "settle" =>
       /\ status # "SKIPPED"
       /\ status = "DELIVERED" => arrived[key] = 1
       /\ status = "FAILED" => arrived[key] = 0

\* Nothing arrives under a key that is not reserved, and nothing twice.
ArrivedInv ==
  /\ \A k \in Key : arrived[k] <= 1 /\ (k \notin intent => arrived[k] = 0)
  /\ \A x \in said : arrived[<<x[1], "response">>] = 1
  /\ \A x, y \in said : x[1] = y[1] => x = y

ReplyInv == SendingInv /\ ArrivedInv

Inv == TypeOK /\ BatchInv /\ CurInv /\ EventInv /\ ReplyInv

-----------------------------------------------------------------------------
(* Types *)

LEMMA OldestType ==
  ASSUME NEW S, S \subseteq Nat, S # {}
  PROVE  Oldest(S) \in S /\ \A v \in S : Oldest(S) <= v
<1>1. \E n \in S : \A m \in S : n <= m
  BY LeastElement
<1> QED
  BY <1>1 DEF Oldest

LEMMA TodoType ==
  ASSUME TypeOK, todo # {}
  PROVE  /\ Oldest(todo) \in todo
         /\ Oldest(todo) \in Update
         /\ \A v \in todo : Oldest(todo) <= v
<1>1. todo \subseteq Update /\ todo \subseteq Nat
  BY UpdateAssumption DEF TypeOK, Update
<1> QED
  BY <1>1, OldestType

\* Where an event can go: never back to where nothing of it was.
LEMMA OnwardType ==
  ASSUME NEW s \in Stages
  PROVE  /\ Onward[s] \subseteq Stages \ {"NONE"}
         /\ s = "NONE" => Onward[s] = {}
BY DEF Onward, Stages

LEMMA KeyType ==
  ASSUME NEW u \in Update, NEW part \in Parts
  PROVE  <<u, part>> \in Key /\ <<u, part>>[1] = u /\ <<u, part>>[2] = part
BY DEF Key

LEMMA ReplyDueType ==
  ASSUME NEW u PROVE ReplyDue(u) \in {"PLAN", "FAILURE_NOTICE", "WAIT"}
BY DEF ReplyDue

LEMMA InitInv == Init => Inv
<1> SUFFICES ASSUME Init PROVE Inv
  OBVIOUS
<1> USE UpdateAssumption, BoundAssumption, InitiallyAssumption DEF Init
<1>1. TypeOK
  <2>1. Off \in Settings
    BY DEF Off, Settings
  <2> QED
    BY <2>1 DEF TypeOK, Update, Stages, Delivery, PcValues, Parts, NoKey, Kinds, Key
<1>2. BatchInv /\ CurInv
  BY DEF BatchInv, CurInv, InBatch, Replying, Handling
<1>3. EventInv /\ ReplyInv
  BY DEF EventInv, ReplyInv, SendingInv, ArrivedInv, Replying, Key
<1> QED
  BY <1>1, <1>2, <1>3 DEF Inv

LEMMA TypeStep == TypeOK /\ SendingInv /\ BatchInv /\ [Next]_vars => TypeOK'
<1> SUFFICES ASSUME TypeOK, SendingInv, BatchInv, [Next]_vars PROVE TypeOK'
  OBVIOUS
<1> USE UpdateAssumption, BoundAssumption, InitiallyAssumption
    DEF TypeOK, storeVars, replyVars, chatVars, worldVars, eventVars, tickVars, Goto
<1>1. CASE Post
  BY <1>1 DEF Post
<1>2. ASSUME NEW c \in Chat, Activate(c) PROVE TypeOK'
  <2>1. [on |-> TRUE, chats |-> {c}] \in Settings
    BY DEF Settings
  <2> QED
    BY <1>2, <2>1 DEF Activate, Write
<1>3. CASE Disable
  <2>1. [settings EXCEPT !.on = FALSE] \in Settings
    BY DEF Settings
  <2> QED
    BY <1>3, <2>1 DEF Disable, Write
<1>4. ASSUME NEW u \in Update, GrowLate(u) PROVE TypeOK'
  BY <1>4 DEF GrowLate
<1>5. ASSUME NEW u \in Update, Progress(u) PROVE TypeOK'
  <2>1. PICK s \in Onward[stage[u]] : stage' = [stage EXCEPT ![u] = s]
    BY <1>5 DEF Progress
  <2>2. s \in Stages
    BY OnwardType
  <2> QED
    BY <1>5, <2>1, <2>2 DEF Progress
<1>6. CASE Crash
  <2>1. Off \in Settings /\ NoKey \in Nat \X Parts
    BY DEF Off, Settings, NoKey, Parts
  <2> QED
    BY <1>6, <2>1 DEF Crash, Forget, PcValues, Delivery, Kinds
<1>7. CASE StartTick
  BY <1>7 DEF StartTick, PcValues
<1>8. CASE OrphansClosed
  BY <1>8 DEF OrphansClosed, PcValues
<1>9. CASE CloseOrphan
  BY <1>9 DEF CloseOrphan, Settled, Delivery
<1>10. CASE Poll
  <2>1. {u \in offset .. posted : u < offset + PollLimit} \subseteq Update
    BY DEF Update
  <2> QED
    BY <1>10, <2>1 DEF Poll, PcValues
<1>11. CASE NextUpdate
  <2>1. Oldest(todo) \in Update /\ Oldest(todo) \in Nat
    BY <1>11, TodoType DEF NextUpdate, Update
  <2> QED
    BY <1>11, <2>1 DEF NextUpdate, PcValues
<1>12. CASE Polled
  BY <1>12 DEF Polled, PcValues
<1>13. CASE Ignore
  BY <1>13 DEF Ignore, PcValues, BatchInv, Handling, Update
<1>14. CASE Submit
  <2>1. cur \in Update
    BY <1>14 DEF Submit, BatchInv, Handling, Update
  <2> QED
    BY <1>14, <2>1 DEF Submit, PcValues, Stages
<1>15. CASE WriteReceipt
  BY <1>15 DEF WriteReceipt, PcValues, BatchInv, Handling, Update
<1>16. CASE WriteOffset
  <2>1. cur \in 1 .. posted
    BY <1>16 DEF WriteOffset, BatchInv, Handling
  <2> QED
    BY <1>16, <2>1 DEF WriteOffset, PcValues, Parts, Kinds, Past
<1>17. CASE Reserve
  <2>1. key \in Key
    BY <1>17 DEF Reserve, SendingInv, Replying
  <2> QED
    BY <1>17, <2>1 DEF Reserve, PcValues, After
<1>18. CASE Send
  <2>1. key \in Key
    BY <1>18 DEF Send, SendingInv, Replying
  <2>2. Reach \in Update \X Kinds
    BY <2>1 DEF Reach, Key
  <2> QED
    BY <1>18, <2>1, <2>2 DEF Send, PcValues, Delivery
<1>19. CASE Settle
  <2>1. NoKey \in Nat \X Parts
    BY DEF NoKey, Parts
  <2> QED
    BY <1>19, <2>1 DEF Settle, Settled, After, PcValues, Delivery, Kinds
<1>20. CASE NextReply
  <2>1. Oldest(todo) \in Update
    BY <1>20, TodoType DEF NextReply
  <2>2. <<Oldest(todo), "response">> \in Nat \X Parts
    BY <2>1 DEF Update, Parts
  <2>3. ReplyDue(Oldest(todo)) # "WAIT" => ReplyDue(Oldest(todo)) \in Kinds
    BY ReplyDueType DEF Kinds
  <2> QED
    BY <1>20, <2>1, <2>2, <2>3 DEF NextReply, Settled, Delivery, PcValues
<1>21. CASE EndTick
  <2>1. Off \in Settings /\ NoKey \in Nat \X Parts
    BY DEF Off, Settings, NoKey, Parts
  <2> QED
    BY <1>21, <2>1 DEF EndTick, Forget, PcValues, Delivery, Kinds
<1>22. CASE UNCHANGED vars
  BY <1>22 DEF vars
<1> QED
  BY <1>1, <1>2, <1>3, <1>4, <1>5, <1>6, <1>7, <1>8, <1>9, <1>10, <1>11, <1>12,
     <1>13, <1>14, <1>15, <1>16, <1>17, <1>18, <1>19, <1>20, <1>21, <1>22
  DEF Next, Tick, World

-----------------------------------------------------------------------------
(* What a batch is                                                         *)

\* The next update of a batch is the one the offset stands at.
LEMMA NextIsAtOffset ==
  ASSUME TypeOK, From(offset), todo # {}
  PROVE  Oldest(todo) = offset
<1>1. PICK v \in todo : v = Oldest(todo)
  BY TodoType
<1>2. v \in Nat /\ offset \in Nat
  BY UpdateAssumption DEF TypeOK, Update
<1>3. offset <= v /\ offset \in todo
  BY <1>2 DEF From
<1> QED
  BY <1>1, <1>2, <1>3, TodoType

LEMMA BatchStep == TypeOK /\ BatchInv /\ SendingInv /\ [Next]_vars => BatchInv'
<1> SUFFICES ASSUME TypeOK, BatchInv, SendingInv, [Next]_vars PROVE BatchInv'
  OBVIOUS
<1> DEFINE Still == UNCHANGED <<pc, key, offset, todo, cur, posted>>
<1> USE DEF storeVars, replyVars, chatVars, worldVars, eventVars, tickVars, Goto
<1>1. CASE Still
  BY <1>1 DEF BatchInv, InBatch, Handling, Replying, From
<1>2. CASE pc' \in {"idle", "orphans", "poll", "close", "replies"}
  BY <1>2 DEF BatchInv, InBatch, Handling, Replying
<1>3. CASE Poll
  <2>1. offset' = offset /\ posted' = posted /\ offset \in Nat /\ posted \in Nat
    BY <1>3, UpdateAssumption DEF Poll, TypeOK
  <2>2. CASE pc' = "updates"
    <3>1. todo' = {u \in offset .. posted : u < offset + PollLimit}
      BY <1>3, <2>2 DEF Poll
    <3> QED
      BY <2>1, <2>2, <3>1, UpdateAssumption
      DEF BatchInv, InBatch, Handling, Replying, From
  <2> QED
    BY <1>2, <1>3, <2>2 DEF Poll
<1>4. CASE NextUpdate
  <2>1. From(offset) /\ todo # {}
    BY <1>4 DEF NextUpdate, BatchInv, InBatch
  <2>2. cur' = offset /\ offset \in todo
    BY <1>4, <2>1, NextIsAtOffset, TodoType DEF NextUpdate
  <2>3. offset' = offset /\ posted' = posted /\ todo' = todo \ {offset}
    BY <1>4, <2>2 DEF NextUpdate
  <2>4. offset \in 1 .. posted /\ \A v \in todo : v \in Nat
    BY <2>1, <2>2, UpdateAssumption DEF TypeOK, Update, From
  <2>5. From(offset + 1)'
    BY <2>1, <2>3, <2>4 DEF From
  <2>6. pc' \in Handling /\ ~ InBatch'
    BY <1>4 DEF NextUpdate, Handling, InBatch, Replying
  <2> QED
    BY <2>2, <2>3, <2>4, <2>5, <2>6 DEF BatchInv
<1>5. CASE Ignore \/ Submit \/ WriteReceipt
  BY <1>5 DEF Ignore, Submit, WriteReceipt, BatchInv, Handling, InBatch, Replying, From
<1>6. CASE WriteOffset
  <2>1. cur = offset /\ From(offset + 1)
    BY <1>6 DEF WriteOffset, BatchInv, Handling
  <2>2. offset' = offset + 1 /\ posted' = posted /\ todo' = todo
    BY <1>6, <2>1 DEF WriteOffset, Past
  <2>3. pc' \in {"updates", "reserve"}
    BY <1>6 DEF WriteOffset
  <2> QED
    BY <2>1, <2>2, <2>3 DEF BatchInv, Handling, From
<1>7. CASE Reserve \/ Send
  <2>1. /\ offset' = offset /\ posted' = posted /\ todo' = todo /\ key' = key
        /\ pc \in Replying
        /\ pc' \in Replying \/ pc' = After(key)
    BY <1>7 DEF Reserve, Send, Replying
  <2> QED
    BY <2>1 DEF BatchInv, Handling, InBatch, Replying, From, After
<1>8. CASE Settle
  <2>1. /\ offset' = offset /\ posted' = posted /\ todo' = todo
        /\ pc \in Replying /\ pc' = After(key)
    BY <1>8 DEF Settle, Replying
  <2> QED
    BY <2>1 DEF BatchInv, Handling, InBatch, Replying, From, After
<1>9. CASE NextReply
  <2>1. CASE pc' = pc
    BY <1>2, <1>9, <2>1 DEF NextReply
  <2>2. CASE pc' = "reserve" /\ key' = <<Oldest(todo), "response">>
    BY <2>2 DEF BatchInv, Handling, InBatch, Replying
  <2> QED
    BY <1>9, <2>1, <2>2 DEF NextReply
<1>10. CASE Post
  BY <1>2, <1>10 DEF Post
<1>11. CASE CloseOrphan
  BY <1>1, <1>11 DEF CloseOrphan
<1>12. ASSUME NEW c \in Chat, Activate(c) PROVE BatchInv'
  BY <1>1, <1>12 DEF Activate, Write
<1>16. CASE Disable
  BY <1>1, <1>16 DEF Disable, Write
<1>13. ASSUME NEW u \in Update, GrowLate(u) \/ Progress(u) PROVE BatchInv'
  BY <1>1, <1>13 DEF GrowLate, Progress
<1>14. CASE StartTick \/ OrphansClosed \/ Polled \/ EndTick \/ Crash
  BY <1>2, <1>14 DEF StartTick, OrphansClosed, Polled, EndTick, Crash, Forget
<1>15. CASE UNCHANGED vars
  BY <1>1, <1>15 DEF vars
<1> QED
  BY <1>3, <1>4, <1>5, <1>6, <1>7, <1>8, <1>9, <1>10, <1>11, <1>12, <1>13,
     <1>14, <1>15, <1>16
  DEF Next, Tick, World

-----------------------------------------------------------------------------
(* What becomes of an update                                               *)

LEMMA EventStep ==
  TypeOK /\ BatchInv /\ CurInv /\ EventInv /\ [Next]_vars => EventInv'
<1> SUFFICES ASSUME TypeOK, BatchInv, CurInv, EventInv, [Next]_vars
             PROVE  EventInv'
  OBVIOUS
<1> DEFINE Still == UNCHANGED <<offset, ignored, receipt, submitted, stage>>
<1> USE DEF storeVars, replyVars, chatVars, worldVars, eventVars, tickVars, Goto
<1>1. CASE Still
  BY <1>1 DEF EventInv, Handled
<1>2. ASSUME NEW u \in Update, Progress(u) PROVE EventInv'
  <2>1. PICK s \in Onward[stage[u]] : stage' = [stage EXCEPT ![u] = s]
    BY <1>2 DEF Progress
  <2>2. stage[u] # "NONE" /\ s # "NONE"
    BY <2>1, OnwardType DEF TypeOK
  <2>3. UNCHANGED <<offset, ignored, receipt, submitted>>
    BY <1>2 DEF Progress
  <2>4. \A v \in Update : (stage'[v] = "NONE") <=> (stage[v] = "NONE")
    BY <2>1, <2>2 DEF TypeOK
  <2>5. Asks \subseteq Update
    BY UpdateAssumption
  <2> QED
    BY <2>3, <2>4, <2>5 DEF EventInv, Handled
<1>3. CASE Submit
  <2>1. cur \in Asks /\ cur \in Update /\ stage[cur] = "NONE"
    BY <1>3, UpdateAssumption DEF Submit, CurInv
  <2>2. /\ submitted' = [submitted EXCEPT ![cur] = @ + 1]
        /\ stage' = [stage EXCEPT ![cur] = "INCOMING"]
        /\ UNCHANGED <<offset, ignored, receipt>>
    BY <1>3, <2>1 DEF Submit
  <2>3. Asks \subseteq Update
    BY UpdateAssumption
  <2>4. \A u \in Update : submitted'[u] = IF stage'[u] = "NONE" THEN 0 ELSE 1
    BY <2>1, <2>2 DEF EventInv, TypeOK
  <2>5. \A u \in receipt : stage'[u] # "NONE"
    BY <2>1, <2>2, <2>3 DEF EventInv, TypeOK
  <2>6. \A u \in Asks : u \in receipt => submitted'[u] > 0
    BY <2>3, <2>4, <2>5
  <2> QED
    BY <2>2, <2>4, <2>5, <2>6 DEF EventInv, Handled
<1>4. CASE Ignore
  BY <1>4 DEF Ignore, EventInv, Handled
<1>5. CASE WriteReceipt
  <2>1. cur \in Asks /\ stage[cur] # "NONE"
    BY <1>5 DEF WriteReceipt, CurInv
  <2> QED
    BY <1>5, <2>1 DEF WriteReceipt, EventInv, Handled
<1>6. CASE WriteOffset
  <2>1. Handled(cur) /\ cur = offset /\ offset \in Nat
    BY <1>6, UpdateAssumption DEF WriteOffset, CurInv, BatchInv, Handling, TypeOK
  <2>2. offset' = offset + 1 /\ UNCHANGED <<ignored, receipt, submitted, stage>>
    BY <1>6, <2>1 DEF WriteOffset, Past
  <2>3. \A u \in 1 .. offset' - 1 : u \in 1 .. offset - 1 \/ u = cur
    BY <2>1, <2>2
  <2> QED
    BY <2>1, <2>2, <2>3 DEF EventInv, Handled
<1>7. ASSUME NEW c \in Chat, Activate(c) PROVE EventInv'
  BY <1>1, <1>7 DEF Activate, Write
<1>8. CASE Disable
  BY <1>1, <1>8 DEF Disable, Write
<1>9. ASSUME NEW u \in Update, GrowLate(u) PROVE EventInv'
  BY <1>1, <1>9 DEF GrowLate
<1>10. CASE Post \/ Crash \/ EndTick
  BY <1>1, <1>10 DEF Post, Crash, EndTick
<1>11. CASE \/ StartTick \/ OrphansClosed \/ CloseOrphan \/ Poll \/ NextUpdate
             \/ Polled
  BY <1>1, <1>11
  DEF StartTick, OrphansClosed, CloseOrphan, Poll, NextUpdate, Polled
<1>12. CASE Reserve \/ Send \/ Settle \/ NextReply
  BY <1>1, <1>12 DEF Reserve, Send, Settle, NextReply
<1>13. CASE UNCHANGED vars
  BY <1>1, <1>13 DEF vars
<1> QED
  BY <1>2, <1>3, <1>4, <1>5, <1>6, <1>7, <1>8, <1>9, <1>10, <1>11, <1>12, <1>13
  DEF Next, Tick, World

LEMMA CurStep ==
  TypeOK /\ BatchInv /\ SendingInv /\ CurInv /\ EventInv /\ [Next]_vars => CurInv'
<1> SUFFICES ASSUME TypeOK, BatchInv, SendingInv, CurInv, EventInv, [Next]_vars
             PROVE  CurInv'
  OBVIOUS
<1> DEFINE Still ==
      UNCHANGED <<pc, cur, ignored, receipt, submitted, stage>>
<1> USE DEF storeVars, replyVars, chatVars, worldVars, eventVars, tickVars, Goto
<1>1. CASE Still
  BY <1>1 DEF CurInv, Handled
<1>2. CASE pc' \notin {"submit", "receipt", "offset"}
  BY <1>2 DEF CurInv
<1>3. CASE NextUpdate
  <2>1. cur' \in Update /\ UNCHANGED <<receipt, stage>>
    BY <1>3, TodoType DEF NextUpdate
  <2>2. pc' # "ignore" => cur' \in Asks
    BY <1>3 DEF NextUpdate, IsRequest
  <2>3. pc' = "receipt" => cur' \in receipt \/ stage[cur'] # "NONE"
    BY <1>3 DEF NextUpdate, AlreadySubmitted
  <2>4. pc' = "submit" => stage[cur'] = "NONE"
    BY <1>3 DEF NextUpdate, AlreadySubmitted
  <2>5. pc' \in {"ignore", "receipt", "submit"}
    BY <1>3 DEF NextUpdate
  <2> QED
    BY <2>1, <2>2, <2>3, <2>4, <2>5 DEF CurInv, EventInv
<1>4. CASE Ignore
  BY <1>4 DEF Ignore, CurInv, Handled
<1>5. CASE Submit
  <2>1. cur \in Asks /\ cur \in Update
    BY <1>5, UpdateAssumption DEF Submit, CurInv
  <2>2. stage'[cur] = "INCOMING"
    BY <1>5, <2>1 DEF Submit, TypeOK
  <2> QED
    BY <1>5, <2>1, <2>2 DEF Submit, CurInv
<1>6. CASE WriteReceipt
  <2>1. cur \in Asks /\ stage[cur] # "NONE" /\ cur \in Update
    BY <1>6, UpdateAssumption DEF WriteReceipt, CurInv
  <2>2. submitted[cur] = 1
    BY <2>1 DEF EventInv
  <2> QED
    BY <1>6, <2>1, <2>2 DEF WriteReceipt, CurInv, Handled
<1>7. ASSUME NEW c \in Chat, Activate(c) PROVE CurInv'
  BY <1>1, <1>7 DEF Activate, Write
<1>8. CASE Disable
  BY <1>1, <1>8 DEF Disable, Write
<1>9. ASSUME NEW u \in Update, GrowLate(u) PROVE CurInv'
  BY <1>1, <1>9 DEF GrowLate
<1>10. ASSUME NEW u \in Update, Progress(u) PROVE CurInv'
  BY <1>2, <1>10 DEF Progress
<1>11. CASE Post \/ Crash \/ EndTick \/ WriteOffset
  BY <1>2, <1>11 DEF Post, Crash, EndTick, WriteOffset, Forget
<1>12. CASE StartTick \/ OrphansClosed \/ CloseOrphan \/ Poll \/ Polled
  BY <1>2, <1>12 DEF StartTick, OrphansClosed, CloseOrphan, Poll, Polled
<1>13. CASE Reserve \/ Send \/ Settle \/ NextReply
  BY <1>2, <1>13 DEF Reserve, Send, Settle, NextReply, After
<1>14. CASE UNCHANGED vars
  BY <1>1, <1>14 DEF vars
<1> QED
  BY <1>3, <1>4, <1>5, <1>6, <1>7, <1>8, <1>9, <1>10, <1>11, <1>12, <1>13, <1>14
  DEF Next, Tick, World

-----------------------------------------------------------------------------
(* Replies                                                                 *)

LEMMA SendingStep ==
  TypeOK /\ SendingInv /\ ArrivedInv /\ [Next]_vars => SendingInv'
<1> SUFFICES ASSUME TypeOK, SendingInv, ArrivedInv, [Next]_vars
             PROVE  SendingInv'
  OBVIOUS
<1> DEFINE Still == UNCHANGED <<pc, key, kind, status, intent, result, arrived>>
<1> USE DEF storeVars, replyVars, chatVars, worldVars, eventVars, tickVars, Goto
<1>1. CASE Still
  BY <1>1 DEF SendingInv, Replying
<1>2. CASE pc' \notin Replying
  BY <1>2 DEF SendingInv, Replying
<1>3. CASE WriteOffset
  <2>1. CASE pc' = "updates"
    BY <1>2, <2>1 DEF Replying
  <2>2. CASE pc' = "reserve" /\ key' = <<cur, "ack">>
    <3>1. cur \in Update
      BY <1>3, <2>2, UpdateAssumption DEF WriteOffset, IsRequest
    <3>2. key' \in Key /\ key'[2] = "ack"
      BY <2>2, <3>1 DEF Key, Parts
    <3> QED
      BY <2>2, <3>2 DEF SendingInv
  <2> QED
    BY <1>3, <2>1, <2>2 DEF WriteOffset
<1>4. CASE Reserve
  <2>1. key \in Key
    BY <1>4 DEF Reserve, SendingInv, Replying
  <2>2. CASE Owned(key)
    BY <1>2, <1>4, <2>2 DEF Reserve, After, Replying
  <2>3. CASE ~ Owned(key)
    <3>1. /\ pc' = "send" /\ intent' = intent \cup {key}
          /\ UNCHANGED <<key, kind, result, arrived>>
      BY <1>4, <2>3 DEF Reserve
    <3>2. result[key] = "NONE" /\ arrived[key] = 0
      BY <2>1, <2>3 DEF Owned, ArrivedInv
    <3>3. key[2] = "response" => kind \in {"PLAN", "FAILURE_NOTICE"}
      BY <1>4 DEF Reserve, SendingInv, Replying
    <3> QED
      BY <2>1, <3>1, <3>2, <3>3 DEF SendingInv
  <2> QED
    BY <2>2, <2>3
<1>5. CASE Send
  <2>1. /\ key \in Key /\ key \in intent /\ result[key] = "NONE"
        /\ arrived[key] = 0
        /\ key[2] = "response" => kind \in {"PLAN", "FAILURE_NOTICE"}
    BY <1>5 DEF Send, SendingInv, Replying
  <2>2. pc' = "settle" /\ UNCHANGED <<key, kind, intent, result>>
    BY <1>5 DEF Send
  <2>3. \/ status' \in {"DELIVERED", "UNCERTAIN"} /\ arrived'[key] = 1
        \/ status' \in {"FAILED", "UNCERTAIN"} /\ arrived'[key] = 0
    BY <1>5, <2>1 DEF Send, TypeOK
  <2> QED
    BY <2>1, <2>2, <2>3 DEF SendingInv
<1>6. CASE Settle
  BY <1>2, <1>6 DEF Settle, After, Replying
<1>7. CASE NextReply
  <2>1. pc = "replies" /\ todo # {}
    BY <1>7 DEF NextReply
  <2>2. CASE pc' = pc
    BY <1>2, <2>1, <2>2 DEF Replying
  <2>3. CASE /\ pc' = "reserve" /\ key' = <<Oldest(todo), "response">>
             /\ kind' = ReplyDue(Oldest(todo)) /\ kind' # "WAIT"
    <3>1. key' \in Key
      BY <2>1, <2>3, TodoType DEF Key, Parts
    <3>2. kind' \in {"PLAN", "FAILURE_NOTICE"}
      BY <2>3, ReplyDueType
    <3> QED
      BY <2>3, <3>1, <3>2 DEF SendingInv
  <2> QED
    BY <1>7, <2>2, <2>3 DEF NextReply
<1>8. CASE CloseOrphan
  BY <1>2, <1>8 DEF CloseOrphan, Replying
<1>9. ASSUME NEW c \in Chat, Activate(c) PROVE SendingInv'
  BY <1>1, <1>9 DEF Activate, Write
<1>10. CASE Disable
  BY <1>1, <1>10 DEF Disable, Write
<1>11. ASSUME NEW u \in Update, GrowLate(u) \/ Progress(u) PROVE SendingInv'
  BY <1>1, <1>11 DEF GrowLate, Progress
<1>12. CASE Post \/ Crash \/ EndTick
  BY <1>2, <1>12 DEF Post, Crash, EndTick, Forget, Replying
<1>13. CASE StartTick \/ OrphansClosed \/ Poll \/ Polled
  BY <1>2, <1>13 DEF StartTick, OrphansClosed, Poll, Polled, Replying
<1>14. CASE NextUpdate \/ Ignore \/ Submit \/ WriteReceipt
  BY <1>2, <1>14 DEF NextUpdate, Ignore, Submit, WriteReceipt, Replying
<1>15. CASE UNCHANGED vars
  BY <1>1, <1>15 DEF vars
<1> QED
  BY <1>3, <1>4, <1>5, <1>6, <1>7, <1>8, <1>9, <1>10, <1>11, <1>12, <1>13, <1>14,
     <1>15
  DEF Next, Tick, World

LEMMA ArrivedStep ==
  TypeOK /\ SendingInv /\ ArrivedInv /\ [Next]_vars => ArrivedInv'
<1> SUFFICES ASSUME TypeOK, SendingInv, ArrivedInv, [Next]_vars
             PROVE  ArrivedInv'
  OBVIOUS
<1> DEFINE Still == UNCHANGED <<intent, arrived, said>>
<1> USE DEF storeVars, replyVars, chatVars, worldVars, eventVars, tickVars, Goto
<1>1. CASE Still
  BY <1>1 DEF ArrivedInv
<1>2. CASE Reserve
  BY <1>2 DEF Reserve, ArrivedInv
<1>3. CASE Send
  <2>1. key \in Key /\ key \in intent /\ arrived[key] = 0
    BY <1>3 DEF Send, SendingInv, Replying
  <2>2. CASE arrived' = [arrived EXCEPT ![key] = @ + 1]
    <3>1. /\ arrived'[key] = 1
          /\ \A k \in Key \ {key} : arrived'[k] = arrived[k]
      BY <2>1, <2>2 DEF TypeOK
    <3>2. intent' = intent
      BY <1>3 DEF Send
    <3>3. \A k \in Key : arrived'[k] <= 1 /\ (k \notin intent' => arrived'[k] = 0)
      BY <2>1, <3>1, <3>2 DEF ArrivedInv
    <3>4. \A x \in said : <<x[1], "response">> \in Key \ {key}
      <4> SUFFICES ASSUME NEW x \in said
                   PROVE  <<x[1], "response">> \in Key \ {key}
        OBVIOUS
      <4>1. x[1] \in Update
        BY DEF TypeOK
      <4>2. <<x[1], "response">> \in Key
        BY <4>1, KeyType DEF Parts
      <4>3. arrived[<<x[1], "response">>] = 1
        BY DEF ArrivedInv
      <4> QED
        BY <2>1, <4>2, <4>3
    <3>5. \A x \in said : arrived'[<<x[1], "response">>] = 1
      BY <3>1, <3>4 DEF ArrivedInv
    <3>6. CASE said' = said
      BY <3>3, <3>5, <3>6 DEF ArrivedInv
    <3>7. CASE key[2] = "response" /\ said' = said \cup {Reach}
      <4>1. key = <<key[1], "response">> /\ Reach[1] = key[1]
        BY <2>1, <3>7 DEF Key, Reach
      <4>2. \A x \in said' : arrived'[<<x[1], "response">>] = 1
        BY <3>1, <3>5, <3>7, <4>1
      <4>3. \A x \in said : x[1] # Reach[1]
        BY <3>4, <4>1
      <4>4. \A x, y \in said' : x[1] = y[1] => x = y
        BY <3>7, <4>3 DEF ArrivedInv
      <4> QED
        BY <3>3, <4>2, <4>4 DEF ArrivedInv
    <3> QED
      BY <1>3, <2>2, <3>6, <3>7 DEF Send
  <2> QED
    BY <1>1, <1>3, <2>2 DEF Send
<1>4. ASSUME NEW c \in Chat, Activate(c) PROVE ArrivedInv'
  BY <1>1, <1>4 DEF Activate, Write
<1>5. CASE Disable
  BY <1>1, <1>5 DEF Disable, Write
<1>6. ASSUME NEW u \in Update, GrowLate(u) \/ Progress(u) PROVE ArrivedInv'
  BY <1>1, <1>6 DEF GrowLate, Progress
<1>7. CASE Post \/ Crash \/ EndTick \/ CloseOrphan \/ Settle \/ NextReply
  BY <1>1, <1>7 DEF Post, Crash, EndTick, CloseOrphan, Settle, NextReply
<1>8. CASE StartTick \/ OrphansClosed \/ Poll \/ Polled \/ NextUpdate
  BY <1>1, <1>8 DEF StartTick, OrphansClosed, Poll, Polled, NextUpdate
<1>9. CASE Ignore \/ Submit \/ WriteReceipt \/ WriteOffset
  BY <1>1, <1>9 DEF Ignore, Submit, WriteReceipt, WriteOffset
<1>10. CASE UNCHANGED vars
  BY <1>1, <1>10 DEF vars
<1> QED
  BY <1>2, <1>3, <1>4, <1>5, <1>6, <1>7, <1>8, <1>9, <1>10 DEF Next, Tick, World

-----------------------------------------------------------------------------
(* The theorems                                                            *)

LEMMA Invariance == Spec => []Inv
<1>1. Inv /\ [Next]_vars => Inv'
  BY TypeStep, BatchStep, CurStep, EventStep, SendingStep, ArrivedStep
  DEF Inv, ReplyInv
<1> QED
  BY InitInv, <1>1, PTL DEF Spec

\* Every variable keeps its type, for any requests, chats, limits and settings
\* to start from: the offset never passes what Telegram holds, and the replies on
\* record are replies to updates.
THEOREM TypeCorrect == Spec => []TypeOK
<1>1. Inv => TypeOK
  BY DEF Inv
<1> QED
  BY Invariance, <1>1, PTL

\* Moving the offset loses no request and repeats none, wherever a tick is killed
\* between the event, its receipt and the offset (services/plan_command.py).
THEOREM NothingLostOrRepeated == Spec => []OneEventPerRequest
<1>1. Inv => OneEventPerRequest
  <2> SUFFICES ASSUME Inv PROVE OneEventPerRequest
    OBVIOUS
  <2>1. \A u \in 1 .. offset - 1 : Handled(u)
    BY DEF Inv, EventInv
  <2>2. \A u \in Update : submitted[u] <= 1
    BY DEF Inv, EventInv
  <2> QED
    BY <2>1, <2>2 DEF OneEventPerRequest, Handled
<1> QED
  BY Invariance, <1>1, PTL

\* A chat is told once, and one thing, whatever the calls of the bot answer and
\* wherever a tick is killed around them (services/plan_delivery.py, send_once).
THEOREM ToldOnce == Spec => []OneReplyEach
<1>1. Inv => OneReplyEach
  <2> SUFFICES ASSUME Inv PROVE OneReplyEach
    OBVIOUS
  <2>1. ArrivedInv
    BY DEF Inv, ReplyInv
  <2>2. \A u : <<u, "PLAN">> \in said /\ <<u, "FAILURE_NOTICE">> \in said => FALSE
    BY <2>1 DEF ArrivedInv
  <2> QED
    BY <2>1, <2>2 DEF OneReplyEach, ArrivedInv
<1> QED
  BY Invariance, <1>1, PTL

-----------------------------------------------------------------------------
(* A reply is published once                                               *)

LEMMA PromiseInit == Init => \A k \in Key : Once(k)!Init
BY DEF Init, Once!Init, Copies

LEMMA NoCopies == [chunk : {1}, nth : 1 .. 0] = {}
OBVIOUS

LEMMA OneCopy == [chunk : {1}, nth : 1 .. 1] = {[chunk |-> 1, nth |-> 1]}
<1>1. ASSUME NEW m \in [chunk : {1}, nth : 1 .. 1] PROVE m = [chunk |-> 1, nth |-> 1]
  <2>1. m.chunk = 1 /\ m.nth = 1
    OBVIOUS
  <2> QED
    BY <2>1
<1>2. [chunk |-> 1, nth |-> 1] \in [chunk : {1}, nth : 1 .. 1]
  OBVIOUS
<1> QED
  BY <1>1, <1>2

LEMMA CopiesType ==
  ASSUME NEW k
  PROVE  /\ arrived[k] = 0 => Copies(k) = {}
         /\ arrived[k] = 1 => Copies(k) = {[chunk |-> 1, nth |-> 1]}
BY NoCopies, OneCopy DEF Copies

LEMMA SeenType ==
  ASSUME NEW k
  PROVE  /\ arrived[k] = 0 => Once(k)!Seen = {}
         /\ arrived[k] = 1 => Once(k)!Seen = {1}
<1>1. Once(k)!Seen = {m.chunk : m \in Copies(k)}
  BY DEF Once!Seen
<1>2. {m.chunk : m \in {}} = {}
  OBVIOUS
<1>3. {m.chunk : m \in {[chunk |-> 1, nth |-> 1]}} = {1}
  OBVIOUS
<1> QED
  BY <1>1, <1>2, <1>3, CopiesType

LEMMA PromiseStep ==
  Inv /\ [Next]_vars => \A k \in Key : [Once(k)!Next]_(Once(k)!vars)
<1> SUFFICES ASSUME Inv, [Next]_vars, NEW k \in Key
             PROVE  [Once(k)!Next]_(Once(k)!vars)
  OBVIOUS
<1> DEFINE Still == /\ arrived'[k] = arrived[k] /\ result'[k] = result[k]
                    /\ (k \in intent') <=> (k \in intent)
<1> USE DEF storeVars, replyVars, chatVars, worldVars, eventVars, tickVars, Goto
<1>1. CASE Still
  BY <1>1 DEF Once!vars, Copies
<1>2. TypeOK /\ SendingInv /\ ArrivedInv
  BY DEF Inv, ReplyInv
<1>3. CASE Reserve
  <2>1. CASE k = key /\ ~ Owned(key)
    <3>1. k \notin intent /\ result[k] = "NONE"
      BY <2>1 DEF Owned
    <3>2. k \in intent' /\ result' = result /\ arrived' = arrived
      BY <1>3, <2>1 DEF Reserve
    <3>3. Once(k)!Begin
      BY <3>1, <3>2 DEF Once!Begin, Copies
    <3> QED
      BY <3>3 DEF Once!Next
  <2> QED
    BY <1>1, <1>3, <2>1 DEF Reserve
<1>4. CASE Send
  <2>1. CASE k = key /\ arrived' = [arrived EXCEPT ![key] = @ + 1]
    <3>1. k \in intent /\ result[k] = "NONE" /\ arrived[k] = 0
      BY <1>2, <1>4, <2>1 DEF Send, SendingInv
    <3>2. arrived'[k] = 1 /\ intent' = intent /\ result' = result
      BY <1>2, <1>4, <2>1, <3>1 DEF Send, TypeOK
    <3>3. Copies(k) = {} /\ Copies(k)' = {[chunk |-> 1, nth |-> 1]}
      BY <3>1, <3>2, NoCopies, OneCopy DEF Copies
    <3>4. [chunk |-> 1, nth |-> 1] \in [chunk : {1}, nth : 1 .. 2]
      OBVIOUS
    <3>5. Once(k)!Seen = 1 .. [chunk |-> 1, nth |-> 1].chunk - 1
      BY <3>1, SeenType
    <3>6. Once(k)!Deliver
      BY <3>1, <3>2, <3>3, <3>4, <3>5 DEF Once!Deliver
    <3> QED
      BY <3>6 DEF Once!Next
  <2>2. CASE k # key \/ arrived' = arrived
    BY <1>1, <1>2, <1>4, <2>2 DEF Send, TypeOK, SendingInv, Replying
  <2> QED
    BY <1>4, <2>1, <2>2 DEF Send
<1>5. CASE Settle
  <2>1. CASE k = key
    <3>1. /\ k \in intent /\ result[k] = "NONE" /\ status # "SKIPPED"
          /\ status = "DELIVERED" => arrived[k] = 1
          /\ status = "FAILED" => arrived[k] = 0
      BY <1>2, <1>5, <2>1 DEF Settle, SendingInv
    <3>2. result'[k] = status /\ intent' = intent /\ arrived' = arrived
      BY <1>2, <1>5, <2>1 DEF Settle, Settled, TypeOK
    <3>3. status \in {"DELIVERED", "FAILED", "UNCERTAIN"}
      BY <1>2, <3>1 DEF TypeOK, Delivery
    <3>4. Once(k)!Close
      BY <3>1, <3>2, <3>3, SeenType DEF Once!Close, Copies
    <3> QED
      BY <3>4 DEF Once!Next
  <2> QED
    BY <1>1, <1>2, <1>5, <2>1 DEF Settle, Settled, TypeOK
<1>6. CASE CloseOrphan
  <2>1. PICK j \in Orphans : result' = [result EXCEPT ![j] = "UNCERTAIN"]
    BY <1>6 DEF CloseOrphan, Settled
  <2>2. intent' = intent /\ arrived' = arrived
    BY <1>6 DEF CloseOrphan
  <2>3. CASE k = j
    <3>1. k \in intent /\ result[k] = "NONE" /\ result'[k] = "UNCERTAIN"
      BY <1>2, <2>1, <2>3 DEF Orphans, TypeOK
    <3>2. Once(k)!Close
      BY <2>2, <3>1 DEF Once!Close, Copies
    <3> QED
      BY <3>2 DEF Once!Next
  <2> QED
    BY <1>1, <1>2, <2>1, <2>2, <2>3 DEF TypeOK
<1>7. CASE NextReply
  <2>1. arrived' = arrived /\ intent' = intent
    BY <1>7 DEF NextReply
  <2>2. CASE result' = result
    BY <1>1, <2>1, <2>2
  <2>3. CASE ~ Owned(<<Oldest(todo), "response">>)
             /\ result' = [result EXCEPT ![<<Oldest(todo), "response">>] = "SKIPPED"]
    <3>1. CASE k = <<Oldest(todo), "response">>
      <4>1. k \notin intent /\ result[k] = "NONE" /\ result'[k] = "SKIPPED"
        BY <1>2, <2>3, <3>1 DEF Owned, TypeOK
      <4> QED
        BY <2>1, <4>1 DEF Once!vars, Copies
    <3> QED
      BY <1>1, <1>2, <2>1, <2>3, <3>1 DEF TypeOK
  <2> QED
    BY <1>7, <2>2, <2>3 DEF NextReply, Settled
<1>8. ASSUME NEW c \in Chat, Activate(c) PROVE Still
  BY <1>8 DEF Activate, Write
<1>9. CASE Disable
  BY <1>1, <1>9 DEF Disable, Write
<1>10. ASSUME NEW u \in Update, GrowLate(u) \/ Progress(u) PROVE Still
  BY <1>10 DEF GrowLate, Progress
<1>11. CASE Post \/ Crash \/ EndTick
  BY <1>1, <1>11 DEF Post, Crash, EndTick
<1>12. CASE StartTick \/ OrphansClosed \/ Poll \/ Polled \/ NextUpdate
  BY <1>1, <1>12 DEF StartTick, OrphansClosed, Poll, Polled, NextUpdate
<1>13. CASE Ignore \/ Submit \/ WriteReceipt \/ WriteOffset
  BY <1>1, <1>13 DEF Ignore, Submit, WriteReceipt, WriteOffset
<1>14. CASE UNCHANGED vars
  BY <1>1, <1>14 DEF vars
<1> HIDE DEF Still
<1> QED
  BY <1>1, <1>3, <1>4, <1>5, <1>6, <1>7, <1>8, <1>9, <1>10, <1>11, <1>12, <1>13,
     <1>14
  DEF Next, Tick, World

\* Each reply keeps the promise PublishOnce makes: recorded before it reaches
\* anybody, made once, and its recorded outcome true of what the chat can see.
THEOREM RepliesArePublishedOnce == Spec => RepliesKeepPromise
<1>1. Inv /\ [Next]_vars => \A k \in Key : [Once(k)!Next]_(Once(k)!vars)
  BY PromiseStep
<1>2. [Next]_vars /\ Inv => [\A k \in Key : [Once(k)!Next]_(Once(k)!vars)]_vars
  BY <1>1
<1> QED
  BY <1>2, PromiseInit, Invariance, PTL DEF Spec, RepliesKeepPromise

(***************************************************************************)
(* Theorems of TradePlan, for any candidates, price, ranking and counts:    *)
(* what is shown of a side is what the analyst's order and the geometry     *)
(* leave, and what a plan shows is no reason to refuse the page.            *)
(*                                                                         *)
(* The invariant is small (SelectionInv: the selection at hand is that of   *)
(* an accepted ranking); the weight is in what Select returns.  No          *)
(* induction theorem of the library can be used, so each loop is followed   *)
(* by its least turn that goes wrong (LeastElement), and the recursive      *)
(* functions and the sorted list, which the model chooses, are shown to     *)
(* exist (TurnsExist, OneLineSays, OrderExists).                            *)
(***************************************************************************)

-----------------------------------------------------------------------------
(* Numbers and orders *)

\* A sequence goes through a set along a relation.
Along(s, T, R) ==
  /\ s \in [1 .. Cardinality(T) -> T]
  /\ \A x \in T : \E n \in 1 .. Cardinality(T) : s[n] = x
  /\ \A m, n \in 1 .. Cardinality(T) : m < n => <<s[m], s[n]>> \in R

Orderable(T, R) == \E s : Along(s, T, R)

\* The last element of a set, and an order of the others, are an order of it.
LEMMA OrderExtends ==
  ASSUME NEW T, IsFiniteSet(T), NEW R, NEW last \in T,
         \A x \in T \ {last} : <<x, last>> \in R, Orderable(T \ {last}, R)
  PROVE  Orderable(T, R)
<1>1. PICK s : Along(s, T \ {last}, R)
  BY DEF Orderable
<1> DEFINE k == Cardinality(T)
           t == [n \in 1 .. k |-> IF n = k THEN last ELSE s[n]]
<1>2. k \in Nat \ {0} /\ Cardinality(T \ {last}) = k - 1
  BY FS_RemoveElement, FS_CardinalityType, FS_EmptySet
<1> HIDE DEF k
<1>3. /\ s \in [1 .. k - 1 -> T \ {last}]
      /\ \A x \in T \ {last} : \E n \in 1 .. k - 1 : s[n] = x
      /\ \A m, n \in 1 .. k - 1 : m < n => <<s[m], s[n]>> \in R
  BY <1>1, <1>2 DEF Along
<1>4. t \in [1 .. k -> T]
  BY <1>2, <1>3
<1>5. ASSUME NEW x \in T PROVE \E n \in 1 .. k : t[n] = x
  <2>1. CASE x = last
    BY <1>2, <2>1
  <2>2. CASE x # last
    <3>1. PICK n \in 1 .. k - 1 : s[n] = x
      BY <1>3, <2>2
    <3>2. n \in 1 .. k /\ t[n] = x
      BY <1>2, <3>1
    <3> QED
      BY <3>2
  <2> QED
    BY <2>1, <2>2
<1>6. ASSUME NEW m \in 1 .. k, NEW n \in 1 .. k, m < n PROVE <<t[m], t[n]>> \in R
  <2>1. m \in 1 .. k - 1 /\ t[m] = s[m] /\ s[m] \in T \ {last}
    BY <1>2, <1>3, <1>6
  <2>2. CASE n = k
    BY <2>1, <2>2
  <2>3. CASE n # k
    <3>1. n \in 1 .. k - 1 /\ t[n] = s[n]
      BY <1>2, <2>3
    <3> QED
      BY <1>3, <1>6, <2>1, <3>1
  <2> QED
    BY <2>2, <2>3
<1>7. Along(t, T, R)
  <2> HIDE DEF t
  <2> QED
    BY <1>4, <1>5, <1>6 DEF Along, k
<1> QED
  BY <1>7 DEF Orderable

\* Every finite set has an order along a relation that is total on it and
\* transitive.
LEMMA OrderExists ==
  ASSUME NEW S, IsFiniteSet(S), NEW R,
         \A x, y \in S : x # y => <<x, y>> \in R \/ <<y, x>> \in R,
         \A x, y, z \in S : <<x, y>> \in R /\ <<y, z>> \in R => <<x, z>> \in R
  PROVE  Orderable(S, R)
<1> SUFFICES ASSUME ~Orderable(S, R) PROVE FALSE
  OBVIOUS
<1> DEFINE Bad == {T \in SUBSET S : ~Orderable(T, R)}
           K == {Cardinality(T) : T \in Bad}
<1>1. \A T \in SUBSET S : IsFiniteSet(T) /\ Cardinality(T) \in Nat
  BY FS_Subset, FS_CardinalityType
<1>2. PICK k \in K : \A m \in K : k <= m
  <2>1. K \subseteq Nat /\ K # {}
    BY <1>1
  <2> HIDE DEF K
  <2> QED
    BY <2>1, LeastElement
<1>3. PICK T \in Bad : Cardinality(T) = k
  OBVIOUS
<1>4. ASSUME NEW x \in T PROVE Orderable(T \ {x}, R)
  <2>1. Cardinality(T \ {x}) = k - 1 /\ k \in Nat
    BY <1>1, <1>3, FS_RemoveElement
  <2>2. T \ {x} \notin Bad
    BY <1>2, <2>1
  <2> QED
    BY <2>2
<1>5. T # {}
  <2> SUFFICES ASSUME T = {} PROVE Orderable({}, R)
    BY <1>3
  <2>1. Cardinality({}) = 0
    BY FS_EmptySet
  <2>2. Along([n \in 1 .. 0 |-> 0], {}, R)
    BY <2>1 DEF Along
  <2> QED
    BY <2>2 DEF Orderable
<1>6. PICK x \in T : TRUE
  BY <1>5
<1>7. \E last \in T : \A z \in T \ {last} : <<z, last>> \in R
  <2>1. CASE T \ {x} = {}
    BY <2>1
  <2>2. CASE T \ {x} # {}
    <3> DEFINE c == Cardinality(T \ {x})
    <3>1. PICK s : Along(s, T \ {x}, R)
      BY <1>4 DEF Orderable
    <3>2. c \in Nat \ {0}
      BY <1>1, <2>2, FS_RemoveElement, FS_EmptySet
    <3> HIDE DEF c
    <3>3. /\ s \in [1 .. c -> T \ {x}]
          /\ \A z \in T \ {x} : \E n \in 1 .. c : s[n] = z
          /\ \A m, n \in 1 .. c : m < n => <<s[m], s[n]>> \in R
      BY <3>1 DEF Along, c
    <3> DEFINE y == s[c]
    <3>4. y \in T \ {x} /\ \A z \in T \ {x, y} : <<z, y>> \in R
      <4>1. y \in T \ {x}
        BY <3>2, <3>3
      <4>2. ASSUME NEW z \in T \ {x, y} PROVE <<z, y>> \in R
        <5>1. PICK n \in 1 .. c : s[n] = z
          BY <3>3
        <5>2. n < c
          BY <3>2, <5>1
        <5> QED
          BY <3>2, <3>3, <5>1, <5>2
      <4> QED
        BY <4>1, <4>2
    <3> HIDE DEF y
    <3>5. CASE <<y, x>> \in R
      <4>1. \A z \in T \ {x} : <<z, x>> \in R
        BY <1>3, <3>4, <3>5
      <4> QED
        BY <4>1
    <3>6. CASE <<y, x>> \notin R
      <4>1. <<x, y>> \in R
        BY <1>3, <3>4, <3>6
      <4> QED
        BY <3>4, <4>1
    <3> QED
      BY <3>5, <3>6
  <2> QED
    BY <2>1, <2>2
<1>8. Orderable(T, R)
  BY <1>1, <1>3, <1>4, <1>7, OrderExtends
<1> QED
  BY <1>3, <1>8

\* What runs through a finite set without repetition reaches all of it.
LEMMA OrdersReachAll ==
  ASSUME NEW S, IsFiniteSet(S), NEW s \in Orders(S)
  PROVE  Len(s) = Cardinality(S) /\ s \in Seq(S) /\ Distinct(s) /\ Values(s) = S
<1> DEFINE k == Cardinality(S)
<1>1. k \in Nat
  BY FS_CardinalityType
<1>2. s \in [1 .. k -> S] /\ Distinct(s)
  BY DEF Orders
<1>3. IsFiniteSet(1 .. k) /\ Cardinality(1 .. k) = k
  BY <1>1, FS_Interval
<1> HIDE DEF k
<1>4. s \in Seq(S) /\ Len(s) = k
  BY <1>1, <1>2
<1>5. s \in Injection(1 .. k, S)
  BY <1>2, <1>4 DEF Distinct, Injection, IsInjective
<1>6. s \in Surjection(1 .. k, S)
  BY <1>3, <1>5, FS_Injection DEF k
<1> QED
  BY <1>2, <1>4, <1>6 DEF Values, Surjection, k

\* What goes through a set along a relation nothing has with itself is an order.
LEMMA AlongIsOrder ==
  ASSUME NEW S, IsFiniteSet(S), NEW R, NEW s, Along(s, S, R),
         \A x \in S : <<x, x>> \notin R
  PROVE  s \in Orders(S) /\ \A m, n \in 1 .. Len(s) : m < n => <<s[m], s[n]>> \in R
<1>1. Cardinality(S) \in Nat
  BY FS_CardinalityType
<1>2. /\ s \in [1 .. Cardinality(S) -> S]
      /\ \A m, n \in 1 .. Cardinality(S) : m < n => <<s[m], s[n]>> \in R
  BY DEF Along
<1>3. Len(s) = Cardinality(S)
  BY <1>1, <1>2
<1>4. Distinct(s)
  <2> SUFFICES ASSUME NEW m \in 1 .. Len(s), NEW n \in 1 .. Len(s), m # n, s[m] = s[n]
               PROVE  FALSE
    BY DEF Distinct
  <2>1. m < n \/ n < m
    BY <1>1, <1>3
  <2>2. <<s[m], s[m]>> \in R /\ s[m] \in S
    BY <1>2, <1>3, <2>1
  <2> QED
    BY <2>2
<1> QED
  BY <1>2, <1>3, <1>4 DEF Orders

-----------------------------------------------------------------------------
(* The loop over a side's ranking *)

\* One turn of _select_side, of the zone ranked n.
Turn(ranked, entries, n) ==
  IF Taken(entries, ranked[n])
  THEN Append(entries, [zone |-> ranked[n], rank |-> n])
  ELSE entries

\* What the loop has after each turn.
Turns(ranked, after, k) ==
  after = [n \in 0 .. k |-> IF n = 0 THEN <<>> ELSE Turn(ranked, after[n - 1], n)]

LEMMA TurnsExist ==
  ASSUME NEW ranked, NEW k \in Nat
  PROVE  \E after : Turns(ranked, after, k)
<1> DEFINE K == {n \in Nat : ~\E after : Turns(ranked, after, n)}
<1> SUFFICES ASSUME K # {} PROVE FALSE
  OBVIOUS
<1>1. PICK n \in K : \A m \in K : n <= m
  <2> HIDE DEF K
  <2> QED
    BY LeastElement DEF K
<1>2. n # 0
  <2>1. Turns(ranked, [m \in 0 .. 0 |-> <<>>], 0)
    BY DEF Turns
  <2> QED
    BY <2>1
<1>3. PICK before : Turns(ranked, before, n - 1)
  BY <1>1, <1>2
<1> DEFINE after == [m \in 0 .. n |-> IF m = n THEN Turn(ranked, before[n - 1], n)
                                              ELSE before[m]]
<1>4. ASSUME NEW m \in 0 .. n
      PROVE  after[m] = IF m = 0 THEN <<>> ELSE Turn(ranked, after[m - 1], m)
  <2>1. CASE m = n
    BY <1>2, <2>1
  <2>2. CASE m # n
    <3>1. m \in 0 .. n - 1
      BY <2>2
    <3>2. before[m] = IF m = 0 THEN <<>> ELSE Turn(ranked, before[m - 1], m)
      BY <1>3, <3>1 DEF Turns
    <3>3. m # 0 => after[m - 1] = before[m - 1]
      BY <3>1
    <3> QED
      BY <2>2, <3>2, <3>3
  <2> QED
    BY <2>1, <2>2
<1>5. Turns(ranked, after, n)
  <2>1. after = [m \in 0 .. n |-> after[m]]
    OBVIOUS
  <2> HIDE DEF after
  <2> QED
    BY <1>4, <2>1 DEF Turns
<1> QED
  BY <1>5

\* What the loop has after n turns: the zones it took, in the order of their
\* rank, none nested with another; and why it left each of the others.
SoFar(ranked, n, E) ==
  /\ E \in Seq([zone : Menu, rank : Nat])
  /\ Len(E) <= MaxZones
  /\ \A j \in 1 .. Len(E) : E[j].rank \in 1 .. n /\ E[j].zone = ranked[E[j].rank]
  /\ \A i, j \in 1 .. Len(E) : i < j => E[i].rank < E[j].rank
  /\ \A i, j \in 1 .. Len(E) : i # j => ~Redundant(E[i].zone, E[j].zone)
  /\ \A m \in 1 .. n :
       \/ \E j \in 1 .. Len(E) : E[j].rank = m
       \/ \E j \in 1 .. Len(E) : E[j].rank < m /\ Redundant(ranked[m], E[j].zone)
       \/ Len(E) = MaxZones /\ \A j \in 1 .. Len(E) : E[j].rank < m
  /\ n > 0 => Len(E) > 0 /\ E[1].rank = 1

LEMMA TurnKeeps ==
  ASSUME NEW ranked \in Seq(Menu), NEW n \in 1 .. Len(ranked), NEW E,
         SoFar(ranked, n - 1, E)
  PROVE  SoFar(ranked, n, Turn(ranked, E, n))
<1> USE CountAssumption
<1> DEFINE e == [zone |-> ranked[n], rank |-> n]
<1>1. ranked[n] \in Menu /\ n \in Nat /\ Len(ranked) \in Nat
  OBVIOUS
<1>2. E \in Seq([zone : Menu, rank : Nat]) /\ Len(E) \in Nat
  BY DEF SoFar
<1>3. CASE ~Taken(E, ranked[n])
  <2>1. Turn(ranked, E, n) = E
    BY <1>3 DEF Turn
  <2>2. \/ Len(E) = MaxZones
        \/ \E j \in 1 .. Len(E) : Redundant(ranked[n], E[j].zone)
    BY <1>2, <1>3 DEF Taken, SoFar
  <2>3. \A j \in 1 .. Len(E) : E[j].rank < n /\ E[j].rank \in 1 .. n
    BY <1>1 DEF SoFar
  <2>4. Len(E) > 0 /\ E[1].rank = 1
    <3>1. CASE n - 1 > 0
      BY <3>1 DEF SoFar
    <3>2. CASE ~(n - 1 > 0)
      BY <1>2, <2>2, <2>3, <3>2
    <3> QED
      BY <3>1, <3>2
  <2>5. ASSUME NEW m \in 1 .. n
        PROVE  \/ \E j \in 1 .. Len(E) : E[j].rank = m
               \/ \E j \in 1 .. Len(E) : E[j].rank < m /\ Redundant(ranked[m], E[j].zone)
               \/ Len(E) = MaxZones /\ \A j \in 1 .. Len(E) : E[j].rank < m
    <3>1. CASE m = n
      BY <2>2, <2>3, <3>1
    <3>2. CASE m # n
      <4>1. m \in 1 .. n - 1
        BY <3>2
      <4> QED
        BY <4>1 DEF SoFar
    <3> QED
      BY <3>1, <3>2
  <2> QED
    BY <1>2, <2>1, <2>3, <2>4, <2>5 DEF SoFar
<1>4. CASE Taken(E, ranked[n])
  <2> DEFINE F == Append(E, e)
  <2>1. Turn(ranked, E, n) = F
    BY <1>4 DEF Turn
  <2>2. /\ F \in Seq([zone : Menu, rank : Nat])
        /\ Len(F) = Len(E) + 1 /\ F[Len(E) + 1] = e
        /\ \A j \in 1 .. Len(E) : F[j] = E[j]
    BY <1>1, <1>2
  <2>3. e.zone = ranked[n] /\ e.rank = n
    OBVIOUS
  <2>4. \A j \in 1 .. Len(E) : E[j].rank \in 1 .. n - 1 /\ E[j].zone = ranked[E[j].rank]
    BY DEF SoFar
  <2>5. Len(E) < MaxZones /\ \A j \in 1 .. Len(E) : ~Redundant(ranked[n], E[j].zone)
    BY <1>4 DEF Taken
  <2> HIDE DEF F, e
  <2>6. \A j \in 1 .. Len(F) : j \in 1 .. Len(E) \/ j = Len(E) + 1
    BY <1>2, <2>2
  <2>7. \A j \in 1 .. Len(F) : F[j].rank \in 1 .. n /\ F[j].zone = ranked[F[j].rank]
    BY SMTT(30), <1>1, <2>2, <2>3, <2>4, <2>6
  <2>8. \A i, j \in 1 .. Len(F) : i < j => F[i].rank < F[j].rank
    <3>1. \A i, j \in 1 .. Len(E) : i < j => E[i].rank < E[j].rank
      BY DEF SoFar
    <3>2. ASSUME NEW i \in 1 .. Len(F), NEW j \in 1 .. Len(F), i < j
          PROVE  F[i].rank < F[j].rank
      <4>1. i \in 1 .. Len(E)
        BY <1>2, <2>2, <3>2
      <4>2. CASE j \in 1 .. Len(E)
        BY <2>2, <3>1, <3>2, <4>1, <4>2
      <4>3. CASE j = Len(E) + 1
        BY <1>1, <2>2, <2>3, <2>4, <4>1, <4>3
      <4> QED
        BY <2>6, <4>2, <4>3
    <3> QED
      BY <3>2
  <2>9. \A i, j \in 1 .. Len(F) : i # j => ~Redundant(F[i].zone, F[j].zone)
    <3>1. \A i, j \in 1 .. Len(E) : i # j => ~Redundant(E[i].zone, E[j].zone)
      BY DEF SoFar
    <3>2. \A j \in 1 .. Len(E) : ~Redundant(E[j].zone, e.zone) /\ ~Redundant(e.zone, E[j].zone)
      BY <2>3, <2>5 DEF Redundant
    <3> QED
      BY <2>2, <2>6, <3>1, <3>2
  <2>10. ASSUME NEW m \in 1 .. n
         PROVE  \/ \E j \in 1 .. Len(F) : F[j].rank = m
                \/ \E j \in 1 .. Len(F) : F[j].rank < m /\ Redundant(ranked[m], F[j].zone)
    <3>0. Len(E) + 1 \in 1 .. Len(F) /\ \A j \in 1 .. Len(E) : j \in 1 .. Len(F)
      BY <1>2, <2>2
    <3>1. CASE m = n
      BY <2>2, <2>3, <3>0, <3>1
    <3>2. CASE m # n
      <4>1. m \in 1 .. n - 1
        BY <3>2
      <4>2. \/ \E j \in 1 .. Len(E) : E[j].rank = m
            \/ \E j \in 1 .. Len(E) : E[j].rank < m /\ Redundant(ranked[m], E[j].zone)
        <5>1. Len(E) # MaxZones
          BY <1>2, <2>5
        <5> QED
          BY <4>1, <5>1 DEF SoFar
      <4> QED
        BY <2>2, <3>0, <4>2
    <3> QED
      BY <3>1, <3>2
  <2>11. Len(F) > 0 /\ F[1].rank = 1
    <3>1. CASE n - 1 > 0
      BY <1>2, <2>2, <3>1 DEF SoFar
    <3>2. CASE ~(n - 1 > 0)
      <4>1. n = 1
        BY <3>2
      <4>2. Len(E) = 0
        BY <1>2, <2>4, <4>1
      <4> QED
        BY <2>2, <2>3, <4>1, <4>2
    <3> QED
      BY <3>1, <3>2
  <2>12. Len(F) <= MaxZones
    BY <1>2, <2>2, <2>5
  <2> QED
    BY <2>1, <2>2, <2>7, <2>8, <2>9, <2>10, <2>11, <2>12 DEF SoFar
<1> QED
  BY <1>3, <1>4

\* What _select_side returns.
LEMMA SideSelected ==
  ASSUME NEW ranked \in Seq(Menu)
  PROVE  SoFar(ranked, Len(ranked), SelectSide(ranked))
<1> DEFINE L == Len(ranked)
           after == CHOOSE f : Turns(ranked, f, L)
<1>1. SelectSide(ranked) = after[L]
  BY DEF SelectSide, Turns, Turn
<1>2. L \in Nat
  OBVIOUS
<1>3. Turns(ranked, after, L)
  BY <1>2, TurnsExist
<1> HIDE DEF after
<1>4. \A n \in 0 .. L :
        after[n] = IF n = 0 THEN <<>> ELSE Turn(ranked, after[n - 1], n)
  BY <1>3 DEF Turns
<1> DEFINE Bad == {n \in 0 .. L : ~SoFar(ranked, n, after[n])}
<1>5. Bad = {}
  <2> SUFFICES ASSUME Bad # {} PROVE FALSE
    OBVIOUS
  <2>1. PICK n \in Bad : \A m \in Bad : n <= m
    <3>1. Bad \subseteq Nat
      OBVIOUS
    <3> HIDE DEF Bad
    <3> QED
      BY <3>1, LeastElement
  <2>2. n \in 0 .. L
    OBVIOUS
  <2>3. CASE n = 0
    <3>1. after[0] = <<>>
      BY <1>2, <1>4
    <3>2. SoFar(ranked, 0, <<>>)
      BY CountAssumption DEF SoFar
    <3> QED
      BY <2>3, <3>1, <3>2
  <2>4. CASE n # 0
    <3>1. n - 1 \in 0 .. L /\ n \in 1 .. L
      BY <1>2, <2>2, <2>4
    <3>2. SoFar(ranked, n - 1, after[n - 1])
      BY <2>1, <3>1
    <3>3. SoFar(ranked, n, after[n])
      BY <1>4, <2>2, <2>4, <3>1, <3>2, TurnKeeps
    <3> QED
      BY <3>3
  <2> QED
    BY <2>3, <2>4
<1> QED
  BY <1>1, <1>2, <1>5

-----------------------------------------------------------------------------
(* The list of a side *)

\* The order of display is one: no zone is before itself, it is transitive, and
\* two zones it does not separate have the same edges.
LEMMA ShownOrders ==
  ASSUME NEW side \in Sides
  PROVE  /\ \A a \in Menu : ~Shown(side, a, a)
         /\ \A a, b \in Menu : Shown(side, a, b) \/ Shown(side, b, a) \/ Redundant(a, b)
         /\ \A a, b, c \in Menu :
              Shown(side, a, b) /\ Shown(side, b, c) => Shown(side, a, c)
<1>1. \A a \in Menu : a.lower \in Int /\ a.upper \in Int /\ Distance(a) \in Int
  BY MenuAssumption DEF Distance
<1>2. CASE side = "SEO"
  BY <1>1, <1>2 DEF Shown, Redundant, Contains
<1>3. CASE side = "BAI"
  BY <1>1, <1>3 DEF Shown, Redundant, Contains
<1> QED
  BY <1>2, <1>3 DEF Sides

\* What the loop took are ranked candidates.
LEMMA TakenTypes ==
  ASSUME NEW ranked, NEW n, NEW E, SoFar(ranked, n, E)
  PROVE  /\ Len(E) \in Nat
         /\ \A j \in 1 .. Len(E) : E[j].zone \in Menu /\ E[j].rank \in Nat
<1> DEFINE T == [zone : Menu, rank : Nat]
<1>1. E \in Seq(T)
  BY DEF SoFar
<1>2. Len(E) \in Nat /\ \A j \in 1 .. Len(E) : E[j] \in T
  <2> HIDE DEF T
  <2> QED
    BY <1>1
<1> QED
  BY <1>2

Entry == [zone : Menu, rank : Nat, main : BOOLEAN]

\* _label_main marks the first the loop took.
LEMMA LabelsAre ==
  ASSUME NEW ranked \in Seq(Menu), NEW E, SoFar(ranked, Len(ranked), E)
  PROVE  /\ Labelled(E) \in Seq(Entry)
         /\ Len(Labelled(E)) = Len(E)
         /\ \A j \in 1 .. Len(E) :
              Labelled(E)[j] = [zone |-> E[j].zone, rank |-> E[j].rank, main |-> j = 1]
<1>1. /\ Len(E) \in Nat
      /\ \A j \in 1 .. Len(E) : E[j].zone \in Menu /\ E[j].rank \in Nat
  BY TakenTypes
<1>2. ASSUME NEW j \in 1 .. Len(E)
      PROVE  (\A m \in 1 .. Len(E) : E[j].rank <= E[m].rank) <=> j = 1
  <2>1. \A m \in 1 .. Len(E) : E[m].rank \in Nat
    BY <1>1
  <2>2. 1 \in 1 .. Len(E)
    BY <1>1
  <2>3. CASE j = 1
    BY <1>1, <2>1, <2>3 DEF SoFar
  <2>4. CASE j # 1
    <3>1. E[1].rank < E[j].rank
      BY <1>1, <2>2, <2>4 DEF SoFar
    <3> QED
      BY <2>1, <2>2, <2>4, <3>1
  <2> QED
    BY <2>3, <2>4
<1> DEFINE l(j) == [zone |-> E[j].zone, rank |-> E[j].rank, main |-> j = 1]
<1>3. Labelled(E) = [j \in 1 .. Len(E) |-> l(j)]
  BY <1>2 DEF Labelled
<1>4. \A j \in 1 .. Len(E) : l(j) \in Entry
  BY <1>1 DEF Entry
<1> HIDE DEF l
<1>5. Labelled(E) \in Seq(Entry) /\ Len(Labelled(E)) = Len(E)
  BY <1>1, <1>3, <1>4
<1> QED
  BY <1>3, <1>5 DEF l

\* What is listed of a side: all the loop took, each once, in the order shown.
Listing(side, list, labelled) ==
  /\ list \in Seq(Entry)
  /\ Len(list) = Len(labelled)
  /\ Distinct(list)
  /\ Values(list) = Values(labelled)
  /\ \A m, n \in 1 .. Len(list) : m < n => Shown(side, list[m].zone, list[n].zone)

LEMMA ListIs ==
  ASSUME NEW side \in Sides, NEW ranked \in Seq(Menu), NEW E,
         SoFar(ranked, Len(ranked), E)
  PROVE  Listing(side, DisplayOrder(side, Labelled(E)), Labelled(E))
<1> DEFINE lab == Labelled(E)
           S == Values(lab)
           R == {p \in S \X S : Shown(side, p[1].zone, p[2].zone)}
           k == Len(E)
<1>1. k \in Nat /\ \A j \in 1 .. k : E[j].zone \in Menu /\ E[j].rank \in Nat
  BY TakenTypes
<1>2. /\ lab \in Seq(Entry) /\ Len(lab) = k
      /\ \A j \in 1 .. k : lab[j] = [zone |-> E[j].zone, rank |-> E[j].rank, main |-> j = 1]
  BY LabelsAre
<1> HIDE DEF lab, k
<1>3. \A j \in 1 .. k : /\ lab[j] \in Entry /\ lab[j].zone \in Menu
                        /\ lab[j].zone = E[j].zone /\ lab[j].rank = E[j].rank
  BY <1>1, <1>2 DEF Entry
<1>4. S = {lab[j] : j \in 1 .. k}
  BY <1>2 DEF Values
<1>5. ASSUME NEW i \in 1 .. k, NEW j \in 1 .. k, i # j PROVE lab[i] # lab[j]
  <2>1. E[i].rank # E[j].rank
    <3>1. i < j \/ j < i
      BY <1>1, <1>5
    <3>2. \A m \in 1 .. k : E[m].rank \in Nat
      BY <1>1
    <3> QED
      BY <3>1, <3>2 DEF SoFar, k
  <2>2. lab[i].rank = E[i].rank /\ lab[j].rank = E[j].rank
    BY <1>3
  <2> QED
    BY <2>1, <2>2
<1>6. IsFiniteSet(S) /\ Cardinality(S) = k
  <2> DEFINE f == [j \in 1 .. k |-> lab[j]]
  <2>1. IsFiniteSet(1 .. k) /\ Cardinality(1 .. k) = k
    BY <1>1, FS_Interval
  <2>2. f \in Bijection(1 .. k, S)
    BY <1>4, <1>5 DEF Bijection, Injection, IsInjective, Surjection
  <2> QED
    BY <2>1, <2>2, FS_Bijection DEF ExistsBijection
<1>7. \A x, y \in S : x # y => <<x, y>> \in R \/ <<y, x>> \in R
  <2> SUFFICES ASSUME NEW x \in S, NEW y \in S, x # y
               PROVE  Shown(side, x.zone, y.zone) \/ Shown(side, y.zone, x.zone)
    OBVIOUS
  <2>1. PICK i \in 1 .. k : x = lab[i]
    BY <1>4
  <2>2. PICK j \in 1 .. k : y = lab[j]
    BY <1>4
  <2>3. ~Redundant(E[i].zone, E[j].zone)
    BY <2>1, <2>2 DEF SoFar, k
  <2> QED
    BY <1>3, <2>1, <2>2, <2>3, ShownOrders
<1>8. \A x \in S : x.zone \in Menu
  BY <1>3, <1>4
<1>9. \A x, y, z \in S : <<x, y>> \in R /\ <<y, z>> \in R => <<x, z>> \in R
  BY <1>8, ShownOrders
<1>10. \A x \in S : <<x, x>> \notin R
  BY <1>8, ShownOrders
<1>11. PICK s : Along(s, S, R)
  <2> HIDE DEF S, R
  <2> QED
    BY <1>6, <1>7, <1>9, OrderExists DEF Orderable
<1>12. s \in Orders(S) /\ \A m, n \in 1 .. Len(s) : m < n => <<s[m], s[n]>> \in R
  <2> HIDE DEF S, R
  <2> QED
    BY <1>6, <1>10, <1>11, AlongIsOrder
<1>13. \A m, n \in 1 .. Len(s) : m < n => Shown(side, s[m].zone, s[n].zone)
  BY <1>12
<1> DEFINE list == DisplayOrder(side, lab)
<1>14. /\ list \in Orders(S)
       /\ \A m, n \in 1 .. Len(list) : m < n => Shown(side, list[m].zone, list[n].zone)
  <2> HIDE DEF R
  <2> QED
    BY <1>12, <1>13 DEF DisplayOrder
<1> HIDE DEF list
<1>15. Len(list) = k /\ list \in Seq(S) /\ Distinct(list) /\ Values(list) = S
  <2> HIDE DEF S
  <2> QED
    BY <1>6, <1>14, OrdersReachAll
<1>16. list \in Seq(Entry)
  BY <1>3, <1>4, <1>15
<1> QED
  BY <1>2, <1>14, <1>15, <1>16 DEF Listing, lab, list

-----------------------------------------------------------------------------
(* Rankings *)

\* A finite set can be ranked.
LEMMA OrdersExist ==
  ASSUME NEW S, IsFiniteSet(S)
  PROVE  \E s : s \in Orders(S)
<1> DEFINE k == Cardinality(S)
<1>1. k \in Nat /\ ExistsBijection(1 .. k, S)
  BY FS_CardinalityType
<1>2. PICK s \in Bijection(1 .. k, S) : TRUE
  BY <1>1 DEF ExistsBijection
<1> HIDE DEF k
<1>3. s \in [1 .. k -> S] /\ \A m, n \in 1 .. k : s[m] = s[n] => m = n
  BY <1>2 DEF Bijection, Injection, IsInjective
<1>4. Len(s) = k
  BY <1>1, <1>3
<1> QED
  BY <1>3, <1>4 DEF Orders, Distinct, k

\* Whatever the model answers, right or wrong, ranks candidates of the menu.
LEMMA AnswersRank ==
  ASSUME NEW o \in SUBSET Menu, IsFiniteSet(o), NEW answer \in Answers(o)
  PROVE  \A b \in Buckets : answer[b] \in Seq(Menu)
<1> DEFINE right == {[SEO |-> s, BAI |-> b, UPPER |-> u, LOWER |-> l] :
                       s \in Orders(InBucket(o, "SEO")), b \in Orders(InBucket(o, "BAI")),
                       u \in Orders(InBucket(o, "UPPER")), l \in Orders(InBucket(o, "LOWER"))}
           some == CHOOSE a \in right : TRUE
           Ranking == [Buckets -> Seq(Menu)]
<1>1. ASSUME NEW b PROVE /\ IsFiniteSet(InBucket(o, b))
                         /\ Orders(InBucket(o, b)) # {}
                         /\ Orders(InBucket(o, b)) \subseteq Seq(Menu)
  <2>1. IsFiniteSet(InBucket(o, b)) /\ InBucket(o, b) \subseteq Menu
    BY FS_Subset DEF InBucket
  <2>2. \A s \in Orders(InBucket(o, b)) : s \in Seq(InBucket(o, b))
    BY <2>1, OrdersReachAll
  <2> QED
    BY <2>1, <2>2, OrdersExist
<1>2. right # {} /\ right \subseteq Ranking
  <2>1. ASSUME NEW s \in Seq(Menu), NEW b \in Seq(Menu), NEW u \in Seq(Menu), NEW l \in Seq(Menu)
        PROVE  [SEO |-> s, BAI |-> b, UPPER |-> u, LOWER |-> l] \in Ranking
    BY DEF Buckets
  <2>2. \A x \in right : x \in Ranking
    <3> HIDE DEF Ranking
    <3> QED
      BY <1>1, <2>1
  <2>3. right # {}
    <3>1. PICK s \in Orders(InBucket(o, "SEO")), b \in Orders(InBucket(o, "BAI")),
               u \in Orders(InBucket(o, "UPPER")), l \in Orders(InBucket(o, "LOWER")) : TRUE
      BY <1>1
    <3>2. [SEO |-> s, BAI |-> b, UPPER |-> u, LOWER |-> l] \in right
      OBVIOUS
    <3> QED
      BY <3>2
  <2> QED
    BY <2>2, <2>3
<1> DEFINE longer == {[some EXCEPT ![b] = Append(@, c)] : b \in Buckets, c \in Menu}
           shorter == {[some EXCEPT ![b] = Tail(@)] : b \in {b \in Buckets : some[b] # <<>>}}
<1>3. answer \in right \cup longer \cup shorter
  <2>1. Answers(o) = right \cup longer \cup shorter
    BY DEF Answers
  <2> HIDE DEF right, longer, shorter
  <2> QED
    BY <2>1
<1>4. some \in Ranking
  <2> HIDE DEF right, Ranking
  <2> QED
    BY <1>2
<1> HIDE DEF some, right
<1>5. \A x \in longer : x \in Ranking
  <2>1. \A b \in Buckets, c \in Menu : Append(some[b], c) \in Seq(Menu)
    BY <1>4
  <2> QED
    BY <1>4, <2>1
<1>6. \A x \in shorter : x \in Ranking
  <2>1. \A b \in Buckets : some[b] # <<>> => Tail(some[b]) \in Seq(Menu)
    BY <1>4
  <2> QED
    BY <1>4, <2>1
<1>7. answer \in Ranking
  <2> HIDE DEF longer, shorter, Ranking
  <2> QED
    BY <1>2, <1>3, <1>5, <1>6
<1> QED
  BY <1>7

-----------------------------------------------------------------------------
(* What is selected of a side *)

Ranked(r, o) == Accepted(r, o) /\ \A b \in Buckets : r[b] \in Seq(Menu)

\* Those ahead of a ranked one are ahead of it in the analyst's order.
Ahead(ranked, x, y) ==
  \E m, n \in 1 .. Len(ranked) : m < n /\ ranked[m] = x /\ ranked[n] = y

\* The zones of a list, and the main one among them.
ZonesIn(list) == {e.zone : e \in Values(list)}
MainsIn(list) == {e.zone : e \in {e \in Values(list) : e.main}}

\* The zones of a side's list, by their number in the loop.
LEMMA ZonesShown ==
  ASSUME NEW side \in Sides, NEW ranked \in Seq(Menu), NEW E, NEW list,
         SoFar(ranked, Len(ranked), E), Listing(side, list, Labelled(E))
  PROVE  /\ ZonesIn(list) = {E[j].zone : j \in 1 .. Len(E)}
         /\ MainsIn(list) = {E[j].zone : j \in {i \in 1 .. Len(E) : i = 1}}
         /\ IsFiniteSet(ZonesIn(list)) /\ Cardinality(ZonesIn(list)) = Len(E)
<1> DEFINE k == Len(E)
           lab == Labelled(E)
           Z == {E[j].zone : j \in 1 .. k}
<1>1. k \in Nat /\ \A j \in 1 .. k : E[j].zone \in Menu
  BY TakenTypes
<1>2. /\ Len(lab) = k
      /\ \A j \in 1 .. k : lab[j] = [zone |-> E[j].zone, rank |-> E[j].rank, main |-> j = 1]
  BY LabelsAre
<1>3. Values(list) = {lab[j] : j \in 1 .. k}
  BY <1>2 DEF Listing, Values
<1> HIDE DEF lab
<1>4. ASSUME NEW j \in 1 .. k
      PROVE  lab[j].zone = E[j].zone /\ (lab[j].main <=> j = 1)
  <2>1. lab[j] = [zone |-> E[j].zone, rank |-> E[j].rank, main |-> j = 1]
    BY <1>2
  <2>2. lab[j].zone = E[j].zone
    BY <2>1
  <2>3. CASE j = 1
    <3>1. lab[j] = [zone |-> E[j].zone, rank |-> E[j].rank, main |-> TRUE]
      BY <2>1, <2>3
    <3> QED
      BY <2>2, <2>3, <3>1
  <2>4. CASE j # 1
    <3>1. lab[j] = [zone |-> E[j].zone, rank |-> E[j].rank, main |-> FALSE]
      BY <2>1, <2>4
    <3> QED
      BY <2>2, <2>4, <3>1
  <2> QED
    BY <2>3, <2>4
<1>5. {e.zone : e \in Values(list)} = Z
  BY <1>3, <1>4
<1>6. {e.zone : e \in {e \in Values(list) : e.main}} = {E[j].zone : j \in {i \in 1 .. k : i = 1}}
  BY <1>3, <1>4
<1>7. \A i, j \in 1 .. k : E[i].zone = E[j].zone => i = j
  <2>1. \A z \in Menu : Redundant(z, z)
    BY MenuAssumption DEF Redundant, Contains
  <2> QED
    BY <1>1, <2>1 DEF SoFar
<1>8. IsFiniteSet(Z) /\ Cardinality(Z) = k
  <2> DEFINE f == [j \in 1 .. k |-> E[j].zone]
  <2> HIDE DEF k
  <2>1. IsFiniteSet(1 .. k) /\ Cardinality(1 .. k) = k
    BY <1>1, FS_Interval
  <2>2. f \in Bijection(1 .. k, Z)
    BY <1>7 DEF Bijection, Injection, IsInjective, Surjection
  <2> QED
    BY <2>1, <2>2, FS_Bijection DEF ExistsBijection
<1> QED
  BY <1>5, <1>6, <1>8 DEF ZonesIn, MainsIn

\* The zones of a side are what the analyst's order and the geometry leave.
LEMMA ZonesJustified ==
  ASSUME NEW side \in Sides, NEW ranked \in Seq(Menu), Distinct(ranked),
         NEW E, NEW list,
         SoFar(ranked, Len(ranked), E), Listing(side, list, Labelled(E)),
         NEW shown, shown = ZonesIn(list),
         NEW all, all = Values(ranked)
  PROVE  /\ \A x, y \in shown : x # y => ~Contains(x, y)
         /\ Cardinality(shown) <= MaxZones
         /\ \A z \in all \ shown :
              \/ \E y \in shown : Ahead(ranked, y, z) /\ Redundant(y, z)
              \/ Cardinality({y \in shown : Ahead(ranked, y, z)}) = MaxZones
         /\ MainsIn(list) = {z \in all : \A y \in all \ {z} : Ahead(ranked, z, y)}
<1> DEFINE k == Len(E)
           R == Len(ranked)
<1>1. shown = {E[j].zone : j \in 1 .. k} /\ IsFiniteSet(shown) /\ Cardinality(shown) = k
  BY ZonesShown
<1>2. k \in Nat /\ R \in Nat /\ \A j \in 1 .. k : E[j].zone \in Menu /\ E[j].rank \in Nat
  BY TakenTypes
<1>3. \A j \in 1 .. k : E[j].rank \in 1 .. R /\ E[j].zone = ranked[E[j].rank]
  BY DEF SoFar
<1>4. all = {ranked[m] : m \in 1 .. R}
  BY DEF Values
<1>5. \A x, y \in shown : x # y => ~Contains(x, y)
  BY <1>1 DEF SoFar, Redundant
<1>6. Cardinality(shown) <= MaxZones
  BY <1>1 DEF SoFar
<1>7. ASSUME NEW z \in all \ shown
      PROVE  \/ \E y \in shown : Ahead(ranked, y, z) /\ Redundant(y, z)
             \/ Cardinality({y \in shown : Ahead(ranked, y, z)}) = MaxZones
  <2>1. PICK m \in 1 .. R : z = ranked[m]
    BY <1>4
  <2>2. \A j \in 1 .. k : E[j].rank < m => Ahead(ranked, E[j].zone, z)
    BY <1>3, <2>1 DEF Ahead
  <2>3. CASE \E j \in 1 .. k : E[j].rank = m
    BY <1>1, <1>3, <2>1, <2>3
  <2>4. CASE \E j \in 1 .. k : E[j].rank < m /\ Redundant(ranked[m], E[j].zone)
    BY <1>1, <2>1, <2>2, <2>4 DEF Redundant
  <2>5. CASE k = MaxZones /\ \A j \in 1 .. k : E[j].rank < m
    <3>1. {y \in shown : Ahead(ranked, y, z)} = shown
      BY <1>1, <2>2, <2>5
    <3> QED
      BY <1>1, <2>5, <3>1
  <2> QED
    BY <2>3, <2>4, <2>5 DEF SoFar
<1>8. MainsIn(list) = {z \in all : \A y \in all \ {z} : Ahead(ranked, z, y)}
  <2> DEFINE best == {z \in all : \A y \in all \ {z} : Ahead(ranked, z, y)}
  <2>1. MainsIn(list) = {E[j].zone : j \in {i \in 1 .. k : i = 1}}
    BY ZonesShown
  <2>2. CASE R = 0
    <3>1. k = 0 /\ all = {}
      <4>1. \A j \in 1 .. k : FALSE
        BY <1>3, <2>2
      <4>2. k = 0
        BY <1>2, <4>1
      <4> QED
        BY <1>4, <2>2, <4>2
    <3>2. {E[j].zone : j \in {i \in 1 .. k : i = 1}} = {}
      BY <3>1
    <3>3. best = {}
      BY <3>1
    <3> QED
      BY <2>1, <3>2, <3>3
  <2>3. CASE R # 0
    <3>1. 1 \in 1 .. R /\ 1 \in 1 .. k /\ E[1].rank = 1 /\ E[1].zone = ranked[1]
      BY <1>2, <1>3, <2>3 DEF SoFar
    <3>2. ranked[1] \in best
      <4>1. ASSUME NEW y \in all \ {ranked[1]} PROVE Ahead(ranked, ranked[1], y)
        <5>1. PICK n \in 1 .. R : y = ranked[n]
          BY <1>4
        <5>2. 1 < n
          BY <5>1
        <5> QED
          BY <3>1, <5>1, <5>2 DEF Ahead
      <4> QED
        BY <1>4, <3>1, <4>1
    <3>3. ASSUME NEW z \in best, z # ranked[1] PROVE FALSE
      <4>1. Ahead(ranked, z, ranked[1])
        BY <1>4, <3>1, <3>3
      <4>2. PICK m \in 1 .. R, n \in 1 .. R : m < n /\ ranked[n] = ranked[1]
        BY <4>1 DEF Ahead
      <4> QED
        BY <1>2, <3>1, <4>2 DEF Distinct
    <3>4. best = {ranked[1]}
      BY <3>2, <3>3
    <3>5. {E[j].zone : j \in {i \in 1 .. k : i = 1}} = {ranked[1]}
      BY <3>1
    <3> QED
      BY <2>1, <3>4, <3>5
  <2> QED
    BY <2>2, <2>3
<1> QED
  BY <1>5, <1>6, <1>7, <1>8

\* A level is farther than the list if it is beyond every zone on it.
Beyond(side, l, shown) ==
  \A z \in shown : IF side = "SEO" THEN l.lower > z.upper ELSE l.upper < z.lower

LEMMA FartherIsBeyond ==
  ASSUME NEW side \in Sides, NEW list, NEW shown, shown = ZonesIn(list),
         NEW l \in Menu, l.bucket = ReferenceBucket(side)
  PROVE  Farther(side, l, list) <=> Beyond(side, l, shown)
<1>1. shown = {list[n].zone : n \in 1 .. Len(list)}
  BY DEF ZonesIn, Values
<1>2. side = "SEO" \/ (side = "BAI" /\ l.lower = l.upper)
  BY MenuAssumption DEF Sides, ReferenceBucket
<1> QED
  BY <1>1, <1>2 DEF Farther, Beyond

\* The farther level is the best ranked of those beyond the list, and there is
\* none without a list.
LEMMA ReferenceJustified ==
  ASSUME NEW side \in Sides, NEW ranked \in Seq(Menu), Distinct(ranked),
         \A l \in Values(ranked) : l.bucket = ReferenceBucket(side),
         NEW list, NEW shown, shown = ZonesIn(list),
         NEW reference, reference = SelectReference(side, ranked, list),
         list = <<>> <=> shown = {}
  PROVE  /\ reference \subseteq Values(ranked)
         /\ \A k, l \in reference : k = l
         /\ shown = {} => reference = {}
         /\ \A l \in reference :
              /\ Beyond(side, l, shown)
              /\ \A k \in Values(ranked) :
                   Ahead(ranked, k, l) => ~Beyond(side, k, shown)
<1> DEFINE R == Len(ranked)
           beyond == {n \in 1 .. R : list # <<>> /\ Farther(side, ranked[n], list)}
           best == {m \in beyond : \A n \in beyond \ {m} : m < n}
<1>1. Values(ranked) = {ranked[n] : n \in 1 .. R} /\ R \in Nat
  BY DEF Values
<1>2. \A n \in 1 .. R : ranked[n] \in Menu /\ ranked[n].bucket = ReferenceBucket(side)
  BY <1>1
<1>3. reference = {ranked[n] : n \in best}
  BY DEF SelectReference, First
<1>4. \A n \in 1 .. R : Farther(side, ranked[n], list) <=> Beyond(side, ranked[n], shown)
  BY <1>2, FartherIsBeyond
<1>5. \A m, n \in best : m = n
  OBVIOUS
<1>6. shown = {} => reference = {}
  BY <1>3
<1>7. ASSUME NEW l \in reference
      PROVE  /\ Beyond(side, l, shown)
             /\ \A k \in Values(ranked) : Ahead(ranked, k, l) => ~Beyond(side, k, shown)
  <2>1. PICK n \in best : l = ranked[n]
    BY <1>3
  <2>2. Beyond(side, l, shown)
    BY <1>4, <2>1
  <2>3. ASSUME NEW k \in Values(ranked), Ahead(ranked, k, l), Beyond(side, k, shown)
        PROVE  FALSE
    <3>1. PICK i \in 1 .. R, j \in 1 .. R : i < j /\ ranked[i] = k /\ ranked[j] = l
      BY <2>3 DEF Ahead
    <3>2. j = n
      BY <2>1, <3>1 DEF Distinct
    <3>3. i \in beyond
      BY <1>4, <2>1, <2>3, <3>1
    <3>4. n \in Nat /\ i \in Nat
      BY <2>1
    <3> QED
      BY <2>1, <3>1, <3>2, <3>3, <3>4
  <2> QED
    BY <2>2, <2>3
<1>8. reference \subseteq Values(ranked) /\ \A k, l \in reference : k = l
  BY <1>1, <1>3, <1>5
<1> QED
  BY <1>6, <1>7, <1>8

-----------------------------------------------------------------------------
(* The selection *)

Offering == planStage = "OBSERVED" => offered \in SUBSET Menu /\ IsFiniteSet(offered)

Chosen ==
  planStage \in {"SELECTED", "FINALIZED", "GATED"} =>
    Ranked(ranking, offered) /\ selection = Select(ranking)

SelectionInv == Offering /\ Chosen

LEMMA SelectionInit == TradePlanInit => SelectionInv
BY DEF TradePlanInit, SelectionInv, Offering, Chosen

\* An attempt that fails has nothing left to be true of.
LEMMA FailureForgets ==
  ASSUME NEW what, NEW told, FailedAt(what, told) PROVE SelectionInv'
BY DEF FailedAt, SelectionInv, Offering, Chosen

LEMMA SelectionStep == SelectionInv /\ [TradePlanNext]_tradePlanVars => SelectionInv'
<1> SUFFICES ASSUME SelectionInv, [TradePlanNext]_tradePlanVars PROVE SelectionInv'
  OBVIOUS
<1>1. CASE UNCHANGED tradePlanVars
  BY <1>1 DEF tradePlanVars, SelectionInv, Offering, Chosen
<1>2. ASSUME NEW o \in SUBSET Menu, IsFiniteSet(o), Observe(o) PROVE SelectionInv'
  BY <1>2 DEF Observe, SelectionInv, Offering, Chosen
<1>3. ASSUME NEW answer \in Answers(offered), Rank(answer) PROVE SelectionInv'
  <2>1. CASE Accepted(answer, offered)
    <3>1. /\ planStage = "OBSERVED" /\ planStage' = "SELECTED" /\ ranking' = answer
          /\ selection' = Select(answer) /\ offered' = offered
      BY <1>3, <2>1 DEF Rank
    <3>2. \A b \in Buckets : answer[b] \in Seq(Menu)
      BY <3>1, AnswersRank DEF SelectionInv, Offering
    <3> QED
      BY <2>1, <3>1, <3>2 DEF SelectionInv, Offering, Chosen, Ranked
  <2>2. CASE ~Accepted(answer, offered)
    BY <1>3, <2>2, FailureForgets DEF Rank
  <2> QED
    BY <2>1, <2>2
<1>4. ASSUME NEW answer \in CopiesOf(offered), WritePlan(answer) PROVE SelectionInv'
  <2>1. \/ \E what, told : FailedAt(what, told)
        \/ /\ planStage = "SELECTED" /\ planStage' = "FINALIZED"
           /\ UNCHANGED <<offered, ranking, selection>>
    BY <1>4 DEF WritePlan
  <2> QED
    BY <2>1, FailureForgets DEF SelectionInv, Offering, Chosen
<1>5. CASE Abandon
  BY <1>5, FailureForgets DEF Abandon
<1>6. ASSUME NEW file \in Files, Edit(file) PROVE SelectionInv'
  BY <1>6 DEF Edit, SelectionInv, Offering, Chosen
<1>7. CASE Gate
  BY <1>7 DEF Gate, SelectionInv, Offering, Chosen
<1> QED
  BY <1>1, <1>2, <1>3, <1>4, <1>5, <1>6, <1>7 DEF TradePlanNext

\* What the selection has of a side.
LEMMA SideOf ==
  ASSUME Ranked(ranking, offered), selection = Select(ranking), NEW side \in Sides
  PROVE  /\ ranking[side] \in Seq(Menu) /\ Distinct(ranking[side])
         /\ Values(ranking[side]) = InBucket(offered, side)
         /\ ranking[ReferenceBucket(side)] \in Seq(Menu)
         /\ Distinct(ranking[ReferenceBucket(side)])
         /\ Values(ranking[ReferenceBucket(side)]) = InBucket(offered, ReferenceBucket(side))
         /\ SoFar(ranking[side], Len(ranking[side]), SelectSide(ranking[side]))
         /\ Listing(side, selection.entries[side], Labelled(SelectSide(ranking[side])))
         /\ selection.reference[side] =
              SelectReference(side, ranking[ReferenceBucket(side)], selection.entries[side])
<1>1. side \in Buckets /\ ReferenceBucket(side) \in Buckets
  BY DEF Sides, Buckets, ReferenceBucket
<1>2. /\ selection.entries[side] = DisplayOrder(side, Labelled(SelectSide(ranking[side])))
      /\ selection.reference[side] =
           SelectReference(side, ranking[ReferenceBucket(side)], selection.entries[side])
  BY DEF Select
<1>3. ranking[side] \in Seq(Menu)
  BY <1>1 DEF Ranked
<1>4. SoFar(ranking[side], Len(ranking[side]), SelectSide(ranking[side]))
  BY <1>3, SideSelected
<1>5. Listing(side, selection.entries[side], Labelled(SelectSide(ranking[side])))
  BY <1>2, <1>3, <1>4, ListIs
<1> QED
  BY <1>1, <1>2, <1>4, <1>5 DEF Ranked, Accepted

LEMMA SideIsJustified ==
  ASSUME Ranked(ranking, offered), selection = Select(ranking), NEW side \in Sides,
         NEW shown, shown = ZonesOf(selection, side),
         NEW all, all = InBucket(offered, side),
         NEW list, list = selection.entries[side]
  PROVE  /\ \A x, y \in shown : x # y => ~Contains(x, y)
         /\ Cardinality(shown) <= MaxZones
         /\ \A z \in all \ shown :
              \/ \E y \in shown : Outranks(side, y, z) /\ Redundant(y, z)
              \/ Cardinality({y \in shown : Outranks(side, y, z)}) = MaxZones
         /\ Mains(selection) \cap all = {z \in all : \A y \in all \ {z} : Outranks(side, z, y)}
         /\ shown = {} => selection.reference[side] = {}
         /\ \A l \in selection.reference[side] :
              /\ Beyond(side, l, shown)
              /\ \A k \in InBucket(offered, ReferenceBucket(side)) :
                   Outranks(ReferenceBucket(side), k, l) => ~Beyond(side, k, shown)
         /\ \A n \in 1 .. Len(list) - 1 : Distance(list[n].zone) <= Distance(list[n + 1].zone)
<1> DEFINE ranked == ranking[side]
           E == SelectSide(ranked)
           levels == ranking[ReferenceBucket(side)]
<1>1. /\ ranked \in Seq(Menu) /\ Distinct(ranked) /\ Values(ranked) = all
      /\ levels \in Seq(Menu) /\ Distinct(levels)
      /\ Values(levels) = InBucket(offered, ReferenceBucket(side))
      /\ SoFar(ranked, Len(ranked), E) /\ Listing(side, list, Labelled(E))
      /\ selection.reference[side] = SelectReference(side, levels, list)
  BY SideOf
<1>2. shown = ZonesIn(list)
  BY DEF ZonesOf, ZonesIn
<1>3. \A b \in Buckets : \A x, y : Outranks(b, x, y) <=> Ahead(ranking[b], x, y)
  BY DEF Outranks, Ahead
<1>4. side \in Buckets /\ ReferenceBucket(side) \in Buckets
  BY DEF Sides, Buckets, ReferenceBucket
<1> HIDE DEF ranked, E, levels
<1>5. /\ \A x, y \in shown : x # y => ~Contains(x, y)
      /\ Cardinality(shown) <= MaxZones
      /\ \A z \in all \ shown :
           \/ \E y \in shown : Ahead(ranked, y, z) /\ Redundant(y, z)
           \/ Cardinality({y \in shown : Ahead(ranked, y, z)}) = MaxZones
      /\ MainsIn(list) = {z \in all : \A y \in all \ {z} : Ahead(ranked, z, y)}
  BY <1>1, <1>2, ZonesJustified
<1>6. \A x, y : Outranks(side, x, y) <=> Ahead(ranked, x, y)
  BY <1>3, <1>4 DEF ranked
<1>7. \A x, y : Outranks(ReferenceBucket(side), x, y) <=> Ahead(levels, x, y)
  BY <1>3, <1>4 DEF levels
<1>8. Mains(selection) \cap all = MainsIn(list)
  <2>1. ASSUME NEW s \in Sides, NEW e \in Values(selection.entries[s])
        PROVE  e.zone \in InBucket(offered, s)
    <3> DEFINE F == SelectSide(ranking[s])
    <3>1. /\ ranking[s] \in Seq(Menu) /\ Values(ranking[s]) = InBucket(offered, s)
          /\ SoFar(ranking[s], Len(ranking[s]), F)
          /\ Listing(s, selection.entries[s], Labelled(F))
      BY SideOf
    <3>2. e.zone \in {F[j].zone : j \in 1 .. Len(F)}
      <4> HIDE DEF F
      <4>1. ZonesIn(selection.entries[s]) = {F[j].zone : j \in 1 .. Len(F)}
        BY <3>1, ZonesShown
      <4> QED
        BY <4>1 DEF ZonesIn
    <3>3. \A j \in 1 .. Len(F) : F[j].zone \in Values(ranking[s])
      BY <3>1 DEF SoFar, Values
    <3> QED
      BY <3>1, <3>2, <3>3
  <2>2. \A z \in all : z.bucket = side
    BY DEF InBucket
  <2>3. \A s \in Sides : \A e \in Values(selection.entries[s]) : e.zone.bucket = s
    BY <2>1 DEF InBucket
  <2>4. \A e \in Values(list) : e.zone \in all
    BY <2>1
  <2> QED
    BY <2>2, <2>3, <2>4 DEF Mains, MainsIn
<1>9. list = <<>> <=> shown = {}
  <2>1. list \in Seq(Entry)
    BY <1>1 DEF Listing
  <2>2. Len(list) \in Nat /\ (list = <<>> <=> Len(list) = 0)
    BY <2>1
  <2>3. shown = {list[n].zone : n \in 1 .. Len(list)}
    BY <1>2 DEF ZonesIn, Values
  <2>4. Len(list) = 0 => shown = {}
    BY <2>3
  <2>5. Len(list) # 0 => list[1].zone \in shown
    BY <2>2, <2>3
  <2> QED
    BY <2>2, <2>4, <2>5
<1>10. /\ shown = {} => selection.reference[side] = {}
       /\ \A l \in selection.reference[side] :
            /\ Beyond(side, l, shown)
            /\ \A k \in Values(levels) : Ahead(levels, k, l) => ~Beyond(side, k, shown)
  <2>1. \A l \in Values(levels) : l.bucket = ReferenceBucket(side)
    BY <1>1 DEF InBucket
  <2> QED
    BY <1>1, <1>2, <1>9, <2>1, ReferenceJustified
<1>11. ASSUME NEW n \in 1 .. Len(list) - 1
       PROVE  Distance(list[n].zone) <= Distance(list[n + 1].zone)
  <2>1. list \in Seq(Entry)
    BY <1>1 DEF Listing
  <2>2. n \in 1 .. Len(list) /\ n + 1 \in 1 .. Len(list) /\ n < n + 1
    BY <2>1
  <2>3. Shown(side, list[n].zone, list[n + 1].zone)
    BY <1>1, <2>2 DEF Listing
  <2>4. list[n].zone \in Menu /\ list[n + 1].zone \in Menu
    <3>1. list[n] \in Entry /\ list[n + 1] \in Entry
      BY <2>1, <2>2
    <3> QED
      BY <3>1 DEF Entry
  <2>5. \A z \in Menu : Distance(z) \in Int
    BY MenuAssumption DEF Distance
  <2> QED
    BY <2>3, <2>4, <2>5 DEF Shown
<1> QED
  BY <1>1, <1>5, <1>6, <1>7, <1>8, <1>10, <1>11

LEMMA Justified == SelectionInv => SelectionIsJustified
<1> SUFFICES ASSUME SelectionInv, planStage \in {"SELECTED", "FINALIZED", "GATED"}
             PROVE  SelectionIsJustified
  BY DEF SelectionIsJustified
<1>1. Ranked(ranking, offered) /\ selection = Select(ranking)
  BY DEF SelectionInv, Chosen
<1> QED
  BY <1>1, SideIsJustified DEF SelectionIsJustified, Beyond

\* Whatever a model ranks and however many candidates there are: what is shown is
\* what its order and the geometry leave (select_trade_plan).
THEOREM SelectionJustified == TradePlanSpec => []SelectionIsJustified
<1> QED
  BY SelectionInit, SelectionStep, Justified, PTL DEF TradePlanSpec

-----------------------------------------------------------------------------
(* The page of a selection *)

\* What the page can count on: of a side at most as many zones as it may show,
\* each once, one of them the main one; at most one farther level, and none
\* without zones.
SidePlan(sel, side) ==
  LET list == sel.entries[side] IN
  /\ list \in Seq(Entry) /\ Len(list) <= MaxZones
  /\ \A m, n \in 1 .. Len(list) : list[m].zone = list[n].zone => m = n
  /\ \A m, n \in 1 .. Len(list) : list[m].main /\ list[n].main => m = n
  /\ \A n \in 1 .. Len(list) : list[n].zone.bucket = side
  /\ \A l \in sel.reference[side] : l \in Menu /\ l.bucket = ReferenceBucket(side)
  /\ \A k, l \in sel.reference[side] : k = l
  /\ list = <<>> => sel.reference[side] = {}

LEMMA SelectionIsAPlan ==
  ASSUME Ranked(ranking, offered), selection = Select(ranking), NEW side \in Sides
  PROVE  SidePlan(selection, side)
<1> DEFINE ranked == ranking[side]
           E == SelectSide(ranked)
           lab == Labelled(E)
           list == selection.entries[side]
           levels == ranking[ReferenceBucket(side)]
<1>1. /\ ranked \in Seq(Menu) /\ Distinct(ranked) /\ Values(ranked) = InBucket(offered, side)
      /\ levels \in Seq(Menu) /\ Distinct(levels)
      /\ Values(levels) = InBucket(offered, ReferenceBucket(side))
      /\ SoFar(ranked, Len(ranked), E) /\ Listing(side, list, lab)
      /\ selection.reference[side] = SelectReference(side, levels, list)
  BY SideOf
<1> HIDE DEF ranked, E, list, levels
<1>2. /\ Len(E) \in Nat /\ \A j \in 1 .. Len(E) : E[j].zone \in Menu
      /\ Len(lab) = Len(E)
      /\ \A j \in 1 .. Len(E) : lab[j] = [zone |-> E[j].zone, rank |-> E[j].rank, main |-> j = 1]
  BY <1>1, TakenTypes, LabelsAre
<1> HIDE DEF lab
<1>3. /\ list \in Seq(Entry) /\ Len(list) = Len(E) /\ Len(list) <= MaxZones
      /\ \A m, n \in 1 .. Len(list) : list[m] = list[n] => m = n
      /\ \A n \in 1 .. Len(list) : \E j \in 1 .. Len(E) : list[n] = lab[j]
  <2>1. Values(list) = Values(lab) /\ Len(list) = Len(lab) /\ list \in Seq(Entry) /\ Distinct(list)
    BY <1>1 DEF Listing
  <2>2. Values(lab) = {lab[j] : j \in 1 .. Len(E)} /\ Values(list) = {list[n] : n \in 1 .. Len(list)}
    BY <1>2 DEF Values
  <2>3. Len(E) <= MaxZones
    BY <1>1 DEF SoFar
  <2>4. \A m, n \in 1 .. Len(list) : list[m] = list[n] => m = n
    BY <2>1 DEF Distinct
  <2>5. \A n \in 1 .. Len(list) : \E j \in 1 .. Len(E) : list[n] = lab[j]
    BY <2>1, <2>2
  <2> QED
    BY <1>2, <2>1, <2>3, <2>4, <2>5
<1>4. \A j \in 1 .. Len(E) : lab[j].zone = E[j].zone /\ (lab[j].main => j = 1)
  <2>1. ASSUME NEW j \in 1 .. Len(E), j # 1
        PROVE  lab[j].main = FALSE
    <3>1. lab[j] = [zone |-> E[j].zone, rank |-> E[j].rank, main |-> FALSE]
      BY <1>2, <2>1
    <3> QED
      BY <3>1
  <2>2. ASSUME NEW j \in 1 .. Len(E)
        PROVE  lab[j].zone = E[j].zone
    <3>1. lab[j] = [zone |-> E[j].zone, rank |-> E[j].rank, main |-> j = 1]
      BY <1>2
    <3> QED
      BY <3>1
  <2> QED
    BY <2>1, <2>2
<1>5. \A i, j \in 1 .. Len(E) : E[i].zone = E[j].zone => i = j
  <2>1. \A z \in Menu : Redundant(z, z)
    BY MenuAssumption DEF Redundant, Contains
  <2> QED
    BY <1>1, <1>2, <2>1 DEF SoFar
<1>6. ASSUME NEW m \in 1 .. Len(list), NEW n \in 1 .. Len(list),
             list[m].zone = list[n].zone \/ (list[m].main /\ list[n].main)
      PROVE  m = n
  <2>1. PICK i \in 1 .. Len(E) : list[m] = lab[i]
    BY <1>3
  <2>2. PICK j \in 1 .. Len(E) : list[n] = lab[j]
    BY <1>3
  <2>3. i = j
    BY <1>4, <1>5, <1>6, <2>1, <2>2
  <2> QED
    BY <1>3, <2>1, <2>2, <2>3
<1>7. ASSUME NEW n \in 1 .. Len(list) PROVE list[n].zone.bucket = side
  <2>1. PICK j \in 1 .. Len(E) : list[n] = lab[j]
    BY <1>3
  <2>2. list[n].zone \in Values(ranked)
    BY <1>1, <1>4, <2>1 DEF SoFar, Values
  <2> QED
    BY <1>1, <2>2 DEF InBucket
<1>8. Len(list) \in Nat /\ (list = <<>> <=> Len(list) = 0)
  BY <1>3
<1>9. list = <<>> <=> ZonesIn(list) = {}
  <2>1. ZonesIn(list) = {list[n].zone : n \in 1 .. Len(list)}
    BY DEF ZonesIn, Values
  <2>2. Len(list) = 0 => ZonesIn(list) = {}
    BY <2>1
  <2>3. Len(list) # 0 => list[1].zone \in ZonesIn(list)
    BY <1>8, <2>1
  <2> QED
    BY <1>8, <2>2, <2>3
<1>10. \A l \in Values(levels) : l \in Menu /\ l.bucket = ReferenceBucket(side)
  BY <1>1 DEF InBucket, Values
<1>11. /\ selection.reference[side] \subseteq Values(levels)
       /\ \A k, l \in selection.reference[side] : k = l
       /\ ZonesIn(list) = {} => selection.reference[side] = {}
  BY <1>1, <1>9, <1>10, ReferenceJustified
<1> QED
  BY <1>3, <1>6, <1>7, <1>9, <1>10, <1>11 DEF SidePlan, list

\* An accepted copy that names the main zone at most once in a note, and in which
\* the page's checks see nothing they alone look for.
Fit(c, sel) ==
  /\ CopyAccepted(c, sel) /\ Len(c.news) \in Nat
  /\ \A x \in c.notes : Said(x.note) <= 1
  /\ c.text = "PLAIN" /\ Values(c.news) \cap Unfit = {}

\* Its note on anything but the main zone does not call it that.
LEMMA NoteSays ==
  ASSUME NEW sel, NEW c, Fit(c, sel), NEW z
  PROVE  NoteOn(c, z) \in {0, 1} /\ (NoteOn(c, z) = 1 => z \in Mains(sel))
<1> DEFINE on == {x \in c.notes : x.on = z}
<1>1. CASE on = {}
  BY <1>1 DEF NoteOn
<1>2. CASE on # {}
  <2>1. PICK x \in on : NoteOn(c, z) = Said(x.note)
    BY <1>2 DEF NoteOn
  <2>2. Said(x.note) \in {0, 1, 2} /\ Said(x.note) <= 1
    BY <2>1 DEF Said, Fit
  <2>3. Said(x.note) > 0 => x.on \in Mains(sel)
    BY <2>1 DEF Fit, CopyAccepted
  <2> QED
    BY <2>1, <2>2, <2>3
<1> QED
  BY <1>1, <1>2

\* A zone of a side is one of Mains if the list calls it main; a farther level
\* never is.
LEMMA MainsAre ==
  ASSUME NEW sel, \A s \in Sides : SidePlan(sel, s), NEW side \in Sides
  PROVE  /\ \A n \in 1 .. Len(sel.entries[side]) :
              sel.entries[side][n].zone \in Mains(sel) => sel.entries[side][n].main
         /\ \A l \in sel.reference[side] : l \notin Mains(sel)
<1>1. ASSUME NEW z \in Mains(sel)
      PROVE  \E s \in Sides : \E m \in 1 .. Len(sel.entries[s]) :
               sel.entries[s][m].main /\ sel.entries[s][m].zone = z
  BY DEF Mains, Values
<1>2. \A s \in Sides : \A n \in 1 .. Len(sel.entries[s]) : sel.entries[s][n].zone.bucket = s
  BY DEF SidePlan
<1>3. ASSUME NEW n \in 1 .. Len(sel.entries[side]), sel.entries[side][n].zone \in Mains(sel)
      PROVE  sel.entries[side][n].main
  <2>1. PICK s \in Sides : \E m \in 1 .. Len(sel.entries[s]) :
          sel.entries[s][m].main /\ sel.entries[s][m].zone = sel.entries[side][n].zone
    BY <1>1, <1>3
  <2>2. s = side
    BY <1>2, <2>1
  <2> QED
    BY <2>1, <2>2 DEF SidePlan
<1>4. ASSUME NEW l \in sel.reference[side], l \in Mains(sel) PROVE FALSE
  <2>1. PICK s \in Sides : \E m \in 1 .. Len(sel.entries[s]) : sel.entries[s][m].zone = l
    BY <1>1, <1>4
  <2>2. l.bucket = s /\ l.bucket = ReferenceBucket(side)
    BY <1>2, <2>1 DEF SidePlan
  <2> QED
    BY <2>2 DEF Sides, ReferenceBucket
<1> QED
  BY <1>3, <1>4

\* If one line of a block says it once, the block says it once.
LEMMA OneLineSays ==
  ASSUME NEW block, Len(block) \in Nat, NEW j \in Nat,
         \A n \in 1 .. Len(block) : block[n].mains = IF n = j THEN 1 ELSE 0,
         NEW told,
         told = CHOOSE f : f = [n \in 0 .. Len(block) |->
                                  IF n = 0 THEN 0 ELSE f[n - 1] + block[n].mains]
  PROVE  ~(told[Len(block)] > 1)
<1> DEFINE L == Len(block)
           Sums(f) == f = [n \in 0 .. L |-> IF n = 0 THEN 0 ELSE f[n - 1] + block[n].mains]
           sum == [n \in 0 .. L |-> IF 1 <= j /\ j <= n THEN 1 ELSE 0]
<1>1. ASSUME NEW n \in 0 .. L, n # 0
      PROVE  n \in 1 .. L /\ n - 1 \in 0 .. L /\ sum[n] = sum[n - 1] + block[n].mains
  <2>1. n \in 1 .. L /\ n - 1 \in 0 .. L
    BY <1>1
  <2>2. sum[n] = (IF 1 <= j /\ j <= n THEN 1 ELSE 0) /\ sum[n - 1] = IF 1 <= j /\ j <= n - 1 THEN 1 ELSE 0
    BY <2>1
  <2> HIDE DEF sum
  <2> QED
    BY <2>1, <2>2
<1>2. Sums(sum)
  <2>1. sum[0] = 0 /\ sum = [n \in 0 .. L |-> sum[n]]
    OBVIOUS
  <2> HIDE DEF sum
  <2> QED
    BY <1>1, <2>1
<1>3. Sums(told)
  <2>1. told = CHOOSE f : Sums(f)
    OBVIOUS
  <2> HIDE DEF Sums
  <2> QED
    BY <1>2, <2>1
<1>4. told[0] = 0 /\ \A n \in 1 .. L : told[n] = told[n - 1] + block[n].mains
  <2>1. \A n \in 0 .. L : told[n] = IF n = 0 THEN 0 ELSE told[n - 1] + block[n].mains
    BY <1>3
  <2>2. 0 \in 0 .. L /\ \A n \in 1 .. L : n \in 0 .. L /\ n # 0
    OBVIOUS
  <2> QED
    BY <2>1, <2>2
<1> DEFINE Bad == {n \in 0 .. L : told[n] # sum[n]}
<1>5. Bad = {}
  <2> SUFFICES ASSUME Bad # {} PROVE FALSE
    OBVIOUS
  <2>1. PICK n \in Bad : \A m \in Bad : n <= m
    <3>1. Bad \subseteq Nat
      OBVIOUS
    <3> HIDE DEF Bad
    <3> QED
      BY <3>1, LeastElement
  <2>2. n # 0
    BY <1>4, <2>1
  <2>3. n - 1 \in 0 .. L /\ n - 1 \notin Bad
    BY <2>1, <2>2
  <2> QED
    BY <1>1, <1>4, <2>1, <2>2, <2>3
<1>6. L \in 0 .. L /\ sum[L] \in {0, 1}
  OBVIOUS
<1>7. told[L] = sum[L]
  BY <1>5, <1>6
<1> QED
  BY <1>6, <1>7

\* The lines of a side that has zones: one of each, and one of the farther level.
ZoneLine(list, c, n) ==
  [kind |-> "ZONE", position |-> n, prices |-> {list[n].zone.lower, list[n].zone.upper},
   mains |-> Phrases(NoteOn(c, list[n].zone), list[n].main)]
DeepLine(c, l) ==
  [kind |-> "DEEP", position |-> 0, prices |-> {l.lower}, mains |-> NoteOn(c, l)]

Lines(list, levels, c, block) ==
  /\ Len(list) \in Nat \ {0}
  /\ Len(block) \in {Len(list), Len(list) + 1}
  /\ \A n \in 1 .. Len(list) : block[n] = ZoneLine(list, c, n)
  /\ levels = {} => Len(block) = Len(list)
  /\ levels # {} =>
       /\ Len(block) = Len(list) + 1
       /\ \E l \in levels : block[Len(list) + 1] = DeepLine(c, l)

LEMMA LinesAre ==
  ASSUME NEW sel, NEW c, NEW side \in Sides, SidePlan(sel, side), sel.entries[side] # <<>>
  PROVE  Lines(sel.entries[side], sel.reference[side], c, SideLines(sel, c, side))
<1> DEFINE list == sel.entries[side]
           block == SideLines(sel, c, side)
           zones == [n \in 1 .. Len(list) |-> ZoneLine(list, c, n)]
<1> SUFFICES Lines(list, sel.reference[side], c, block)
  OBVIOUS
<1>1. Len(list) \in Nat \ {0}
  <2>1. list \in Seq(Entry)
    BY DEF SidePlan
  <2> QED
    BY <2>1
<1>2. block = IF sel.reference[side] = {} THEN zones
              ELSE Append(zones, DeepLine(c, CHOOSE ref \in sel.reference[side] : TRUE))
  BY DEF SideLines, ZoneLine, DeepLine
<1> HIDE DEF list, block
<1>3. zones \in Seq({ZoneLine(list, c, n) : n \in 1 .. Len(list)}) /\ Len(zones) = Len(list)
  BY <1>1
<1>4. CASE sel.reference[side] = {}
  <2>1. Len(block) = Len(list) /\ \A n \in 1 .. Len(list) : block[n] = ZoneLine(list, c, n)
    BY <1>2, <1>3, <1>4
  <2> QED
    BY <1>1, <1>4, <2>1 DEF Lines
<1>5. CASE sel.reference[side] # {}
  <2>1. PICK l \in sel.reference[side] : block = Append(zones, DeepLine(c, l))
    BY <1>2, <1>5
  <2>2. /\ Len(block) = Len(list) + 1 /\ block[Len(list) + 1] = DeepLine(c, l)
        /\ \A n \in 1 .. Len(list) : block[n] = ZoneLine(list, c, n)
    <3>1. \A n \in 1 .. Len(list) : zones[n] = ZoneLine(list, c, n)
      OBVIOUS
    <3> HIDE DEF zones
    <3> QED
      BY <1>1, <1>3, <2>1, <3>1
  <2> QED
    BY <1>1, <2>2 DEF Lines
<1> QED
  BY <1>4, <1>5

\* A block is one the page's check accepts.
LEMMA BlockIsShown ==
  ASSUME NEW sel, \A s \in Sides : SidePlan(sel, s), NEW c, Fit(c, sel), NEW side \in Sides
  PROVE  ~SideProblem(SideLines(sel, c, side))
<1> DEFINE list == sel.entries[side]
           block == SideLines(sel, c, side)
<1>1. CASE list = <<>>
  <2>1. block = <<[kind |-> "EMPTY", position |-> 0, prices |-> {}, mains |-> 0]>>
    BY <1>1 DEF SideLines
  <2>2. Values(block) = {[kind |-> "EMPTY", position |-> 0, prices |-> {}, mains |-> 0]}
    BY <2>1 DEF Values
  <2> QED
    BY <2>2 DEF SideProblem
<1>2. CASE list # <<>>
  <2>1. Lines(list, sel.reference[side], c, block) /\ Len(list) <= MaxZones
    BY <1>2, LinesAre DEF SidePlan
  <2>2. /\ \A m, n \in 1 .. Len(list) : list[m].main /\ list[n].main => m = n
        /\ \A n \in 1 .. Len(list) : list[n].zone \in Mains(sel) => list[n].main
        /\ \A l \in sel.reference[side] : l \notin Mains(sel)
        /\ \A n \in 1 .. Len(list) : list[n].main \in BOOLEAN
    <3>1. list \in Seq(Entry) /\ \A m, n \in 1 .. Len(list) : list[m].main /\ list[n].main => m = n
      BY DEF SidePlan
    <3>2. \A n \in 1 .. Len(list) : list[n] \in Entry
      BY <3>1
    <3> QED
      BY <3>1, <3>2, MainsAre DEF Entry
  <2> HIDE DEF list, block
  <2>3. ASSUME NEW n \in 1 .. Len(list)
        PROVE  /\ block[n].kind = "ZONE" /\ block[n].position = n
               /\ block[n].mains = IF list[n].main THEN 1 ELSE 0
    <3>1. NoteOn(c, list[n].zone) \in {0, 1} /\ (NoteOn(c, list[n].zone) = 1 => list[n].main)
      BY <2>2, NoteSays
    <3>2. Phrases(NoteOn(c, list[n].zone), list[n].main) = IF list[n].main THEN 1 ELSE 0
      BY <2>2, <3>1 DEF Phrases
    <3>3. block[n] = ZoneLine(list, c, n)
      BY <2>1 DEF Lines
    <3> QED
      BY <3>2, <3>3 DEF ZoneLine
  <2>4. ASSUME NEW n \in 1 .. Len(block), n \notin 1 .. Len(list)
        PROVE  n = Len(block) /\ block[n].kind = "DEEP" /\ block[n].mains = 0
    <3>1. n = Len(list) + 1 /\ n = Len(block) /\ sel.reference[side] # {}
      BY <2>1, <2>4 DEF Lines
    <3>2. PICK l \in sel.reference[side] : block[n] = DeepLine(c, l)
      BY <2>1, <3>1 DEF Lines
    <3>3. NoteOn(c, l) = 0
      BY <2>2, NoteSays
    <3> QED
      BY <3>1, <3>2, <3>3 DEF DeepLine
  <2>5. Len(block) \in Nat /\ 1 .. Len(list) \subseteq 1 .. Len(block)
    BY <2>1 DEF Lines
  <2> DEFINE zones == {n \in 1 .. Len(block) : block[n].kind = "ZONE"}
             deeps == {n \in 1 .. Len(block) : block[n].kind = "DEEP"}
             told == CHOOSE f : f = [n \in 0 .. Len(block) |->
                                       IF n = 0 THEN 0 ELSE f[n - 1] + block[n].mains]
  <2>6. zones = 1 .. Len(list) /\ \A n \in deeps : n = Len(block)
    BY <2>3, <2>4, <2>5
  <2>7. zones # {} /\ ~(Cardinality(zones) > MaxShown) /\ \A n \in zones : block[n].position = n
    <3>1. Len(list) \in Nat \ {0}
      BY <2>1 DEF Lines
    <3>2. Cardinality(1 .. Len(list)) = Len(list)
      BY <3>1, FS_Interval
    <3> HIDE DEF zones
    <3> QED
      BY <2>1, <2>3, <2>6, <3>1, <3>2, CountAssumption
  <2>8. ~(Cardinality(deeps) > 1)
    <3>1. deeps = {} \/ deeps = {Len(block)}
      BY <2>6
    <3> HIDE DEF deeps
    <3>2. CASE deeps = {}
      BY <3>2, FS_EmptySet
    <3>3. CASE deeps = {Len(block)}
      <4>1. Cardinality({Len(block)}) = 1
        BY FS_Singleton
      <4> QED
        BY <3>3, <4>1
    <3> QED
      BY <3>1, <3>2, <3>3
  <2>9. ~(told[Len(block)] > 1)
    <3>1. \E j \in Nat : \A n \in 1 .. Len(block) : block[n].mains = IF n = j THEN 1 ELSE 0
      <4>1. CASE \E j \in 1 .. Len(list) : list[j].main
        <5>1. PICK j \in 1 .. Len(list) : list[j].main
          BY <4>1
        <5>2. \A n \in 1 .. Len(block) : block[n].mains = IF n = j THEN 1 ELSE 0
          BY <2>2, <2>3, <2>4, <5>1
        <5> QED
          BY SMTT(30), <5>2
      <4>2. CASE \A j \in 1 .. Len(list) : ~list[j].main
        <5>1. \A n \in 1 .. Len(block) : block[n].mains = IF n = 0 THEN 1 ELSE 0
          BY <2>3, <2>4, <4>2
        <5> QED
          BY <5>1
      <4> QED
        BY <4>1, <4>2
    <3>2. PICK j \in Nat : \A n \in 1 .. Len(block) : block[n].mains = IF n = j THEN 1 ELSE 0
      BY <3>1
    <3> HIDE DEF told
    <3> QED
      BY <2>5, <3>2, OneLineSays DEF told
  <2>10. \A n \in deeps : n = Len(block)
    BY <2>6
  <2>11. ~SideProblem(block)
    BY <2>7, <2>8, <2>9, <2>10 DEF SideProblem
  <2> QED
    BY <2>11 DEF block
<1> QED
  BY <1>1, <1>2

\* The prices of a block are those of what was selected of its side.
LEMMA BlockPrices ==
  ASSUME NEW sel, NEW c, NEW side \in Sides, SidePlan(sel, side)
  PROVE  UNION {line.prices : line \in Values(SideLines(sel, c, side))} =
           UNION {{z.lower, z.upper} : z \in ZonesOf(sel, side) \cup sel.reference[side]}
<1> DEFINE list == sel.entries[side]
           block == SideLines(sel, c, side)
<1>1. Values(block) = {block[n] : n \in 1 .. Len(block)} /\ ZonesOf(sel, side) = {list[n].zone : n \in 1 .. Len(list)}
  BY DEF Values, ZonesOf
<1>2. \A l \in sel.reference[side] : l.lower = l.upper
  BY MenuAssumption DEF SidePlan, Sides, ReferenceBucket
<1>3. \A k, l \in sel.reference[side] : k = l
  BY DEF SidePlan
<1>4. CASE list = <<>>
  <2>1. block = <<[kind |-> "EMPTY", position |-> 0, prices |-> {}, mains |-> 0]>>
    BY <1>4 DEF SideLines
  <2>2. \A line \in Values(block) : line.prices = {}
    BY <2>1 DEF Values
  <2>3. ZonesOf(sel, side) = {} /\ sel.reference[side] = {}
    BY <1>1, <1>4 DEF SidePlan
  <2> QED
    BY <2>2, <2>3
<1>5. CASE list # <<>>
  <2>1. Lines(list, sel.reference[side], c, block)
    BY <1>5, LinesAre
  <2> HIDE DEF list, block
  <2>2. /\ Len(list) \in Nat \ {0}
        /\ Len(block) \in {Len(list), Len(list) + 1}
        /\ \A n \in 1 .. Len(list) : block[n].prices = {list[n].zone.lower, list[n].zone.upper}
        /\ sel.reference[side] = {} => Len(block) = Len(list)
        /\ sel.reference[side] # {} =>
             /\ Len(block) = Len(list) + 1
             /\ \E l \in sel.reference[side] : block[Len(list) + 1].prices = {l.lower}
    <3>1. ASSUME NEW n \in 1 .. Len(list)
          PROVE  block[n].prices = {list[n].zone.lower, list[n].zone.upper}
      <4>1. block[n] = ZoneLine(list, c, n)
        BY <2>1 DEF Lines
      <4> QED
        BY <4>1 DEF ZoneLine
    <3>2. ASSUME sel.reference[side] # {}
          PROVE  \E l \in sel.reference[side] : block[Len(list) + 1].prices = {l.lower}
      <4>1. PICK l \in sel.reference[side] : block[Len(list) + 1] = DeepLine(c, l)
        BY <2>1, <3>2 DEF Lines
      <4> QED
        BY <4>1 DEF DeepLine
    <3> QED
      BY <2>1, <3>1, <3>2 DEF Lines
  <2>3. ASSUME NEW n \in 1 .. Len(block), NEW x \in block[n].prices
        PROVE  \E z \in ZonesOf(sel, side) \cup sel.reference[side] : x \in {z.lower, z.upper}
    <3>1. CASE n \in 1 .. Len(list)
      BY <1>1, <2>2, <3>1
    <3>2. CASE n \notin 1 .. Len(list)
      <4>1. n = Len(list) + 1 /\ sel.reference[side] # {}
        BY <2>2, <3>2
      <4> QED
        BY <2>2, <4>1
    <3> QED
      BY <3>1, <3>2
  <2>4. ASSUME NEW z \in ZonesOf(sel, side) \cup sel.reference[side], NEW x \in {z.lower, z.upper}
        PROVE  \E n \in 1 .. Len(block) : x \in block[n].prices
    <3>1. CASE z \in ZonesOf(sel, side)
      <4>1. PICK n \in 1 .. Len(list) : z = list[n].zone
        BY <1>1, <3>1
      <4>2. n \in 1 .. Len(block) /\ x \in block[n].prices
        BY <2>2, <4>1
      <4> QED
        BY <4>2
    <3>2. CASE z \in sel.reference[side]
      <4>1. x = z.lower /\ block[Len(list) + 1].prices = {z.lower}
        BY <1>2, <1>3, <2>2, <3>2
      <4>2. Len(list) + 1 \in 1 .. Len(block)
        BY <2>2, <3>2
      <4> QED
        BY <4>1, <4>2
    <3> QED
      BY <3>1, <3>2
  <2>5. ASSUME NEW x
        PROVE  x \in UNION {line.prices : line \in Values(block)} <=>
                 x \in UNION {{z.lower, z.upper} : z \in ZonesOf(sel, side) \cup sel.reference[side]}
    BY <1>1, <2>3, <2>4
  <2> QED
    BY <2>5 DEF block
<1> QED
  BY <1>4, <1>5

\* The page of an accepted copy has no problem.
LEMMA PageIsShown ==
  ASSUME NEW sel, \A s \in Sides : SidePlan(sel, s), NEW c, Fit(c, sel)
  PROVE  ~PageProblem(Render(sel, c), sel, c)
<1> DEFINE p == Render(sel, c)
<1>1. p.news = c.news /\ p.text = c.text /\ \A s \in Sides : p.blocks[s] = SideLines(sel, c, s)
  BY DEF Render
<1> HIDE DEF p
<1>2. \A s \in Sides : ~SideProblem(p.blocks[s])
  BY <1>1, BlockIsShown
<1>3. UNION {UNION {line.prices : line \in Values(p.blocks[s])} : s \in Sides} = Prices(sel)
  <2> DEFINE of(s) == UNION {line.prices : line \in Values(p.blocks[s])}
             sold(s) == ZonesOf(sel, s) \cup sel.reference[s]
  <2>1. ASSUME NEW s \in Sides PROVE of(s) = UNION {{z.lower, z.upper} : z \in sold(s)}
    <3>1. SidePlan(sel, s) /\ p.blocks[s] = SideLines(sel, c, s)
      BY <1>1
    <3> QED
      BY <3>1, BlockPrices
  <2>2. Prices(sel) = UNION {{z.lower, z.upper} : z \in UNION {sold(s) : s \in Sides}}
    BY DEF Prices, Selected
  <2> HIDE DEF of, sold
  <2>3. UNION {of(s) : s \in Sides} = Prices(sel)
    BY <2>1, <2>2
  <2> QED
    BY <2>3 DEF of
<1>4. ~(Len(p.news) > MaxNews) /\ Values(p.news) \subseteq News
  BY <1>1, CountAssumption DEF Fit, CopyAccepted
<1>5. ~TextProblem(p)
  BY <1>1 DEF Fit, TextProblem
<1> QED
  BY <1>2, <1>3, <1>4, <1>5 DEF PageProblem, p

\* Whatever was offered, ranked and selected: the page of a copy its own checks
\* accept is refused only for what those checks do not look at, a note that names
\* the main zone twice, a quoted fixed line, a heading, a headline or the length
\* (parse_plan_copy against validate_plan), never for the plan it shows.
THEOREM AcceptedIsShown == TradePlanSpec => []AcceptedCopyIsShown
<1>1. TradePlanInit => AcceptedCopyIsShown
  BY DEF TradePlanInit, NoFailure, AcceptedCopyIsShown
<1>2. SelectionInv /\ AcceptedCopyIsShown /\ [TradePlanNext]_tradePlanVars => AcceptedCopyIsShown'
  <2> SUFFICES ASSUME SelectionInv, AcceptedCopyIsShown, [TradePlanNext]_tradePlanVars
               PROVE  AcceptedCopyIsShown'
    OBVIOUS
  <2>1. CASE UNCHANGED failure
    BY <2>1 DEF AcceptedCopyIsShown
  <2>2. ASSUME NEW what \in {"RANKING", "COPY", "PROVIDER"}, NEW answer, FailedAt(what, answer)
        PROVE  AcceptedCopyIsShown'
    <3>1. failure'.at = what
      BY <2>2 DEF FailedAt
    <3> QED
      BY <3>1 DEF AcceptedCopyIsShown
  <2>3. ASSUME NEW o, Observe(o) PROVE AcceptedCopyIsShown'
    BY <2>3 DEF Observe, NoFailure, AcceptedCopyIsShown
  <2>4. ASSUME NEW answer, Rank(answer) PROVE AcceptedCopyIsShown'
    BY <2>1, <2>2, <2>4 DEF Rank
  <2>5. ASSUME NEW answer \in CopiesOf(offered), WritePlan(answer) PROVE AcceptedCopyIsShown'
    <3> DEFINE p == Render(selection, answer)
    <3>1. CASE ~CopyAccepted(answer, selection)
      BY <2>2, <2>5, <3>1 DEF WritePlan
    <3>2. CASE CopyAccepted(answer, selection) /\ PageProblem(p, selection, answer)
      <4>1. FailedAt("PAGE", answer)
        BY <2>5, <3>2 DEF WritePlan
      <4>2. failure'.said = answer
        BY <4>1 DEF FailedAt
      <4>3. \A s \in Sides : SidePlan(selection, s)
        BY <2>5, SelectionIsAPlan DEF WritePlan, SelectionInv, Chosen
      <4>4. ~Fit(answer, selection)
        BY <3>2, <4>3, PageIsShown
      <4>5. Len(answer.news) \in Nat
        BY <2>5 DEF CopiesOf
      <4>6. CASE \E x \in answer.notes : ~(Said(x.note) <= 1)
        <5>1. PICK x \in answer.notes : ~(Said(x.note) <= 1)
          BY <4>6
        <5>2. Said(x.note) > 1
          BY <5>1 DEF Said
        <5> QED
          BY <4>2, <5>2 DEF AcceptedCopyIsShown
      <4>7. CASE answer.text # "PLAIN" \/ Values(answer.news) \cap Unfit # {}
        BY <4>2, <4>7 DEF AcceptedCopyIsShown
      <4> QED
        BY <3>2, <4>4, <4>5, <4>6, <4>7 DEF Fit
    <3>3. CASE CopyAccepted(answer, selection) /\ ~PageProblem(p, selection, answer)
      BY <2>1, <2>5, <3>3 DEF WritePlan
    <3> QED
      BY <3>1, <3>2, <3>3
  <2>6. CASE Abandon
    BY <2>2, <2>6 DEF Abandon
  <2>7. ASSUME NEW file, Edit(file) PROVE AcceptedCopyIsShown'
    BY <2>1, <2>7 DEF Edit
  <2>8. CASE Gate
    BY <2>1, <2>8 DEF Gate
  <2> QED
    BY <2>1, <2>3, <2>4, <2>5, <2>6, <2>7, <2>8 DEF TradePlanNext, tradePlanVars
<1> QED
  BY <1>1, <1>2, SelectionInit, SelectionStep, PTL DEF TradePlanSpec
=============================================================================

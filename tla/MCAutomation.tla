---------------------------- MODULE MCAutomation ----------------------------
(* Small instances of Automation: submissions and invocations by hand share  *)
(* one bound, so that two submissions, or one and a hand's, meet each other. *)
EXTENDS Automation

CONSTANT MaxAsks   \* bound: submissions and invocations by hand together

TwoDelays == <<1, 2>>

Bounded == Init /\ [][Next /\ submits' + hands' <= MaxAsks]_vars /\ Fairness
=============================================================================

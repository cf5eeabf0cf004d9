------------------------------ MODULE TaskLedger ------------------------------
(***************************************************************************)
(* What the orchestration store promises its readers, whoever runs the     *)
(* tasks: a submitted task stays open while it spends a budget of          *)
(* MaxAttempts attempts one at a time, and one of those attempts decides   *)
(* it, once and for good.  Claims, releases, recoveries, crashes and       *)
(* duplicated executions are invisible here.                               *)
(***************************************************************************)
EXTENDS Naturals

CONSTANTS Tasks, MaxAttempts

VARIABLES verdict, \* "none": not submitted; "open"; or how the task ended
          spent    \* attempts recorded against the budget

ledger == <<verdict, spent>>

Verdicts == {"succeeded", "failed", "dead_letter"}

LedgerTypeOK ==
  /\ verdict \in [Tasks -> Verdicts \union {"none", "open"}]
  /\ spent \in [Tasks -> 0..MaxAttempts]

Init ==
  /\ verdict = [t \in Tasks |-> "none"]
  /\ spent = [t \in Tasks |-> 0]

Submit(t) ==
  /\ verdict[t] = "none"
  /\ verdict' = [verdict EXCEPT ![t] = "open"]
  /\ UNCHANGED spent

(* A failed attempt that leaves budget for another.                        *)
Retry(t) ==
  /\ verdict[t] = "open"
  /\ spent[t] + 1 < MaxAttempts
  /\ spent' = [spent EXCEPT ![t] = @ + 1]
  /\ UNCHANGED verdict

(* The deciding attempt; only the last of the budget dead-letters.         *)
Decide(t, v) ==
  /\ verdict[t] = "open"
  /\ spent[t] < MaxAttempts
  /\ v = "dead_letter" => spent[t] + 1 = MaxAttempts
  /\ verdict' = [verdict EXCEPT ![t] = v]
  /\ spent' = [spent EXCEPT ![t] = @ + 1]

Attempt(t) == Retry(t) \/ \E v \in Verdicts : Decide(t, v)

Next == \E t \in Tasks : Submit(t) \/ Attempt(t)

Spec == Init /\ [][Next]_ledger
=============================================================================

----------------------------- MODULE TaskRegistry -----------------------------
(***************************************************************************)
(* What submission promises: at most one task per identity, and every      *)
(* answer names the task of the identity it was asked for.  A task may be  *)
(* registered without anybody being told (the answer was lost).            *)
(***************************************************************************)
CONSTANTS Requests, \* submissions; a task is named after the one that made it
          Keys,     \* identities of tasks that must not be made twice
          NoKey,    \* the identity of a task that may be made any number of times
          NoTask    \* no answer

VARIABLES identity, \* the identity each submission asks for; NoKey until it does
          tasks,    \* the submissions whose task exists
          answer    \* the task each submission was told

registry == <<identity, tasks, answer>>

Init ==
  /\ identity = [r \in Requests |-> NoKey]
  /\ tasks = {}
  /\ answer = [r \in Requests |-> NoTask]

Ask(r, k) ==
  /\ r \notin tasks
  /\ identity[r] = NoKey
  /\ identity' = [identity EXCEPT ![r] = k]
  /\ UNCHANGED <<tasks, answer>>

(* The task of r comes into being, if its identity is free.                *)
Register(r) ==
  /\ r \notin tasks
  /\ identity[r] \in Keys => \A q \in tasks : identity[q] # identity[r]
  /\ tasks' = tasks \union {r}

(* r is told its own task or, for a taken identity, the one that has it.   *)
Tell(r, q) ==
  /\ answer[r] = NoTask
  /\ q \in tasks'
  /\ \/ q = r
     \/ identity[r] \in Keys /\ identity[q] = identity[r]
  /\ answer' = [answer EXCEPT ![r] = q]
  /\ UNCHANGED identity

Next ==
  \E r \in Requests :
    \/ \E k \in Keys : Ask(r, k)
    \/ Register(r) /\ (Tell(r, r) \/ UNCHANGED <<identity, answer>>)
    \/ \E q \in tasks : UNCHANGED tasks /\ Tell(r, q)

Spec == Init /\ [][Next]_registry
=============================================================================

------------------------------ MODULE TaskIntake ------------------------------
(***************************************************************************)
(* How an analysis task is submitted: API handlers that build a task with  *)
(* a fresh id and snapshot and call insert_task_with_snapshot, which looks *)
(* the dedupe key up, inserts task and snapshot in one transaction, and    *)
(* settles the race it may lose against another handler.                   *)
(*                                                                         *)
(* The statements of one insert are separate actions, since handlers of    *)
(* one or several processes interleave between them.  READ COMMITTED: a    *)
(* SELECT sees committed rows; an INSERT under the unique dedupe index     *)
(* waits for a transaction that has inserted the same key to end.          *)
(*                                                                         *)
(* A request that a client sends again is another request with the same    *)
(* key.  The task it would make is named after the request.                *)
(***************************************************************************)
CONSTANTS Requests,  \* submissions, each handled once
          Keys,      \* dedupe keys: closed bars, trading dates
          NoKey,     \* no dedupe key: a task of an open bar
          NoTask,    \* no answer yet
          CallsFail  \* BOOLEAN: whether calls to the database may fail

ASSUME NoKeyAssumption == NoKey \notin Keys
ASSUME NoTaskAssumption == NoTask \notin Requests
ASSUME CallsFailAssumption == CallsFail \in BOOLEAN

VARIABLES step,      \* where each request is in its handler
          key,       \* the dedupe key of its task
          committed, \* the requests whose task and snapshot are in the tables
          answer     \* the task its response names

vars == <<step, key, committed, answer>>

Step == {"new", "lookup", "insert", "snapshot", "commit", "refused", "fetch",
         "answered", "failed"}

TypeOK ==
  /\ step \in [Requests -> Step]
  /\ key \in [Requests -> Keys \union {NoKey}]
  /\ committed \subseteq Requests
  /\ answer \in [Requests -> Requests \union {NoTask}]

Init ==
  /\ step = [r \in Requests |-> "new"]
  /\ key = [r \in Requests |-> NoKey]
  /\ committed = {}
  /\ answer = [r \in Requests |-> NoTask]

Goto(r, s) == step' = [step EXCEPT ![r] = s]

SameKey(q, r) == key[r] \in Keys /\ key[q] = key[r]

(* Requests whose row is inserted by a transaction that is still open.     *)
Open == {r \in Requests : step[r] \in {"snapshot", "commit"}}

-----------------------------------------------------------------------------
(* The handler has resolved its input and built task and snapshot; without *)
(* a dedupe key there is nothing to look up.                               *)
Submit(r, k) ==
  /\ step[r] = "new"
  /\ key' = [key EXCEPT ![r] = k]
  /\ Goto(r, IF k = NoKey THEN "insert" ELSE "lookup")
  /\ UNCHANGED <<committed, answer>>

(* Mutant: the WHERE clause of the SELECT is lost.                         *)
Existing_NoWhere(r) == IF committed = {} THEN {NoTask} ELSE committed

(* SELECT id FROM analysis_tasks WHERE dedupe_key = $1 LIMIT 1.            *)
Existing(r) ==
  LET rows == {q \in committed : SameKey(q, r)}
  IN  IF rows = {} THEN {NoTask} ELSE rows

(* A row with the key answers the request at once.                         *)
Lookup(r) ==
  /\ step[r] = "lookup"
  /\ \E q \in Existing(r) :
       /\ answer' = [answer EXCEPT ![r] = q]
       /\ Goto(r, IF q = NoTask THEN "insert" ELSE "fetch")
  /\ UNCHANGED <<key, committed>>

(* Mutant: the migration's unique index is missing.                        *)
Free_NoIndex(r) == TRUE

(* No row, committed or not, has the key of r.                             *)
Free(r) == \A q \in committed \union Open : ~ SameKey(q, r)

InsertTask(r) ==
  /\ step[r] = "insert"
  /\ Free(r)
  /\ Goto(r, "snapshot")
  /\ UNCHANGED <<key, committed, answer>>

(* Error 23505 once the other transaction has committed; rolled back.      *)
InsertRefused(r) ==
  /\ step[r] = "insert"
  /\ \E q \in committed : SameKey(q, r)
  /\ Goto(r, "refused")
  /\ UNCHANGED <<key, committed, answer>>

InsertSnapshot(r) ==
  /\ step[r] = "snapshot"
  /\ Goto(r, "commit")
  /\ UNCHANGED <<key, committed, answer>>

Commit(r) ==
  /\ step[r] = "commit"
  /\ committed' = committed \union {r}
  /\ answer' = [answer EXCEPT ![r] = r]
  /\ Goto(r, "answered")
  /\ UNCHANGED key

(* The commit goes through and its acknowledgement does not.               *)
CommitAckLost(r) ==
  /\ CallsFail
  /\ step[r] = "commit"
  /\ committed' = committed \union {r}
  /\ Goto(r, "failed")
  /\ UNCHANGED <<key, answer>>

(* Mutant: answers with the id the handler made up itself.                 *)
FindExisting_OwnId(r) ==
  /\ step[r] = "refused"
  /\ answer' = [answer EXCEPT ![r] = r]
  /\ Goto(r, "fetch")
  /\ UNCHANGED <<key, committed>>

(* Mutant: inserts again instead of looking up who was faster.             *)
FindExisting_InsertAgain(r) ==
  /\ step[r] = "refused"
  /\ Goto(r, "insert")
  /\ UNCHANGED <<key, committed, answer>>

(* find_existing_task_id_by_dedupe, outside the transaction; if it finds   *)
(* nothing the insert error itself is returned.                            *)
FindExisting(r) ==
  /\ step[r] = "refused"
  /\ \E q \in Existing(r) :
       /\ answer' = [answer EXCEPT ![r] = q]
       /\ Goto(r, IF q = NoTask THEN "failed" ELSE "fetch")
  /\ UNCHANGED <<key, committed>>

(* enqueue_task reads the existing task to build its response.             *)
FetchExisting(r) ==
  /\ step[r] = "fetch"
  /\ Goto(r, IF answer[r] \in committed THEN "answered" ELSE "failed")
  /\ UNCHANGED <<key, committed, answer>>

(* A call fails or the process dies: an open transaction is rolled back    *)
(* and the client is not answered.                                         *)
Fail(r) ==
  /\ CallsFail
  /\ step[r] \notin {"new", "answered", "failed"}
  /\ Goto(r, "failed")
  /\ answer' = [answer EXCEPT ![r] = NoTask]
  /\ UNCHANGED <<key, committed>>

Advance(r) ==
  \/ Lookup(r)
  \/ InsertTask(r) \/ InsertRefused(r) \/ InsertSnapshot(r)
  \/ Commit(r) \/ CommitAckLost(r)
  \/ FindExisting(r) \/ FetchExisting(r)

Next ==
  \E r \in Requests :
    \/ \E k \in Keys \union {NoKey} : Submit(r, k)
    \/ Advance(r)
    \/ Fail(r)

Spec == Init /\ [][Next]_vars

(* A handler that can go on does; a database that may fail need not.       *)
FairSpec == Spec /\ \A r \in Requests : WF_vars(Advance(r))

-----------------------------------------------------------------------------
(* No two rows share a dedupe key, whatever handlers race to insert it     *)
(* (repository.rs:669-761).                                                *)
OneTaskPerKey ==
  \A q, r \in committed \union Open : SameKey(q, r) => q = r

(* A response names a task that is in the tables and has the key that was  *)
(* asked for; a request without a key is answered by its own task.         *)
AnswersAreRight ==
  \A r \in Requests : step[r] = "answered" =>
    /\ answer[r] \in committed
    /\ answer[r] = r \/ SameKey(answer[r], r)

(* A lost race is always settled: the winner's row is there to be found,   *)
(* so the loser never reports the insert error (repository.rs:753-757).    *)
LoserFindsWinner ==
  \A r \in Requests :
    /\ step[r] = "refused" => \E q \in committed : SameKey(q, r)
    /\ step[r] = "fetch" => answer[r] \in committed

(* Every submission is answered or reported failed: waiting for the other  *)
(* transaction on a key never ends in a standstill.                        *)
EveryRequestEnds ==
  \A r \in Requests : step[r] # "new" ~> step[r] \in {"answered", "failed"}

(* Refinement: seen through the registry, a task exists once it commits.   *)
Told == [r \in Requests |-> IF step[r] = "answered" THEN answer[r] ELSE NoTask]

Registry == INSTANCE TaskRegistry
              WITH identity <- key, tasks <- committed, answer <- Told

(* Concurrent handlers submit as if one after the other.                   *)
ImplementsRegistry == Registry!Spec
=============================================================================

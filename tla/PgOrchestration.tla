--------------------------- MODULE PgOrchestration ---------------------------
(***************************************************************************)
(* The PostgreSQL orchestration store of pa-orchestrator                   *)
(* (PgOrchestrationRepository) as its clients see it: the task, attempt,   *)
(* result and dead-letter tables, the constraints the migrations put on    *)
(* them, and one action per statement or transaction that writes them.     *)
(*                                                                         *)
(* A transaction either commits as a whole or leaves the tables alone, so  *)
(* each is one action whose conjuncts are its statements in order; the     *)
(* conjuncts that carry no prime are the constraints a statement must      *)
(* satisfy.  Who calls what, and what happens when a call fails, is        *)
(* AnalysisWorkers' business.                                              *)
(*                                                                         *)
(* Tasks are numbers: a task's number is its place in the claim order      *)
(* (scheduled_at, id), not the order of insertion.  Payloads (snapshot,    *)
(* prompt, output) are left out; a snapshot row exists exactly when its    *)
(* task row does, because both are written in one transaction.             *)
(***************************************************************************)
EXTENDS Naturals

CONSTANTS Tasks,        \* the analysis tasks that can ever be enqueued
          MaxAttempts   \* max_attempts of every task row (DEFAULT_MAX_ATTEMPTS)

ASSUME TasksAssumption == Tasks \subseteq Nat
ASSUME MaxAttemptsAssumption == MaxAttempts \in Nat \ {0}

VARIABLES status,        \* analysis_tasks.status; "absent": no such row yet
          attempt_count, \* analysis_tasks.attempt_count
          started_at,    \* analysis_tasks.started_at against the recovery cutoff
          finished_at,   \* analysis_tasks.finished_at IS NOT NULL
          last_error,    \* analysis_tasks.last_error_code
          attempts,      \* analysis_attempts, per task
          results,       \* the tasks with a row in analysis_results
          dead_letters   \* analysis_dead_letters: task -> number of last attempt

storeVars == <<status, attempt_count, started_at, finished_at, last_error,
               attempts, results, dead_letters>>

-----------------------------------------------------------------------------
Claimable == {"pending", "retry_waiting"}
Terminal  == {"succeeded", "failed", "dead_letter"}
TaskStatus == {"absent", "running"} \union Claimable \union Terminal

(* "null": never claimed; "recent": first claimed less than five minutes   *)
(* ago; "stale": first claimed before the cutoff of startup recovery.      *)
StartedAt == {"null", "recent", "stale"}

ErrorCode == {"none", "claim_released", "worker_recovered_on_startup",
              "retryable_error", "terminal_error", "final_error"}

AttemptStatus == {"succeeded", "schema_validation_failed", "outbound_failed"}
AttemptRow == [no : 1..MaxAttempts, status : AttemptStatus]

(* A dead-letter row: which task, and the attempt it names as the last.    *)
DeadLetterRow == [task : Tasks, last_attempt : 1..MaxAttempts]

StoreTypeOK ==
  /\ status \in [Tasks -> TaskStatus]
  /\ attempt_count \in [Tasks -> 0..MaxAttempts]
  /\ started_at \in [Tasks -> StartedAt]
  /\ finished_at \in [Tasks -> BOOLEAN]
  /\ last_error \in [Tasks -> ErrorCode]
  /\ attempts \in [Tasks -> SUBSET AttemptRow]
  /\ results \in SUBSET Tasks
  /\ dead_letters \in SUBSET DeadLetterRow

StoreInit ==
  /\ status = [t \in Tasks |-> "absent"]
  /\ attempt_count = [t \in Tasks |-> 0]
  /\ started_at = [t \in Tasks |-> "null"]
  /\ finished_at = [t \in Tasks |-> FALSE]
  /\ last_error = [t \in Tasks |-> "none"]
  /\ attempts = [t \in Tasks |-> {}]
  /\ results = {}
  /\ dead_letters = {}

-----------------------------------------------------------------------------
(* insert_task_with_snapshot for a task whose identity is new: the factory *)
(* writes a pending row, and the snapshot commits with it.                 *)
InsertTask(t) ==
  /\ status[t] = "absent"
  /\ status' = [status EXCEPT ![t] = "pending"]
  /\ UNCHANGED <<attempt_count, started_at, finished_at, last_error,
                 attempts, results, dead_letters>>

(* The UPDATE of claim_next_pending_task: started_at keeps the time of the *)
(* first claim (COALESCE).                                                 *)
ClaimRow(t) ==
  /\ status[t] \in Claimable
  /\ status' = [status EXCEPT ![t] = "running"]
  /\ started_at' = [started_at EXCEPT ![t] = IF @ = "null" THEN "recent" ELSE @]
  /\ UNCHANGED <<attempt_count, finished_at, last_error, attempts, results,
                 dead_letters>>

(* Mutant: the UPDATE forgets AND status = 'running'.                      *)
ReleaseRow_AnyStatus(t) ==
  /\ status' = [status EXCEPT ![t] = "pending"]
  /\ last_error' = [last_error EXCEPT ![t] = "claim_released"]
  /\ UNCHANGED <<attempt_count, started_at, finished_at, attempts, results,
                 dead_letters>>

(* release_claimed_task: the UPDATE matches a running row only; on any     *)
(* other row it affects nothing and the call returns an error.             *)
ReleaseRow(t) ==
  IF status[t] = "running"
  THEN /\ status' = [status EXCEPT ![t] = "pending"]
       /\ last_error' = [last_error EXCEPT ![t] = "claim_released"]
       /\ UNCHANGED <<attempt_count, started_at, finished_at, attempts,
                      results, dead_letters>>
  ELSE UNCHANGED storeVars

(* Mutants: no condition on the status; the cutoff compared the wrong way. *)
IsStale_AnyStatus(t) == started_at[t] = "stale"
IsStale_Recent(t) == status[t] = "running" /\ started_at[t] = "recent"

IsStale(t) == status[t] = "running" /\ started_at[t] = "stale"

(* recover_stale_running_tasks: one UPDATE over every stale running row.   *)
RecoverStale ==
  /\ status' = [t \in Tasks |-> IF IsStale(t) THEN "retry_waiting" ELSE status[t]]
  /\ last_error' = [t \in Tasks |->
       IF IsStale(t) THEN "worker_recovered_on_startup" ELSE last_error[t]]
  /\ UNCHANGED <<attempt_count, started_at, finished_at, attempts, results,
                 dead_letters>>

(* Five minutes pass since the first claim of t.                           *)
Age(t) ==
  /\ started_at[t] = "recent"
  /\ started_at' = [started_at EXCEPT ![t] = "stale"]
  /\ UNCHANGED <<status, attempt_count, finished_at, last_error, attempts,
                 results, dead_letters>>

-----------------------------------------------------------------------------
(* Mutant: the table lacks UNIQUE (task_id, attempt_no).                   *)
InsertAttempt_NotUnique(t, no, s) ==
  attempts' = [attempts EXCEPT ![t] = @ \union {[no |-> no, status |-> s]}]

(* insert_attempt_row: CHECK (attempt_no > 0) and                          *)
(* analysis_attempts_task_attempt_unique.                                  *)
InsertAttempt(t, no, s) ==
  /\ no > 0
  /\ \A a \in attempts[t] : a.no # no
  /\ attempts' = [attempts EXCEPT ![t] = @ \union {[no |-> no, status |-> s]}]

(* Mutant: the outcome does not count the attempt.                         *)
UpdateOutcome_NotCounted(t, s, code, mark_finished) ==
  /\ status' = [status EXCEPT ![t] = s]
  /\ finished_at' = [finished_at EXCEPT ![t] = mark_finished \/ @]
  /\ last_error' = [last_error EXCEPT ![t] = code]
  /\ UNCHANGED <<started_at, attempt_count>>

(* update_task_outcome_row: no condition on the row's status; the count    *)
(* must satisfy CHECK (attempt_count <= max_attempts).                     *)
UpdateOutcome(t, s, code, mark_finished) ==
  /\ attempt_count[t] + 1 <= MaxAttempts
  /\ status' = [status EXCEPT ![t] = s]
  /\ attempt_count' = [attempt_count EXCEPT ![t] = @ + 1]
  /\ finished_at' = [finished_at EXCEPT ![t] = mark_finished \/ @]
  /\ last_error' = [last_error EXCEPT ![t] = code]
  /\ UNCHANGED started_at

PersistSuccess(t, no) ==
  /\ InsertAttempt(t, no, "succeeded")
  /\ t \notin results                     \* analysis_results.task_id UNIQUE
  /\ results' = results \union {t}
  /\ UpdateOutcome(t, "succeeded", "none", TRUE)
  /\ UNCHANGED dead_letters

(* Mutant: what the storage design says, without asking the retry budget.  *)
PersistSchemaFailure_Retried(t, no) ==
  /\ InsertAttempt(t, no, "schema_validation_failed")
  /\ UpdateOutcome(t, "retry_waiting", "retryable_error", FALSE)
  /\ UNCHANGED <<results, dead_letters>>

PersistSchemaFailure(t, no) ==
  /\ InsertAttempt(t, no, "schema_validation_failed")
  /\ UpdateOutcome(t, "failed", "terminal_error", TRUE)
  /\ UNCHANGED <<results, dead_letters>>

(* Mutant: the attempt is recorded but the row is not given back.          *)
PersistRetry_StaysRunning(t, no) ==
  /\ InsertAttempt(t, no, "outbound_failed")
  /\ UpdateOutcome(t, "running", "retryable_error", FALSE)
  /\ UNCHANGED <<results, dead_letters>>

PersistRetry(t, no) ==
  /\ InsertAttempt(t, no, "outbound_failed")
  /\ UpdateOutcome(t, "retry_waiting", "retryable_error", FALSE)
  /\ UNCHANGED <<results, dead_letters>>

PersistTerminal(t, no) ==
  /\ InsertAttempt(t, no, "outbound_failed")
  /\ UpdateOutcome(t, "failed", "terminal_error", TRUE)
  /\ UNCHANGED <<results, dead_letters>>

PersistDeadLetter(t, no) ==
  /\ InsertAttempt(t, no, "outbound_failed")
  /\ \A d \in dead_letters : d.task # t   \* analysis_dead_letters.task_id UNIQUE
  /\ dead_letters' = dead_letters \union {[task |-> t, last_attempt |-> no]}
  /\ UpdateOutcome(t, "dead_letter", "final_error", TRUE)
  /\ UNCHANGED results
=============================================================================

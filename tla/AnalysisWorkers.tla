--------------------------- MODULE AnalysisWorkers ---------------------------
(***************************************************************************)
(* The background analysis workers of pa-app over the PostgreSQL           *)
(* orchestration store: one worker loop per server process, each running   *)
(* run_single_task over and over, processes that crash and start again     *)
(* with startup recovery, and calls to the store that fail.                *)
(*                                                                         *)
(* A worker keeps what the claim returned (task, attempt_count) and uses   *)
(* it, unrefreshed, until the iteration ends: that is the state other      *)
(* workers, recovery and releases make stale.                              *)
(***************************************************************************)
EXTENDS PgOrchestration

CONSTANTS Workers,      \* server processes, each with one worker loop
          NoTask,       \* a worker that holds no claim
          Unregistered, \* tasks whose prompt step the running build cannot resolve
          Faults        \* which failures the environment may inject

FaultKinds == {"crash",        \* a process dies
               "call_fails",   \* a load or persist fails and changes nothing
               "ack_lost",     \* a persist commits but its caller sees an error
               "claim_lost",   \* a claim commits but its caller sees an error
               "release_fails"} \* releasing a claim fails (the error is dropped)

ASSUME NoTaskAssumption == NoTask \notin Tasks
ASSUME UnregisteredAssumption == Unregistered \subseteq Tasks
ASSUME FaultsAssumption == Faults \subseteq FaultKinds

VARIABLES phase,      \* where each process is in its loop
          held,       \* the task of the claim it works on
          held_count, \* attempt_count as the claim returned it
          call        \* the store call its outcome leads to

workerVars == <<phase, held, held_count, call>>
vars == <<storeVars, workerVars>>

-----------------------------------------------------------------------------
Phase == {"down", "idle", "loading", "executing", "persisting", "releasing"}
PersistCall == {"success", "schema_failure", "retry", "terminal", "dead_letter"}
(* mark_task_failed: what an executor error leads to, and what the         *)
(* PostgreSQL repository answers with an "unsupported" error.              *)
Call == PersistCall \union {"none", "mark_failed"}

WorkersTypeOK ==
  /\ phase \in [Workers -> Phase]
  /\ held \in [Workers -> Tasks \union {NoTask}]
  /\ held_count \in [Workers -> 0..MaxAttempts]
  /\ call \in [Workers -> Call]

TypeOK == StoreTypeOK /\ WorkersTypeOK

Init ==
  /\ StoreInit
  /\ phase = [w \in Workers |-> "down"]
  /\ held = [w \in Workers |-> NoTask]
  /\ held_count = [w \in Workers |-> 0]
  /\ call = [w \in Workers |-> "none"]

(* The worker forgets its claim and goes to phase p.                       *)
Forget(w, p) ==
  /\ phase' = [phase EXCEPT ![w] = p]
  /\ held' = [held EXCEPT ![w] = NoTask]
  /\ held_count' = [held_count EXCEPT ![w] = 0]
  /\ call' = [call EXCEPT ![w] = "none"]

Goto(w, p) ==
  /\ phase' = [phase EXCEPT ![w] = p]
  /\ UNCHANGED <<held, held_count, call>>

(* with_claim_recovery after an error: all it keeps is the task's id.      *)
Recover(w) ==
  /\ phase' = [phase EXCEPT ![w] = "releasing"]
  /\ held_count' = [held_count EXCEPT ![w] = 0]
  /\ call' = [call EXCEPT ![w] = "none"]
  /\ UNCHANGED held

-----------------------------------------------------------------------------
(* An API handler enqueues a task.                                         *)
Enqueue(t) == InsertTask(t) /\ UNCHANGED workerVars

Tick(t) == Age(t) /\ UNCHANGED workerVars

(* main: recovery runs to completion before the worker is spawned.         *)
Start(w) ==
  /\ phase[w] = "down"
  /\ RecoverStale
  /\ Goto(w, "idle")

(* The process dies; a transaction it had open is rolled back.             *)
Crash(w) ==
  /\ "crash" \in Faults
  /\ phase[w] # "down"
  /\ Forget(w, "down")
  /\ UNCHANGED storeVars

-----------------------------------------------------------------------------
(* Another worker's transaction may hold the lock of t's row while it      *)
(* writes an outcome or releases: SKIP LOCKED passes over the row.         *)
RowMayBeLocked(t, w) ==
  \E v \in Workers \ {w} : held[v] = t /\ phase[v] \in {"persisting", "releasing"}

(* ORDER BY scheduled_at, id ... FOR UPDATE SKIP LOCKED LIMIT 1.           *)
NextRunnable(t, w) ==
  /\ status[t] \in Claimable
  /\ \A u \in Tasks :
       u < t /\ status[u] \in Claimable => RowMayBeLocked(u, w)

Claim(w) ==
  /\ phase[w] = "idle"
  /\ \E t \in Tasks :
       /\ NextRunnable(t, w)
       /\ ClaimRow(t)
       /\ phase' = [phase EXCEPT ![w] = "loading"]
       /\ held' = [held EXCEPT ![w] = t]
       /\ held_count' = [held_count EXCEPT ![w] = attempt_count[t]]
       /\ UNCHANGED call

(* The claim commits, but the call returns an error (its acknowledgement   *)
(* is lost or the row does not decode).  This call is not under            *)
(* with_claim_recovery: nobody releases the row.                           *)
ClaimLost(w) ==
  /\ "claim_lost" \in Faults
  /\ phase[w] = "idle"
  /\ \E t \in Tasks : NextRunnable(t, w) /\ ClaimRow(t)
  /\ UNCHANGED workerVars

(* Nothing runnable: Ok(false), and the loop sleeps.                       *)
PollEmpty(w) ==
  /\ phase[w] = "idle"
  /\ \A t \in Tasks : status[t] \in Claimable => RowMayBeLocked(t, w)
  /\ UNCHANGED vars

LoadSnapshot(w) ==
  /\ phase[w] = "loading"
  /\ Goto(w, "executing")
  /\ UNCHANGED storeVars

(* The snapshot cannot be read.                                            *)
LoadFails(w) ==
  /\ "call_fails" \in Faults
  /\ phase[w] = "loading"
  /\ Recover(w)
  /\ UNCHANGED storeVars

-----------------------------------------------------------------------------
(* Mutant: retries while attempt <= max_attempts.                          *)
ClassifyRetry_OffByOne(retryable, attempt) ==
  IF ~retryable THEN "terminal"
  ELSE IF attempt <= MaxAttempts THEN "retry" ELSE "dead_letter"

(* classify_retry.                                                         *)
ClassifyRetry(retryable, attempt) ==
  IF ~retryable THEN "terminal"
  ELSE IF attempt < MaxAttempts THEN "retry" ELSE "dead_letter"

(* Executor::execute_json and the match on its outcome: a step the         *)
(* registry cannot resolve is an Analysis error, which is not retryable;   *)
(* otherwise the model answers, answers off-schema, or the call fails.     *)
CallsFor(t, attempt) ==
  IF t \in Unregistered THEN {"mark_failed"}
  ELSE {"success", "schema_failure"}
         \union {ClassifyRetry(r, attempt) : r \in BOOLEAN}

Execute(w) ==
  /\ phase[w] = "executing"
  /\ \E c \in CallsFor(held[w], held_count[w] + 1) :
       call' = [call EXCEPT ![w] = c]
  /\ phase' = [phase EXCEPT ![w] = "persisting"]
  /\ UNCHANGED <<held, held_count, storeVars>>

(* build_attempt_row numbers the attempt from the claimed count.           *)
AttemptNo(w) == held_count[w] + 1

Persist(w) ==
  \/ call[w] = "success"        /\ PersistSuccess(held[w], AttemptNo(w))
  \/ call[w] = "schema_failure" /\ PersistSchemaFailure(held[w], AttemptNo(w))
  \/ call[w] = "retry"          /\ PersistRetry(held[w], AttemptNo(w))
  \/ call[w] = "terminal"       /\ PersistTerminal(held[w], AttemptNo(w))
  \/ call[w] = "dead_letter"    /\ PersistDeadLetter(held[w], AttemptNo(w))

(* The transaction commits and the iteration ends.                         *)
PersistOk(w) ==
  /\ phase[w] = "persisting"
  /\ Persist(w)
  /\ Forget(w, "idle")

(* It commits, but the worker sees an error and tries to release.          *)
PersistAckLost(w) ==
  /\ "ack_lost" \in Faults
  /\ phase[w] = "persisting"
  /\ Persist(w)
  /\ Recover(w)

(* Some constraint of the tables refuses the transaction.                  *)
Refused(w) ==
  \/ \E a \in attempts[held[w]] : a.no = AttemptNo(w)
  \/ attempt_count[held[w]] + 1 > MaxAttempts
  \/ call[w] = "success" /\ held[w] \in results
  \/ call[w] = "dead_letter" /\ \E d \in dead_letters : d.task = held[w]

(* It rolls back: refused, unsupported by the repository, or failed.       *)
PersistFails(w) ==
  /\ phase[w] = "persisting"
  /\ Refused(w) \/ call[w] = "mark_failed" \/ "call_fails" \in Faults
  /\ Recover(w)
  /\ UNCHANGED storeVars

(* release_claimed_task, whoever runs the task by now.                     *)
Release(w) ==
  /\ phase[w] = "releasing"
  /\ ReleaseRow(held[w])
  /\ Forget(w, "idle")

(* `let _ =`: a release that fails is dropped.                             *)
ReleaseFails(w) ==
  /\ "release_fails" \in Faults
  /\ phase[w] = "releasing"
  /\ Forget(w, "idle")
  /\ UNCHANGED storeVars

-----------------------------------------------------------------------------
Next ==
  \/ \E t \in Tasks : Enqueue(t) \/ Tick(t)
  \/ \E w \in Workers :
       \/ Start(w) \/ Crash(w)
       \/ Claim(w) \/ ClaimLost(w) \/ PollEmpty(w)
       \/ LoadSnapshot(w) \/ LoadFails(w) \/ Execute(w)
       \/ PersistOk(w) \/ PersistAckLost(w) \/ PersistFails(w)
       \/ Release(w) \/ ReleaseFails(w)

Spec == Init /\ [][Next]_vars

-----------------------------------------------------------------------------
(* Holds(w, t): w works on a claim of t and may still write its outcome.   *)
Holds(w, t) == held[w] = t /\ phase[w] \in {"loading", "executing", "persisting"}

(* The attempts of a task are numbered 1..attempt_count with no gap and no *)
(* repetition, whichever workers wrote them (worker.rs:184,                *)
(* repository.rs:1339, 1482).                                              *)
AttemptsMatchCount ==
  \A t \in Tasks :
    /\ \A n \in 1..attempt_count[t] : \E a \in attempts[t] : a.no = n
    /\ \A a \in attempts[t] : a.no \in 1..attempt_count[t]
    /\ \A a, b \in attempts[t] : a.no = b.no => a = b

(* A task that can still run has budget left for the attempt it would make,*)
(* so the CHECK on attempt_count never refuses an outcome.                 *)
BudgetLeft ==
  \A t \in Tasks : status[t] \notin Terminal => attempt_count[t] < MaxAttempts

(* The verdict is recorded once and consistently: a result row exactly for *)
(* succeeded tasks, a dead letter exactly for dead-lettered ones, naming   *)
(* the attempt that spent the budget, and finished_at exactly for finished *)
(* tasks, although four tables are written by racing workers.              *)
OneVerdict ==
  \A t \in Tasks :
    /\ status[t] = "succeeded" <=> t \in results
    /\ status[t] = "dead_letter" <=> \E d \in dead_letters : d.task = t
    /\ \A d \in dead_letters :
         d.task = t => d.last_attempt = attempt_count[t] /\ attempt_count[t] = MaxAttempts
    /\ finished_at[t] <=> status[t] \in Terminal

(* Only a task's last attempt decides it: every earlier attempt is a       *)
(* failed call that was retried, and a task still in play has no other.    *)
LastAttemptDecides ==
  \A t \in Tasks : \A a \in attempts[t] :
    IF status[t] \in Terminal /\ a.no = attempt_count[t]
    THEN a.status = "succeeded" <=> status[t] = "succeeded"
    ELSE a.status = "outbound_failed"

(* A claim in flight is never ahead of the task's row: its count is at     *)
(* most the row's, and if the two agree the task is still undecided.  This *)
(* is what lets UNIQUE (task_id, attempt_no) fence a superseded worker.    *)
ClaimsAreFenced ==
  \A w \in Workers : \A t \in Tasks : Holds(w, t) =>
    /\ held_count[w] <= attempt_count[t]
    /\ held_count[w] = attempt_count[t] =>
         status[t] \in Claimable \union {"running"}

(* A decided task never changes again: no late outcome, release, recovery  *)
(* or claim touches its row, its attempts or its verdict.                  *)
RowOf(t) == <<status[t], attempt_count[t], finished_at[t], last_error[t],
              attempts[t], t \in results, {d \in dead_letters : d.task = t}>>
TerminalIsFinal ==
  [][\A t \in Tasks : status[t] \in Terminal => RowOf(t)' = RowOf(t)]_vars

(* A worker whose claim was superseded (the row counts an attempt made     *)
(* since) writes no attempt, result or dead letter.                        *)
SupersededWritesNothing ==
  [][\A w \in Workers : \A t \in Tasks :
       Holds(w, t) /\ held_count[w] < attempt_count[t] /\ phase'[w] # phase[w]
         => UNCHANGED <<attempts, results, dead_letters>>]_vars

-----------------------------------------------------------------------------
(* Refinement: seen through the ledger, a task is open from insertion to   *)
(* its terminal status and has spent attempt_count attempts.               *)
LedgerVerdict ==
  [t \in Tasks |-> IF status[t] = "absent" THEN "none"
                   ELSE IF status[t] \in Terminal THEN status[t] ELSE "open"]

Ledger == INSTANCE TaskLedger WITH verdict <- LedgerVerdict, spent <- attempt_count

(* Workers, recovery and faults implement the ledger: attempts are spent   *)
(* one at a time, none after the verdict, and a dead letter only with the  *)
(* last of the budget.                                                     *)
ImplementsLedger == Ledger!Spec

-----------------------------------------------------------------------------
(* Fairness.  The loop of run_analysis_worker never stops, so a step it    *)
(* can always take is taken: WF on each stage, on Start (a supervisor      *)
(* restarts a dead process) and on the clock.  A read or a write that is   *)
(* made for the same task again and again goes through in the end: SF on   *)
(* the stages that may fail.  Nothing is assumed of enqueuers, of crashes  *)
(* or of failures.                                                         *)
WorkerFairness(w) ==
  /\ WF_vars(Start(w))
  /\ SF_vars(Claim(w))
  /\ WF_vars(LoadSnapshot(w) \/ LoadFails(w))
  /\ WF_vars(Execute(w))
  /\ WF_vars(PersistOk(w) \/ PersistFails(w))
  /\ WF_vars(Release(w) \/ ReleaseFails(w))

TaskFairness(t) ==
  /\ SF_vars(\E w \in Workers : held[w] = t /\ LoadSnapshot(w))
  /\ SF_vars(\E w \in Workers : held[w] = t /\ PersistOk(w))
  /\ WF_vars(Tick(t))

FairSpec ==
  /\ Spec
  /\ \A w \in Workers : WorkerFairness(w)
  /\ \A t \in Tasks : TaskFairness(t)

(* Nobody works on t any more, but its row still says running.             *)
Abandoned(t) == status[t] = "running" /\ \A w \in Workers : held[w] # t

(* What may leave a row running with nobody to finish it.                  *)
Strands(w) == Crash(w) \/ ClaimLost(w) \/ ReleaseFails(w)

(* Once crashes, lost claims and failed releases cease, every enqueued     *)
(* task with no unregistered step at or before its place in the queue is   *)
(* decided, however often loads and persists fail and acknowledgements get *)
(* lost, unless its row is one that was left stranded, which only a        *)
(* restart takes up (main.rs:97-111).                                      *)
EveryTaskSettles ==
  <>[][~ \E w \in Workers : Strands(w)]_vars
    => \A t \in Tasks :
         (\A u \in Unregistered : t < u)
           => (status[t] # "absent" ~> status[t] \in Terminal \/ Abandoned(t))

(* If processes keep being restarted, a row left running by a crash, a     *)
(* lost claim or a dropped release does not stay so (main.rs:49-55).       *)
AbandonedRecoveredByRestarts ==
  ([]<>(\E w \in Workers : phase[w] = "down"))
    => \A t \in Tasks : Abandoned(t) ~> ~Abandoned(t)

(* What the design documents say and the code does not do; each is checked *)
(* by a run that expects the violation.                                    *)

(* "no duplicate concurrent claims" (the same document, :149).             *)
NoDuplicateClaims ==
  \A t \in Tasks : \A v, w \in Workers : Holds(v, t) /\ Holds(w, t) => v = w

(* "non-retryable failures terminate immediately"                          *)
(* (phase2-llm-analysis-orchestration-design.md:393).                      *)
NonRetryableFailuresTerminate ==
  \A t \in Unregistered : status[t] = "running" ~> status[t] = "failed"
=============================================================================

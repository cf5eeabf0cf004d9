------------------------ MODULE AnalysisWorkersProofs ------------------------
(***************************************************************************)
(* Theorems about AnalysisWorkers for every set of tasks and processes,    *)
(* every attempt budget and every choice of faults.                        *)
(*                                                                         *)
(* The argument: a claim in flight carries a count that never exceeds the  *)
(* row's (ClaimsAreFenced), and the attempts of a row are exactly numbered *)
(* 1..attempt_count (AttemptsMatchCount).  An outcome is accepted only     *)
(* under a free attempt number, so only under an up-to-date count, and     *)
(* then the task is still undecided.  Everything else follows.             *)
(***************************************************************************)
EXTENDS AnalysisWorkers, TLAPS

(* A worker in the middle of an iteration holds a task; a pending call     *)
(* agrees with the budget as its claim saw it.                             *)
ClaimsAreSane ==
  \A w \in Workers :
    /\ phase[w] \in {"loading", "executing", "persisting", "releasing"} =>
         held[w] \in Tasks
    /\ phase[w] = "persisting" /\ call[w] = "retry" =>
         held_count[w] + 1 < MaxAttempts
    /\ phase[w] = "persisting" /\ call[w] = "dead_letter" =>
         held_count[w] + 1 = MaxAttempts

(* The invariant of the tables, and that of the claims in flight.          *)
StoreInv == StoreTypeOK /\ AttemptsMatchCount /\ BudgetLeft /\ OneVerdict
              /\ LastAttemptDecides
ClaimsInv == WorkersTypeOK /\ ClaimsAreFenced /\ ClaimsAreSane

IInv == StoreInv /\ ClaimsInv

-----------------------------------------------------------------------------
LEMMA TypeInit == Init => TypeOK
  BY MaxAttemptsAssumption DEF Init, StoreInit, TypeOK, StoreTypeOK, WorkersTypeOK,
     TaskStatus, Claimable, Terminal, StartedAt, ErrorCode, Phase, Call, PersistCall

LEMMA InitInv == Init => IInv
<1> SUFFICES ASSUME Init PROVE IInv
  OBVIOUS
<1>1. TypeOK
  BY TypeInit
<1>2. AttemptsMatchCount
  <2> SUFFICES ASSUME NEW t \in Tasks
               PROVE  /\ \A n \in 1..attempt_count[t] : \E a \in attempts[t] : a.no = n
                      /\ \A a \in attempts[t] : a.no \in 1..attempt_count[t]
                      /\ \A a, b \in attempts[t] : a.no = b.no => a = b
    BY DEF AttemptsMatchCount
  <2>1. attempts[t] = {} /\ attempt_count[t] = 0
    BY DEF Init, StoreInit
  <2> QED
    BY <2>1
<1>3. BudgetLeft
  BY MaxAttemptsAssumption DEF Init, StoreInit, BudgetLeft
<1>4. OneVerdict
  BY DEF Init, StoreInit, OneVerdict, Terminal
<1>5. LastAttemptDecides
  BY DEF Init, StoreInit, LastAttemptDecides
<1>6. ClaimsAreFenced
  BY NoTaskAssumption DEF Init, ClaimsAreFenced, Holds
<1>7. ClaimsAreSane
  BY DEF Init, ClaimsAreSane
<1> QED
  BY <1>1, <1>2, <1>3, <1>4, <1>5, <1>6, <1>7 DEF IInv, StoreInv, ClaimsInv, TypeOK

-----------------------------------------------------------------------------
(* The fence: an attempt number that is free is the row's next one, so the *)
(* claim is up to date and the task undecided.                             *)
LEMMA Fence ==
  ASSUME IInv, NEW w \in Workers, phase[w] = "persisting",
         NEW s, InsertAttempt(held[w], AttemptNo(w), s)
  PROVE  /\ held[w] \in Tasks
         /\ held_count[w] = attempt_count[held[w]]
         /\ status[held[w]] \in Claimable \union {"running"}
         /\ attempt_count[held[w]] < MaxAttempts
<1> DEFINE t == held[w]
<1>1. t \in Tasks /\ Holds(w, t)
  BY DEF IInv, ClaimsInv, ClaimsAreSane, Holds
<1>2. /\ held_count[w] \in Nat /\ attempt_count[t] \in Nat
      /\ held_count[w] <= attempt_count[t]
  BY <1>1, MaxAttemptsAssumption
     DEF IInv, ClaimsInv, ClaimsAreFenced, WorkersTypeOK, StoreInv, StoreTypeOK
<1>3. \A n \in 1..attempt_count[t] : \E a \in attempts[t] : a.no = n
  BY <1>1 DEF IInv, StoreInv, AttemptsMatchCount
<1>4. \A a \in attempts[t] : a.no # held_count[w] + 1
  BY DEF InsertAttempt, AttemptNo
<1>5. held_count[w] + 1 \notin 1..attempt_count[t]
  BY <1>3, <1>4
<1>6. held_count[w] = attempt_count[t]
  BY <1>2, <1>5
<1>7. status[t] \in Claimable \union {"running"}
  BY <1>1, <1>6 DEF IInv, ClaimsInv, ClaimsAreFenced
<1>8. attempt_count[t] < MaxAttempts
  BY <1>1, <1>7 DEF IInv, StoreInv, BudgetLeft, Claimable, Terminal
<1> QED
  BY <1>1, <1>6, <1>7, <1>8

-----------------------------------------------------------------------------
(* What every accepted outcome does to the tables: attempt number          *)
(* attempt_count + 1 of t, with status s, takes the task to status st.     *)
Recorded(t, s, st) ==
  /\ attempts' = [attempts EXCEPT
       ![t] = @ \union {[no |-> attempt_count[t] + 1, status |-> s]}]
  /\ status' = [status EXCEPT ![t] = st]
  /\ attempt_count' = [attempt_count EXCEPT ![t] = @ + 1]
  /\ finished_at' = [finished_at EXCEPT ![t] = (st \in Terminal)]
  /\ last_error' \in [Tasks -> ErrorCode]
  /\ \A u \in Tasks \ {t} : last_error'[u] = last_error[u]
  /\ started_at' = started_at
  /\ results' = IF st = "succeeded" THEN results \union {t} ELSE results
  /\ dead_letters' =
       IF st = "dead_letter"
       THEN dead_letters \union {[task |-> t, last_attempt |-> attempt_count[t] + 1]}
       ELSE dead_letters

(* The outcomes a worker may record: only a success succeeds, a retry only *)
(* with budget left, a dead letter only with the last of it.               *)
Recordable(t, s, st) ==
  /\ s \in AttemptStatus
  /\ st \in Terminal \union {"retry_waiting"}
  /\ s = "succeeded" <=> st = "succeeded"
  /\ st = "retry_waiting" => s = "outbound_failed" /\ attempt_count[t] + 1 < MaxAttempts
  /\ st = "dead_letter" => attempt_count[t] + 1 = MaxAttempts

Undecided(t) == /\ t \in Tasks
                /\ status[t] \in Claimable \union {"running"}
                /\ attempt_count[t] < MaxAttempts

LEMMA RecordedKeepsStore ==
  ASSUME StoreInv, NEW t, NEW s, NEW st,
         Undecided(t), Recordable(t, s, st), Recorded(t, s, st)
  PROVE  StoreInv'
<1> USE MaxAttemptsAssumption
<1>a. /\ t \in Tasks
      /\ attempt_count \in [Tasks -> 0..MaxAttempts]
      /\ attempt_count[t] + 1 \in 1..MaxAttempts
      /\ status[t] \notin Terminal
      /\ t \notin results
      /\ \A d \in dead_letters : d.task # t
  BY DEF Undecided, StoreInv, StoreTypeOK, OneVerdict, Claimable, Terminal
<1>b. \A u \in Tasks \ {t} :
        /\ status'[u] = status[u] /\ attempt_count'[u] = attempt_count[u]
        /\ attempts'[u] = attempts[u] /\ finished_at'[u] = finished_at[u]
        /\ (u \in results') <=> (u \in results)
        /\ \A d : (d \in dead_letters' /\ d.task = u)
                  <=> (d \in dead_letters /\ d.task = u)
  BY <1>a DEF Recorded, StoreInv, StoreTypeOK
<1>c. /\ status'[t] = st /\ attempt_count'[t] = attempt_count[t] + 1
      /\ attempts'[t] = attempts[t] \union {[no |-> attempt_count[t] + 1, status |-> s]}
      /\ finished_at'[t] = (st \in Terminal)
  BY <1>a DEF Recorded, StoreInv, StoreTypeOK
<1>1. StoreTypeOK'
  <2>1. [no |-> attempt_count[t] + 1, status |-> s] \in AttemptRow
    BY <1>a DEF AttemptRow, Recordable
  <2>2. attempts' \in [Tasks -> SUBSET AttemptRow]
    BY <1>a, <2>1 DEF Recorded, StoreInv, StoreTypeOK
  <2>3. st \in TaskStatus
    BY DEF Recordable, TaskStatus, Claimable
  <2>4. [task |-> t, last_attempt |-> attempt_count[t] + 1] \in DeadLetterRow
    BY <1>a DEF DeadLetterRow
  <2>5. /\ status' \in [Tasks -> TaskStatus]
        /\ started_at' \in [Tasks -> StartedAt]
        /\ results' \in SUBSET Tasks
        /\ dead_letters' \in SUBSET DeadLetterRow
    BY <1>a, <2>3, <2>4 DEF Recorded, StoreInv, StoreTypeOK
  <2>6. attempt_count' \in [Tasks -> 0..MaxAttempts]
    BY <1>a DEF Recorded
  <2>7. finished_at' \in [Tasks -> BOOLEAN]
    <3>1. (st \in Terminal) \in BOOLEAN
      OBVIOUS
    <3>2. finished_at \in [Tasks -> BOOLEAN]
      BY DEF StoreInv, StoreTypeOK
    <3> QED
      BY <3>1, <3>2 DEF Recorded
  <2> QED
    BY <2>2, <2>5, <2>6, <2>7 DEF Recorded, StoreTypeOK
<1>2. AttemptsMatchCount'
  <2> SUFFICES ASSUME NEW u \in Tasks
               PROVE  /\ \A n \in 1..attempt_count'[u] : \E a \in attempts'[u] : a.no = n
                      /\ \A a \in attempts'[u] : a.no \in 1..attempt_count'[u]
                      /\ \A a, b \in attempts'[u] : a.no = b.no => a = b
    BY DEF AttemptsMatchCount
  <2>0. /\ \A n \in 1..attempt_count[u] : \E a \in attempts[u] : a.no = n
        /\ \A a \in attempts[u] : a.no \in 1..attempt_count[u]
        /\ \A a, b \in attempts[u] : a.no = b.no => a = b
    BY DEF StoreInv, AttemptsMatchCount
  <2>1. CASE u # t
    BY <2>0, <2>1, <1>b
  <2>2. CASE u = t
    <3> DEFINE new == [no |-> attempt_count[t] + 1, status |-> s]
    <3>1. attempts'[u] = attempts[u] \union {new} /\ new.no = attempt_count[u] + 1
      BY <2>2, <1>c
    <3>2. attempt_count'[u] = attempt_count[u] + 1 /\ attempt_count[u] \in Nat
      BY <2>2, <1>a, <1>c
    <3> HIDE DEF new
    <3>3. \A n \in 1..attempt_count'[u] : \E a \in attempts'[u] : a.no = n
      <4> TAKE n \in 1..attempt_count'[u]
      <4>1. CASE n = attempt_count[u] + 1
        BY <4>1, <3>1
      <4>2. CASE n \in 1..attempt_count[u]
        BY <4>2, <3>1, <2>0
      <4> QED
        BY <4>1, <4>2, <3>2
    <3>4. \A a \in attempts'[u] : a.no \in 1..attempt_count'[u]
      BY <3>1, <3>2, <2>0
    <3>5. \A a, b \in attempts'[u] : a.no = b.no => a = b
      <4> TAKE a, b \in attempts'[u]
      <4>1. CASE a \in attempts[u] /\ b \in attempts[u]
        BY <4>1, <2>0
      <4>2. CASE a = new \/ b = new
        <5>1. \A c \in attempts[u] : c.no # attempt_count[u] + 1
          BY <2>0, <3>2
        <5> QED
          BY <4>2, <5>1, <3>1
      <4> QED
        BY <4>1, <4>2, <3>1
    <3> QED
      BY <3>3, <3>4, <3>5
  <2> QED
    BY <2>1, <2>2
<1>3. BudgetLeft'
  <2> SUFFICES ASSUME NEW u \in Tasks, status'[u] \notin Terminal
               PROVE  attempt_count'[u] < MaxAttempts
    BY DEF BudgetLeft
  <2>1. CASE u # t
    BY <2>1, <1>b DEF StoreInv, BudgetLeft
  <2>2. CASE u = t
    BY <2>2, <1>c DEF Recordable
  <2> QED
    BY <2>1, <2>2
<1>4. OneVerdict'
  <2> SUFFICES ASSUME NEW u \in Tasks
               PROVE  /\ status'[u] = "succeeded" <=> u \in results'
                      /\ status'[u] = "dead_letter" <=> \E d \in dead_letters' : d.task = u
                      /\ \A d \in dead_letters' : d.task = u =>
                           d.last_attempt = attempt_count'[u] /\ attempt_count'[u] = MaxAttempts
                      /\ finished_at'[u] <=> status'[u] \in Terminal
    BY DEF OneVerdict
  <2>1. CASE u # t
    BY <2>1, <1>b DEF StoreInv, OneVerdict
  <2>2. CASE u = t
    <3>1. (u \in results') <=> (st = "succeeded")
      BY <2>2, <1>a DEF Recorded
    <3>2. \A d \in dead_letters' : d.task = u =>
            /\ st = "dead_letter"
            /\ d = [task |-> t, last_attempt |-> attempt_count[t] + 1]
      BY <2>2, <1>a DEF Recorded
    <3>3. st = "dead_letter" => \E d \in dead_letters' : d.task = u
      <4> SUFFICES ASSUME st = "dead_letter"
                   PROVE  \E d \in dead_letters' : d.task = u
        OBVIOUS
      <4>1. [task |-> t, last_attempt |-> attempt_count[t] + 1] \in dead_letters'
        BY DEF Recorded
      <4> QED
        BY <2>2, <4>1
    <3>4. finished_at'[u] <=> status'[u] \in Terminal
      BY <2>2, <1>c
    <3> QED
      BY <2>2, <3>1, <3>2, <3>3, <3>4, <1>c DEF Recordable
  <2> QED
    BY <2>1, <2>2
<1>5. LastAttemptDecides'
  <2> SUFFICES ASSUME NEW u \in Tasks, NEW a \in attempts'[u]
               PROVE  IF status'[u] \in Terminal /\ a.no = attempt_count'[u]
                      THEN a.status = "succeeded" <=> status'[u] = "succeeded"
                      ELSE a.status = "outbound_failed"
    BY DEF LastAttemptDecides
  <2>1. CASE u # t
    BY <2>1, <1>b DEF StoreInv, LastAttemptDecides
  <2>2. CASE u = t /\ a \in attempts[t]
    <3>1. a.status = "outbound_failed"
      BY <2>2, <1>a DEF StoreInv, LastAttemptDecides
    <3>2. a.no # attempt_count'[u]
      BY <2>2, <1>a, <1>c DEF StoreInv, AttemptsMatchCount
    <3> QED
      BY <3>1, <3>2
  <2>3. CASE u = t /\ a = [no |-> attempt_count[t] + 1, status |-> s]
    BY <2>3, <1>c DEF Recordable, Terminal
  <2> QED
    BY <2>1, <2>2, <2>3, <1>c
<1> QED
  BY <1>1, <1>2, <1>3, <1>4, <1>5 DEF StoreInv

-----------------------------------------------------------------------------
(* Whatever the worker's call, a committed outcome is one of those.        *)
LEMMA PersistRecords ==
  ASSUME IInv, NEW w \in Workers, phase[w] = "persisting", Persist(w)
  PROVE  /\ Undecided(held[w])
         /\ held_count[w] = attempt_count[held[w]]
         /\ \E s, st : Recordable(held[w], s, st) /\ Recorded(held[w], s, st)
<1> DEFINE t == held[w]
<1>0. PICK s : InsertAttempt(t, AttemptNo(w), s)
  BY DEF Persist, PersistSuccess, PersistSchemaFailure, PersistRetry, PersistTerminal,
     PersistDeadLetter
<1>1. /\ t \in Tasks
      /\ held_count[w] = attempt_count[t]
      /\ status[t] \in Claimable \union {"running"}
      /\ attempt_count[t] < MaxAttempts
  BY <1>0, Fence
<1>2. AttemptNo(w) = attempt_count[t] + 1
  BY <1>1 DEF AttemptNo
<1>3. /\ call[w] = "retry" => attempt_count[t] + 1 < MaxAttempts
      /\ call[w] = "dead_letter" => attempt_count[t] + 1 = MaxAttempts
  BY <1>1 DEF IInv, ClaimsInv, ClaimsAreSane
<1>4. finished_at[t] = FALSE
  BY <1>1 DEF IInv, StoreInv, OneVerdict, StoreTypeOK, Claimable, Terminal
<1>5. last_error \in [Tasks -> ErrorCode]
  BY DEF IInv, StoreInv, StoreTypeOK
<1>6. ASSUME NEW st \in TaskStatus, NEW code \in ErrorCode, NEW fin \in BOOLEAN,
             fin <=> (st \in Terminal), UpdateOutcome(t, st, code, fin)
      PROVE  /\ status' = [status EXCEPT ![t] = st]
             /\ attempt_count' = [attempt_count EXCEPT ![t] = @ + 1]
             /\ finished_at' = [finished_at EXCEPT ![t] = (st \in Terminal)]
             /\ last_error' \in [Tasks -> ErrorCode]
             /\ \A u \in Tasks \ {t} : last_error'[u] = last_error[u]
             /\ started_at' = started_at
  <2>1. finished_at' = [finished_at EXCEPT ![t] = fin \/ finished_at[t]]
    BY <1>6 DEF UpdateOutcome
  <2>2. (fin \/ finished_at[t]) = (st \in Terminal)
    BY <1>4, <1>6
  <2>3. finished_at' = [finished_at EXCEPT ![t] = (st \in Terminal)]
    BY <2>1, <2>2, Zenon
  <2> QED
    BY <2>3, <1>5, <1>6 DEF UpdateOutcome
<1>7. CASE call[w] = "success" /\ PersistSuccess(t, AttemptNo(w))
  <2>1. Recordable(t, "succeeded", "succeeded")
    BY DEF Recordable, AttemptStatus, Terminal
  <2>2. Recorded(t, "succeeded", "succeeded")
    BY <1>2, <1>6, <1>7
       DEF Recorded, PersistSuccess, InsertAttempt, TaskStatus, Terminal, ErrorCode
  <2> QED
    BY <2>1, <2>2, <1>1 DEF Undecided
<1>8. CASE call[w] = "schema_failure" /\ PersistSchemaFailure(t, AttemptNo(w))
  <2>1. Recordable(t, "schema_validation_failed", "failed")
    BY DEF Recordable, AttemptStatus, Terminal
  <2>2. Recorded(t, "schema_validation_failed", "failed")
    BY <1>2, <1>6, <1>8
       DEF Recorded, PersistSchemaFailure, InsertAttempt, TaskStatus, Terminal, ErrorCode
  <2> QED
    BY <2>1, <2>2, <1>1 DEF Undecided
<1>9. CASE call[w] = "retry" /\ PersistRetry(t, AttemptNo(w))
  <2>1. Recordable(t, "outbound_failed", "retry_waiting")
    BY <1>3, <1>9 DEF Recordable, AttemptStatus, Terminal
  <2>2. Recorded(t, "outbound_failed", "retry_waiting")
    BY <1>2, <1>6, <1>9
       DEF Recorded, PersistRetry, InsertAttempt, TaskStatus, Claimable, Terminal, ErrorCode
  <2> QED
    BY <2>1, <2>2, <1>1 DEF Undecided
<1>10. CASE call[w] = "terminal" /\ PersistTerminal(t, AttemptNo(w))
  <2>1. Recordable(t, "outbound_failed", "failed")
    BY DEF Recordable, AttemptStatus, Terminal
  <2>2. Recorded(t, "outbound_failed", "failed")
    BY <1>2, <1>6, <1>10
       DEF Recorded, PersistTerminal, InsertAttempt, TaskStatus, Terminal, ErrorCode
  <2> QED
    BY <2>1, <2>2, <1>1 DEF Undecided
<1>11. CASE call[w] = "dead_letter" /\ PersistDeadLetter(t, AttemptNo(w))
  <2>1. Recordable(t, "outbound_failed", "dead_letter")
    BY <1>3, <1>11 DEF Recordable, AttemptStatus, Terminal
  <2>2. Recorded(t, "outbound_failed", "dead_letter")
    BY <1>2, <1>6, <1>11
       DEF Recorded, PersistDeadLetter, InsertAttempt, TaskStatus, Terminal, ErrorCode
  <2> QED
    BY <2>1, <2>2, <1>1 DEF Undecided
<1> QED
  BY <1>7, <1>8, <1>9, <1>10, <1>11 DEF Persist

-----------------------------------------------------------------------------
(* Every other step of the store moves undecided tasks about in the queue, *)
(* and inserts at most one.                                                *)
Inserted(t) == status[t] = "absent" /\ status'[t] # "absent"

Shifted ==
  /\ UNCHANGED <<attempt_count, finished_at, attempts, results, dead_letters>>
  /\ status' \in [Tasks -> TaskStatus]
  /\ started_at' \in [Tasks -> StartedAt]
  /\ last_error' \in [Tasks -> ErrorCode]
  /\ \A t \in Tasks : status'[t] # status[t] =>
       /\ status[t] \notin Terminal
       /\ status'[t] \in Claimable \union {"running"}
  /\ \A t \in Tasks : status[t] \in Terminal => last_error'[t] = last_error[t]
  /\ \A t, u \in Tasks : Inserted(t) /\ Inserted(u) => t = u

LEMMA QueueStepsShift ==
  ASSUME StoreTypeOK, NEW t \in Tasks
  PROVE  /\ UNCHANGED storeVars => Shifted
         /\ InsertTask(t) => Shifted
         /\ ClaimRow(t) => Shifted
         /\ ReleaseRow(t) => Shifted
         /\ Age(t) => Shifted
<1> USE DEF StoreTypeOK, Shifted, Inserted, TaskStatus, Claimable, Terminal, ErrorCode, StartedAt
<1>1. UNCHANGED storeVars => Shifted
  BY DEF storeVars
<1>2. InsertTask(t) => Shifted
  BY DEF InsertTask
<1>3. ClaimRow(t) => Shifted
  BY DEF ClaimRow
<1>4. ReleaseRow(t) => Shifted
  BY <1>1 DEF ReleaseRow
<1>5. Age(t) => Shifted
  BY DEF Age
<1> QED
  BY <1>1, <1>2, <1>3, <1>4, <1>5

LEMMA RecoverShifts ==
  ASSUME StoreTypeOK, RecoverStale
  PROVE  Shifted
  BY DEF StoreTypeOK, RecoverStale, IsStale, Shifted, Inserted, TaskStatus, Claimable, Terminal,
     ErrorCode

LEMMA ShiftedKeepsStore ==
  ASSUME StoreInv, Shifted
  PROVE  StoreInv'
<1>1. StoreTypeOK'
  BY DEF StoreInv, StoreTypeOK, Shifted
<1>2. AttemptsMatchCount'
  BY DEF StoreInv, AttemptsMatchCount, Shifted
<1>3. BudgetLeft'
  BY DEF StoreInv, BudgetLeft, Shifted
<1>4. OneVerdict'
  BY DEF StoreInv, OneVerdict, Shifted, Terminal, Claimable
<1>5. LastAttemptDecides'
  BY DEF StoreInv, LastAttemptDecides, Shifted, Terminal, Claimable
<1> QED
  BY <1>1, <1>2, <1>3, <1>4, <1>5 DEF StoreInv

-----------------------------------------------------------------------------
(* Claims.  A store step of either kind leaves every claim fenced: counts  *)
(* never go down, and a task whose count stays put stays undecided.        *)
Fenced(w, t) ==
  /\ held_count[w] <= attempt_count[t]
  /\ held_count[w] = attempt_count[t] => status[t] \in Claimable \union {"running"}

StoreAdvances ==
  \A t \in Tasks :
    /\ attempt_count'[t] = attempt_count[t] =>
         (status[t] \in Claimable \union {"running"}
            => status'[t] \in Claimable \union {"running"})
    /\ attempt_count'[t] # attempt_count[t] =>
         attempt_count'[t] = attempt_count[t] + 1

LEMMA ShiftedAdvances == ASSUME Shifted PROVE StoreAdvances
  BY DEF Shifted, StoreAdvances

LEMMA RecordedAdvances ==
  ASSUME StoreTypeOK, NEW t \in Tasks, NEW s, NEW st, Recorded(t, s, st)
  PROVE  StoreAdvances
<1> SUFFICES ASSUME NEW u \in Tasks
             PROVE  /\ attempt_count'[u] = attempt_count[u] =>
                          (status[u] \in Claimable \union {"running"}
                             => status'[u] \in Claimable \union {"running"})
                    /\ attempt_count'[u] # attempt_count[u] =>
                          attempt_count'[u] = attempt_count[u] + 1
  BY DEF StoreAdvances
<1>1. attempt_count[t] \in Nat /\ attempt_count'[t] = attempt_count[t] + 1
  BY MaxAttemptsAssumption DEF StoreTypeOK, Recorded
<1>2. CASE u = t
  BY <1>1, <1>2
<1>3. CASE u # t
  BY <1>3 DEF StoreTypeOK, Recorded
<1> QED
  BY <1>2, <1>3

(* A claim that a step leaves alone stays fenced.                          *)
LEMMA FenceHolds ==
  ASSUME StoreTypeOK, WorkersTypeOK, StoreAdvances,
         NEW w \in Workers, NEW t \in Tasks, Fenced(w, t),
         held_count'[w] = held_count[w]
  PROVE  Fenced(w, t)'
<1>1. held_count[w] \in Nat /\ attempt_count[t] \in Nat
  BY MaxAttemptsAssumption DEF StoreTypeOK, WorkersTypeOK
<1>2. CASE attempt_count'[t] = attempt_count[t]
  BY <1>1, <1>2 DEF Fenced, StoreAdvances
<1>3. CASE attempt_count'[t] = attempt_count[t] + 1
  BY <1>1, <1>3 DEF Fenced
<1> QED
  BY <1>2, <1>3 DEF StoreAdvances

(* One worker moves.  It either keeps its claim and stays at work, or no   *)
(* longer holds one that counts; the others' claims are untouched.         *)
Keeps(w) ==
  /\ held' = held /\ held_count' = held_count
  /\ \E p \in Phase : phase' = [phase EXCEPT ![w] = p]
  /\ phase'[w] \in {"loading", "executing", "persisting"} =>
       phase[w] \in {"loading", "executing", "persisting"}
  /\ phase'[w] = "releasing" => phase[w] = "releasing"

LEMMA KeepsClaims ==
  ASSUME StoreTypeOK, ClaimsInv, StoreAdvances, NEW w \in Workers, Keeps(w)
  PROVE  ClaimsAreFenced'
<1> SUFFICES ASSUME NEW v \in Workers, NEW t \in Tasks, Holds(v, t)'
             PROVE  Fenced(v, t)'
  BY DEF ClaimsAreFenced, Fenced
<1>1. Holds(v, t)
  BY DEF Holds, Keeps, ClaimsInv, WorkersTypeOK
<1>2. Fenced(v, t)
  BY <1>1 DEF ClaimsInv, ClaimsAreFenced, Fenced
<1> QED
  BY <1>2, FenceHolds DEF Keeps, ClaimsInv

LEMMA DropKeepsClaims ==
  ASSUME StoreTypeOK, ClaimsInv, StoreAdvances, NEW w \in Workers,
         \/ \E p \in {"down", "idle"} : Forget(w, p)
         \/ Recover(w) /\ held[w] \in Tasks
  PROVE  ClaimsInv'
<1>1. WorkersTypeOK'
  BY MaxAttemptsAssumption
     DEF ClaimsInv, WorkersTypeOK, Forget, Recover, Phase, Call
<1>2. \A v \in Workers \ {w} : /\ phase'[v] = phase[v] /\ held'[v] = held[v]
                              /\ held_count'[v] = held_count[v] /\ call'[v] = call[v]
  BY DEF ClaimsInv, WorkersTypeOK, Forget, Recover
<1>3. phase'[w] \in {"down", "idle", "releasing"}
  BY DEF ClaimsInv, WorkersTypeOK, Forget, Recover
<1>4. ClaimsAreFenced'
  <2> SUFFICES ASSUME NEW v \in Workers, NEW t \in Tasks, Holds(v, t)'
               PROVE  Fenced(v, t)'
    BY DEF ClaimsAreFenced, Fenced
  <2>1. v # w
    BY <1>3 DEF Holds
  <2>2. Holds(v, t)
    BY <1>2, <2>1 DEF Holds
  <2>3. Fenced(v, t)
    BY <2>2 DEF ClaimsInv, ClaimsAreFenced, Fenced
  <2> QED
    BY <1>2, <2>1, <2>3, FenceHolds DEF ClaimsInv
<1>5. ClaimsAreSane'
  <2>1. phase'[w] = "releasing" => held'[w] \in Tasks
    BY DEF ClaimsInv, WorkersTypeOK, Forget, Recover
  <2> SUFFICES ASSUME NEW v \in Workers
               PROVE  /\ phase'[v] \in {"loading", "executing", "persisting", "releasing"}
                           => held'[v] \in Tasks
                      /\ phase'[v] = "persisting" /\ call'[v] = "retry" =>
                           held_count'[v] + 1 < MaxAttempts
                      /\ phase'[v] = "persisting" /\ call'[v] = "dead_letter" =>
                           held_count'[v] + 1 = MaxAttempts
    BY DEF ClaimsAreSane
  <2>2. CASE v = w
    BY <2>1, <2>2, <1>3
  <2>3. CASE v # w
    BY <2>3, <1>2 DEF ClaimsInv, ClaimsAreSane
  <2> QED
    BY <2>2, <2>3
<1> QED
  BY <1>1, <1>4, <1>5 DEF ClaimsInv

-----------------------------------------------------------------------------
LEMMA ClaimKeepsClaims ==
  ASSUME IInv, NEW w \in Workers, Claim(w)
  PROVE  ClaimsInv' /\ Shifted
<1>1. PICK t \in Tasks :
        /\ ClaimRow(t)
        /\ phase' = [phase EXCEPT ![w] = "loading"]
        /\ held' = [held EXCEPT ![w] = t]
        /\ held_count' = [held_count EXCEPT ![w] = attempt_count[t]]
        /\ UNCHANGED call
  BY DEF Claim
<1>2. Shifted
  BY <1>1, QueueStepsShift DEF IInv, StoreInv
<1>3. StoreAdvances
  BY <1>2, ShiftedAdvances
<1>4. WorkersTypeOK'
  BY <1>1 DEF IInv, ClaimsInv, WorkersTypeOK, StoreInv, StoreTypeOK, Phase
<1>5. ClaimsAreFenced'
  <2> SUFFICES ASSUME NEW v \in Workers, NEW u \in Tasks, Holds(v, u)'
               PROVE  Fenced(v, u)'
    BY DEF ClaimsAreFenced, Fenced
  <2>1. CASE v = w
    <3>1. u = t /\ held_count'[v] = attempt_count[t] /\ attempt_count' = attempt_count
      BY <2>1, <1>1 DEF Holds, ClaimRow, IInv, ClaimsInv, WorkersTypeOK
    <3>2. status'[t] = "running"
      BY <1>1 DEF ClaimRow, IInv, StoreInv, StoreTypeOK
    <3>3. attempt_count[t] \in Nat
      BY MaxAttemptsAssumption DEF IInv, StoreInv, StoreTypeOK
    <3> QED
      BY <3>1, <3>2, <3>3 DEF Fenced
  <2>2. CASE v # w
    <3>1. Holds(v, u) /\ held_count'[v] = held_count[v]
      BY <2>2, <1>1 DEF Holds, IInv, ClaimsInv, WorkersTypeOK
    <3>2. Fenced(v, u)
      BY <3>1 DEF IInv, ClaimsInv, ClaimsAreFenced, Fenced
    <3> QED
      BY <3>1, <3>2, <1>3, FenceHolds DEF IInv, StoreInv, ClaimsInv
  <2> QED
    BY <2>1, <2>2
<1>6. ClaimsAreSane'
  BY <1>1 DEF IInv, ClaimsInv, WorkersTypeOK, ClaimsAreSane
<1> QED
  BY <1>2, <1>4, <1>5, <1>6 DEF ClaimsInv

(* classify_retry answers with the budget in mind.                         *)
LEMMA ClassifyRespectsBudget ==
  ASSUME NEW r \in BOOLEAN, NEW n \in 0..MaxAttempts - 1
  PROVE  /\ ClassifyRetry(r, n + 1) \in {"terminal", "retry", "dead_letter"}
         /\ ClassifyRetry(r, n + 1) = "retry" => n + 1 < MaxAttempts
         /\ ClassifyRetry(r, n + 1) = "dead_letter" => n + 1 = MaxAttempts
  BY MaxAttemptsAssumption DEF ClassifyRetry

(* A worker's claim leaves it an attempt to make.                          *)
LEMMA HeldBelowBudget ==
  ASSUME IInv, NEW w \in Workers, phase[w] \in {"loading", "executing", "persisting"}
  PROVE  held_count[w] \in 0..MaxAttempts - 1
<1>1. held[w] \in Tasks /\ Holds(w, held[w])
  BY DEF IInv, ClaimsInv, ClaimsAreSane, Holds
<1>2. /\ held_count[w] \in Nat /\ attempt_count[held[w]] \in 0..MaxAttempts
      /\ held_count[w] <= attempt_count[held[w]]
      /\ held_count[w] = attempt_count[held[w]] =>
           status[held[w]] \in Claimable \union {"running"}
  BY <1>1, MaxAttemptsAssumption
     DEF IInv, ClaimsInv, ClaimsAreFenced, WorkersTypeOK, StoreInv, StoreTypeOK
<1>3. held_count[w] = attempt_count[held[w]] => attempt_count[held[w]] < MaxAttempts
  BY <1>1, <1>2 DEF IInv, StoreInv, BudgetLeft, Claimable, Terminal
<1> QED
  BY <1>2, <1>3, MaxAttemptsAssumption

LEMMA ExecuteKeepsClaims ==
  ASSUME IInv, NEW w \in Workers, Execute(w)
  PROVE  ClaimsInv'
<1>1. PICK c \in CallsFor(held[w], held_count[w] + 1) : call' = [call EXCEPT ![w] = c]
  BY DEF Execute
<1>2. held_count[w] \in 0..MaxAttempts - 1
  BY HeldBelowBudget DEF Execute
<1>3. /\ c \in Call
      /\ c = "retry" => held_count[w] + 1 < MaxAttempts
      /\ c = "dead_letter" => held_count[w] + 1 = MaxAttempts
  BY <1>1, <1>2, ClassifyRespectsBudget DEF CallsFor, Call, PersistCall
<1>4. /\ phase[w] = "executing" /\ phase' = [phase EXCEPT ![w] = "persisting"]
      /\ UNCHANGED <<held, held_count, storeVars>>
  BY DEF Execute
<1>5. WorkersTypeOK'
  BY <1>1, <1>3, <1>4 DEF IInv, ClaimsInv, WorkersTypeOK, Phase
<1>6. ClaimsAreFenced'
  <2>1. Keeps(w)
    BY <1>4 DEF Keeps, Phase, IInv, ClaimsInv, WorkersTypeOK
  <2>2. StoreAdvances
    BY <1>4 DEF StoreAdvances, storeVars
  <2> QED
    BY <2>1, <2>2, KeepsClaims DEF IInv, StoreInv
<1>7. ClaimsAreSane'
  BY <1>1, <1>3, <1>4 DEF IInv, ClaimsInv, ClaimsAreSane, WorkersTypeOK
<1> QED
  BY <1>5, <1>6, <1>7 DEF ClaimsInv

(* The steps that only move a worker's phase along.                        *)
LEMMA GotoKeepsClaims ==
  ASSUME IInv, StoreAdvances, NEW w \in Workers,
         \/ phase[w] = "down" /\ Goto(w, "idle")
         \/ phase[w] = "loading" /\ Goto(w, "executing")
  PROVE  ClaimsInv'
<1>1. WorkersTypeOK'
  BY DEF Goto, IInv, ClaimsInv, WorkersTypeOK, Phase
<1>2. Keeps(w)
  BY DEF Goto, Keeps, IInv, ClaimsInv, WorkersTypeOK, Phase
<1>3. ClaimsAreFenced'
  BY <1>2, KeepsClaims DEF IInv, StoreInv
<1>4. ClaimsAreSane'
  BY DEF Goto, IInv, ClaimsInv, WorkersTypeOK, ClaimsAreSane
<1> QED
  BY <1>1, <1>3, <1>4 DEF ClaimsInv

(* The steps of the environment and of the queue that move no worker.      *)
LEMMA IdleKeepsClaims ==
  ASSUME IInv, Shifted, UNCHANGED workerVars
  PROVE  ClaimsInv'
<1>1. WorkersTypeOK' /\ ClaimsAreSane'
  BY DEF IInv, ClaimsInv, WorkersTypeOK, ClaimsAreSane, workerVars
<1>2. ClaimsAreFenced'
  <2> SUFFICES ASSUME NEW v \in Workers, NEW t \in Tasks, Holds(v, t)'
               PROVE  Fenced(v, t)'
    BY DEF ClaimsAreFenced, Fenced
  <2>1. Fenced(v, t) /\ held_count'[v] = held_count[v]
    BY DEF Holds, workerVars, IInv, ClaimsInv, ClaimsAreFenced, Fenced
  <2> QED
    BY <2>1, ShiftedAdvances, FenceHolds DEF IInv, StoreInv, ClaimsInv
<1> QED
  BY <1>1, <1>2 DEF ClaimsInv

-----------------------------------------------------------------------------
(* Every step either shifts tasks in the queue or records the outcome of   *)
(* one up-to-date claim; it keeps the invariant of the claims.             *)
Outcome(w) ==
  /\ phase[w] = "persisting" /\ phase'[w] # "persisting"
  /\ Undecided(held[w])
  /\ held_count[w] = attempt_count[held[w]]
  /\ \A v \in Workers \ {w} : phase'[v] = phase[v]
  /\ \E s, st : Recordable(held[w], s, st) /\ Recorded(held[w], s, st)

LEMMA StepShape ==
  ASSUME IInv, [Next]_vars
  PROVE  /\ ClaimsInv'
         /\ Shifted \/ \E w \in Workers : Outcome(w)
<1> USE DEF IInv, StoreInv
<1>0. ASSUME NEW w \in Workers, Recover(w) \/ Forget(w, "idle"),
             phase[w] = "persisting", Persist(w)
      PROVE  ClaimsInv' /\ Outcome(w)
  <2>1. PICK s, st : /\ Undecided(held[w]) /\ held_count[w] = attempt_count[held[w]]
                     /\ Recordable(held[w], s, st) /\ Recorded(held[w], s, st)
    BY <1>0, PersistRecords
  <2>2. StoreAdvances
    BY <2>1, RecordedAdvances DEF Undecided
  <2>3. ClaimsInv'
    BY <1>0, <2>1, <2>2, DropKeepsClaims DEF Undecided
  <2>4. /\ phase'[w] # "persisting"
        /\ \A v \in Workers \ {w} : phase'[v] = phase[v]
    BY <1>0 DEF Recover, Forget, ClaimsInv, WorkersTypeOK
  <2> QED
    BY <1>0, <2>1, <2>3, <2>4 DEF Outcome
<1>1. ASSUME NEW t \in Tasks, Enqueue(t) PROVE ClaimsInv' /\ Shifted
  BY <1>1, QueueStepsShift, IdleKeepsClaims DEF Enqueue
<1>2. ASSUME NEW t \in Tasks, Tick(t) PROVE ClaimsInv' /\ Shifted
  BY <1>2, QueueStepsShift, IdleKeepsClaims DEF Tick
<1>3. ASSUME NEW w \in Workers, Start(w) PROVE ClaimsInv' /\ Shifted
  BY <1>3, RecoverShifts, ShiftedAdvances, GotoKeepsClaims DEF Start
<1>4. ASSUME NEW w \in Workers, Crash(w) PROVE ClaimsInv' /\ Shifted
  <2>1. Shifted
    BY <1>4 DEF Crash, Shifted, Inserted, storeVars, StoreTypeOK
  <2> QED
    BY <1>4, <2>1, ShiftedAdvances, DropKeepsClaims DEF Crash
<1>5. ASSUME NEW w \in Workers, Claim(w) PROVE ClaimsInv' /\ Shifted
  BY <1>5, ClaimKeepsClaims
<1>6. ASSUME NEW w \in Workers, ClaimLost(w) PROVE ClaimsInv' /\ Shifted
  BY <1>6, QueueStepsShift, IdleKeepsClaims DEF ClaimLost
<1>7. ASSUME UNCHANGED vars PROVE ClaimsInv' /\ Shifted
  <2>1. Shifted
    BY <1>7 DEF vars, Shifted, Inserted, storeVars, StoreTypeOK
  <2> QED
    BY <1>7, <2>1, IdleKeepsClaims DEF vars
<1>8. ASSUME NEW w \in Workers, LoadSnapshot(w) PROVE ClaimsInv' /\ Shifted
  <2>1. Shifted
    BY <1>8 DEF LoadSnapshot, Shifted, Inserted, storeVars, StoreTypeOK
  <2> QED
    BY <1>8, <2>1, ShiftedAdvances, GotoKeepsClaims DEF LoadSnapshot
<1>9. ASSUME NEW w \in Workers, LoadFails(w) \/ PersistFails(w)
      PROVE  ClaimsInv' /\ Shifted
  <2>1. Shifted
    BY <1>9 DEF LoadFails, PersistFails, Shifted, Inserted, storeVars, StoreTypeOK
  <2>2. held[w] \in Tasks
    BY <1>9 DEF LoadFails, PersistFails, ClaimsInv, ClaimsAreSane
  <2> QED
    BY <1>9, <2>1, <2>2, ShiftedAdvances, DropKeepsClaims DEF LoadFails, PersistFails
<1>10. ASSUME NEW w \in Workers, Execute(w) PROVE ClaimsInv' /\ Shifted
  <2>1. Shifted
    BY <1>10 DEF Execute, Shifted, Inserted, storeVars, StoreTypeOK
  <2> QED
    BY <1>10, <2>1, ExecuteKeepsClaims
<1>11. ASSUME NEW w \in Workers, PersistOk(w) \/ PersistAckLost(w)
       PROVE  ClaimsInv' /\ Outcome(w)
  BY <1>0, <1>11 DEF PersistOk, PersistAckLost
<1>12. ASSUME NEW w \in Workers, Release(w) PROVE ClaimsInv' /\ Shifted
  <2>1. held[w] \in Tasks
    BY <1>12 DEF Release, ClaimsInv, ClaimsAreSane
  <2>2. Shifted
    BY <1>12, <2>1, QueueStepsShift DEF Release
  <2> QED
    BY <1>12, <2>2, ShiftedAdvances, DropKeepsClaims DEF Release
<1>13. ASSUME NEW w \in Workers, ReleaseFails(w) PROVE ClaimsInv' /\ Shifted
  <2>1. Shifted
    BY <1>13 DEF ReleaseFails, Shifted, Inserted, storeVars, StoreTypeOK
  <2> QED
    BY <1>13, <2>1, ShiftedAdvances, DropKeepsClaims DEF ReleaseFails
<1>14. ASSUME NEW w \in Workers, PollEmpty(w) PROVE ClaimsInv' /\ Shifted
  BY <1>7, <1>14 DEF PollEmpty
<1> QED
  BY <1>1, <1>2, <1>3, <1>4, <1>5, <1>6, <1>7, <1>8, <1>9, <1>10, <1>11, <1>12, <1>13,
     <1>14 DEF Next

LEMMA StepInv == ASSUME IInv, [Next]_vars PROVE IInv'
<1>1. ClaimsInv'
  BY StepShape
<1>2. CASE Shifted
  BY <1>1, <1>2, ShiftedKeepsStore DEF IInv
<1>3. CASE \E w \in Workers : Outcome(w)
  <2>0. PICK w \in Workers : Outcome(w)
    BY <1>3
  <2>1. PICK s, st : /\ Undecided(held[w])
                     /\ Recordable(held[w], s, st)
                     /\ Recorded(held[w], s, st)
    BY <2>0 DEF Outcome
  <2> QED
    BY <1>1, <2>1, RecordedKeepsStore DEF IInv
<1> QED
  BY <1>2, <1>3, StepShape

-----------------------------------------------------------------------------
(* The inductive invariant holds of every behaviour.                       *)
THEOREM Invariant == Spec => []IInv
<1>1. Init => IInv
  BY InitInv
<1>2. IInv /\ [Next]_vars => IInv'
  BY StepInv
<1> QED
  BY <1>1, <1>2, PTL DEF Spec

(* Type correctness of the tables and of the workers' state.               *)
THEOREM TypeCorrect == Spec => []TypeOK
<1>1. IInv => TypeOK
  BY DEF IInv, StoreInv, ClaimsInv, TypeOK
<1> QED
  BY <1>1, Invariant, PTL

(* Attempt history and counter never diverge, whoever wrote the rows.      *)
THEOREM HistoryMatchesCount == Spec => []AttemptsMatchCount
<1>1. IInv => AttemptsMatchCount
  BY DEF IInv, StoreInv
<1> QED
  BY <1>1, Invariant, PTL

(* A task in play always has an attempt left: the CHECK on attempt_count   *)
(* never refuses an outcome.                                               *)
THEOREM BudgetNeverExceeded == Spec => []BudgetLeft
<1>1. IInv => BudgetLeft
  BY DEF IInv, StoreInv
<1> QED
  BY <1>1, Invariant, PTL

(* One verdict per task, told alike by the four tables.                    *)
THEOREM SingleVerdict == Spec => []OneVerdict
<1>1. IInv => OneVerdict
  BY DEF IInv, StoreInv
<1> QED
  BY <1>1, Invariant, PTL

(* Whatever races, the verdict is that of the last attempt.                *)
THEOREM LastAttemptIsVerdict == Spec => []LastAttemptDecides
<1>1. IInv => LastAttemptDecides
  BY DEF IInv, StoreInv
<1> QED
  BY <1>1, Invariant, PTL

(* The fence on which the others rest.                                     *)
THEOREM ClaimsStayFenced == Spec => []ClaimsAreFenced
<1>1. IInv => ClaimsAreFenced
  BY DEF IInv, ClaimsInv
<1> QED
  BY <1>1, Invariant, PTL

-----------------------------------------------------------------------------
(* What a step may never do, read off StepShape.                           *)
LEMMA DecidedForGood ==
  ASSUME IInv, [Next]_vars, NEW t \in Tasks, status[t] \in Terminal
  PROVE  RowOf(t)' = RowOf(t)
<1>1. CASE Shifted
  BY <1>1 DEF Shifted, RowOf
<1>2. CASE \E w \in Workers : Outcome(w)
  <2>0. PICK w \in Workers : Outcome(w)
    BY <1>2
  <2>1. PICK s, st : Undecided(held[w]) /\ Recorded(held[w], s, st)
    BY <2>0 DEF Outcome
  <2>2. t # held[w] /\ held[w] \in Tasks
    BY <2>1 DEF Undecided, Claimable, Terminal
  <2>3. /\ status'[t] = status[t] /\ attempt_count'[t] = attempt_count[t]
        /\ finished_at'[t] = finished_at[t] /\ last_error'[t] = last_error[t]
        /\ attempts'[t] = attempts[t]
    BY <2>1, <2>2 DEF Recorded, IInv, StoreInv, StoreTypeOK
  <2>4. (t \in results') = (t \in results)
    BY <2>1, <2>2 DEF Recorded
  <2>5. {d \in dead_letters' : d.task = t} = {d \in dead_letters : d.task = t}
    BY <2>1, <2>2 DEF Recorded
  <2> QED
    BY <2>3, <2>4, <2>5 DEF RowOf
<1> QED
  BY <1>1, <1>2, StepShape

LEMMA SupersededIsRefused ==
  ASSUME IInv, [Next]_vars, NEW w \in Workers, NEW t \in Tasks,
         Holds(w, t), held_count[w] < attempt_count[t], phase'[w] # phase[w]
  PROVE  UNCHANGED <<attempts, results, dead_letters>>
<1>1. CASE Shifted
  BY <1>1 DEF Shifted
<1>2. CASE \E v \in Workers : Outcome(v)
  <2>1. PICK v \in Workers : Outcome(v)
    BY <1>2
  <2>2. v = w
    BY <2>1 DEF Outcome
  <2>3. held_count[w] = attempt_count[t]
    BY <2>1, <2>2 DEF Outcome, Holds
  <2>4. attempt_count[t] \in Nat
    BY MaxAttemptsAssumption DEF IInv, StoreInv, StoreTypeOK
  <2> QED
    BY <2>3, <2>4
<1> QED
  BY <1>1, <1>2, StepShape

(* A decided task is never touched again, by any worker.                   *)
THEOREM DecidedIsFinal == Spec => TerminalIsFinal
<1>1. IInv /\ [Next]_vars =>
        [\A t \in Tasks : status[t] \in Terminal => RowOf(t)' = RowOf(t)]_vars
  BY DecidedForGood
<1> QED
  BY <1>1, Invariant, PTL DEF Spec, TerminalIsFinal

(* A worker whose claim was superseded leaves no trace in the history.     *)
THEOREM SupersededIsHarmless == Spec => SupersededWritesNothing
<1>1. IInv /\ [Next]_vars =>
        [\A w \in Workers : \A t \in Tasks :
           Holds(w, t) /\ held_count[w] < attempt_count[t] /\ phase'[w] # phase[w]
             => UNCHANGED <<attempts, results, dead_letters>>]_vars
  BY SupersededIsRefused
<1> QED
  BY <1>1, Invariant, PTL DEF Spec, SupersededWritesNothing

-----------------------------------------------------------------------------
(* Refinement.  Shifting tasks in the queue is a submission or a stutter   *)
(* of the ledger; a recorded outcome is an attempt.                        *)
LEMMA LedgerInit == Init => Ledger!Init
  BY DEF Init, StoreInit, Ledger!Init, LedgerVerdict

LEMMA ShiftedSubmits ==
  ASSUME IInv, Shifted
  PROVE  [Ledger!Next]_(Ledger!ledger)
<1>1. attempt_count' = attempt_count
  BY DEF Shifted
<1>2. CASE \E t \in Tasks : Inserted(t)
  <2>1. PICK t \in Tasks : Inserted(t)
    BY <1>2
  <2>2. LedgerVerdict[t] = "none"
    BY <2>1 DEF Inserted, LedgerVerdict
  <2>3. \A u \in Tasks : LedgerVerdict'[u] = IF u = t THEN "open" ELSE LedgerVerdict[u]
    <3> SUFFICES ASSUME NEW u \in Tasks
                 PROVE  LedgerVerdict'[u] = IF u = t THEN "open" ELSE LedgerVerdict[u]
      OBVIOUS
    <3>1. CASE u = t
      BY <2>1, <3>1 DEF Shifted, Inserted, LedgerVerdict, Claimable, Terminal
    <3>2. CASE u # t
      BY <2>1, <3>2 DEF Shifted, Inserted, LedgerVerdict, Claimable, Terminal
    <3> QED
      BY <3>1, <3>2
  <2>4. LedgerVerdict' = [LedgerVerdict EXCEPT ![t] = "open"]
    BY <2>3 DEF LedgerVerdict
  <2>5. Ledger!Submit(t)
    BY <1>1, <2>2, <2>4 DEF Ledger!Submit
  <2> QED
    BY <2>5 DEF Ledger!Next
<1>3. CASE ~ \E t \in Tasks : Inserted(t)
  <2>1. \A u \in Tasks : LedgerVerdict'[u] = LedgerVerdict[u]
    BY <1>3 DEF Shifted, Inserted, LedgerVerdict, Claimable, Terminal
  <2>2. LedgerVerdict' = LedgerVerdict
    BY <2>1 DEF LedgerVerdict
  <2> QED
    BY <1>1, <2>2 DEF Ledger!ledger
<1> QED
  BY <1>2, <1>3

LEMMA RecordedIsAttempt ==
  ASSUME IInv, NEW t, NEW s, NEW st,
         Undecided(t), Recordable(t, s, st), Recorded(t, s, st)
  PROVE  Ledger!Next
<1>1. t \in Tasks /\ attempt_count[t] < MaxAttempts
  BY DEF Undecided
<1>2. LedgerVerdict[t] = "open"
  BY DEF Undecided, LedgerVerdict, Claimable, Terminal
<1>3. attempt_count' = [attempt_count EXCEPT ![t] = @ + 1]
  BY DEF Recorded
<1>4. status' = [status EXCEPT ![t] = st] /\ status \in [Tasks -> TaskStatus]
  BY DEF Recorded, IInv, StoreInv, StoreTypeOK
<1>5. CASE st = "retry_waiting"
  <2>1. \A u \in Tasks : LedgerVerdict'[u] = LedgerVerdict[u]
    BY <1>4, <1>5 DEF LedgerVerdict, Undecided, Claimable, Terminal
  <2>2. LedgerVerdict' = LedgerVerdict
    BY <2>1 DEF LedgerVerdict
  <2>3. Ledger!Retry(t)
    BY <1>2, <1>3, <1>5, <2>2 DEF Ledger!Retry, Recordable
  <2> QED
    BY <1>1, <2>3 DEF Ledger!Next, Ledger!Attempt
<1>6. CASE st \in Terminal
  <2>1. \A u \in Tasks : LedgerVerdict'[u] = IF u = t THEN st ELSE LedgerVerdict[u]
    BY <1>1, <1>4, <1>6 DEF LedgerVerdict, Terminal
  <2>2. LedgerVerdict' = [LedgerVerdict EXCEPT ![t] = st]
    BY <2>1 DEF LedgerVerdict
  <2>3. Ledger!Decide(t, st)
    BY <1>1, <1>2, <1>3, <2>2 DEF Ledger!Decide, Recordable
  <2>4. st \in Ledger!Verdicts
    BY <1>6 DEF Terminal, Ledger!Verdicts
  <2> QED
    BY <1>1, <2>3, <2>4 DEF Ledger!Next, Ledger!Attempt
<1> QED
  BY <1>5, <1>6 DEF Recordable

(* The workers, with every fault, implement the ledger.                    *)
THEOREM WorkersImplementLedger == Spec => ImplementsLedger
<1>1. IInv /\ [Next]_vars => [Ledger!Next]_(Ledger!ledger)
  <2> SUFFICES ASSUME IInv, [Next]_vars
               PROVE  [Ledger!Next]_(Ledger!ledger)
    OBVIOUS
  <2>1. CASE Shifted
    BY <2>1, ShiftedSubmits
  <2>2. CASE \E w \in Workers : Outcome(w)
    BY <2>2, RecordedIsAttempt DEF Outcome
  <2> QED
    BY <2>1, <2>2, StepShape
<1> QED
  BY <1>1, LedgerInit, Invariant, PTL DEF Spec, ImplementsLedger, Ledger!Spec

-----------------------------------------------------------------------------
(* How a row comes to say running with nobody working on it.               *)

IdleHoldsNothing == \A w \in Workers : phase[w] \in {"down", "idle"} => held[w] = NoTask

(* No row comes to be running.                                             *)
Quiet == \A t \in Tasks : status'[t] = "running" => status[t] = "running"

(* A step on a claim: kept, made, or given back with the row.              *)
KeepsClaim == Quiet /\ held' = held

MakesClaim(w) ==
  /\ held[w] = NoTask
  /\ \E t \in Tasks :
       /\ held' = [held EXCEPT ![w] = t]
       /\ \A u \in Tasks \ {t} : status'[u] = status[u]

GivesBack(w) ==
  /\ Quiet
  /\ held' = [held EXCEPT ![w] = NoTask]
  /\ held[w] \in Tasks /\ status'[held[w]] # "running"

(* An outcome takes the row out of running.                                *)
LEMMA OutcomeEndsRunning ==
  ASSUME IInv, NEW w \in Workers, phase[w] = "persisting", Persist(w)
  PROVE  Quiet /\ held[w] \in Tasks /\ status'[held[w]] # "running"
<1>1. held[w] \in Tasks /\ status \in [Tasks -> TaskStatus]
  BY DEF IInv, StoreInv, StoreTypeOK, ClaimsInv, ClaimsAreSane
<1>2. PICK s, st : Recordable(held[w], s, st) /\ Recorded(held[w], s, st)
  BY PersistRecords
<1>3. status' = [status EXCEPT ![held[w]] = st] /\ st # "running"
  BY <1>2 DEF Recordable, Recorded, Terminal
<1> QED BY <1>1, <1>3 DEF Quiet

(* Every step is one of those, or one of three accidents.                  *)
LEMMA ClaimSteps ==
  ASSUME IInv, IdleHoldsNothing, [Next]_vars
  PROVE  \/ KeepsClaim
         \/ \E w \in Workers : MakesClaim(w) \/ GivesBack(w) \/ Strands(w)
<1>0. /\ status \in [Tasks -> TaskStatus] /\ held \in [Workers -> Tasks \union {NoTask}]
      /\ ClaimsAreSane
  BY DEF IInv, StoreInv, StoreTypeOK, ClaimsInv, WorkersTypeOK
<1>1. CASE UNCHANGED vars \/ \E t \in Tasks : Enqueue(t) \/ Tick(t)
  BY <1>0, <1>1
     DEF vars, storeVars, workerVars, Enqueue, Tick, InsertTask, Age, KeepsClaim, Quiet
<1>2. ASSUME NEW w \in Workers,
             PollEmpty(w) \/ LoadSnapshot(w) \/ LoadFails(w) \/ Execute(w) \/ PersistFails(w)
      PROVE  KeepsClaim
  BY <1>2 DEF PollEmpty, LoadSnapshot, LoadFails, Execute, PersistFails, Goto, Recover,
              vars, storeVars, workerVars, KeepsClaim, Quiet
<1>3. ASSUME NEW w \in Workers, Start(w) PROVE KeepsClaim
  BY <1>0, <1>3 DEF Start, RecoverStale, Goto, KeepsClaim, Quiet
<1>4. ASSUME NEW w \in Workers, PersistAckLost(w) PROVE KeepsClaim
  BY <1>4, OutcomeEndsRunning DEF PersistAckLost, Recover, KeepsClaim
<1>5. ASSUME NEW w \in Workers, Claim(w) PROVE MakesClaim(w)
  BY <1>0, <1>5 DEF Claim, ClaimRow, IdleHoldsNothing, MakesClaim
<1>6. ASSUME NEW w \in Workers, PersistOk(w) PROVE GivesBack(w)
  BY <1>6, OutcomeEndsRunning DEF PersistOk, Forget, GivesBack
<1>7. ASSUME NEW w \in Workers, Release(w) PROVE GivesBack(w)
  <2>1. held[w] \in Tasks
    BY <1>0, <1>7 DEF Release, ClaimsAreSane
  <2>2. CASE status[held[w]] = "running"
    BY <1>0, <1>7, <2>1, <2>2 DEF Release, ReleaseRow, Forget, GivesBack, Quiet
  <2>3. CASE status[held[w]] # "running"
    BY <1>7, <2>1, <2>3 DEF Release, ReleaseRow, Forget, GivesBack, Quiet, storeVars
  <2> QED BY <2>2, <2>3
<1> QED BY <1>1, <1>2, <1>3, <1>4, <1>5, <1>6, <1>7 DEF Next, Strands

(* A worker between two iterations holds nothing.                          *)
LEMMA StepIdle ==
  ASSUME IInv, IdleHoldsNothing, [Next]_vars
  PROVE  IdleHoldsNothing'
<1>0. phase \in [Workers -> Phase] /\ held \in [Workers -> Tasks \union {NoTask}]
  BY DEF IInv, ClaimsInv, WorkersTypeOK
<1>1. CASE UNCHANGED workerVars
  BY <1>1 DEF workerVars, IdleHoldsNothing
<1>2. ASSUME NEW w \in Workers, \E p \in {"down", "idle"} : Forget(w, p)
      PROVE  IdleHoldsNothing'
  BY <1>0, <1>2 DEF Forget, IdleHoldsNothing
<1>3. ASSUME NEW w \in Workers, Recover(w) PROVE IdleHoldsNothing'
  BY <1>0, <1>3 DEF Recover, IdleHoldsNothing
<1>4. ASSUME NEW w \in Workers, Start(w) \/ LoadSnapshot(w) \/ Execute(w)
      PROVE  IdleHoldsNothing'
  BY <1>0, <1>4 DEF Start, LoadSnapshot, Execute, Goto, IdleHoldsNothing
<1>5. ASSUME NEW w \in Workers, Claim(w) PROVE IdleHoldsNothing'
  BY <1>0, <1>5 DEF Claim, IdleHoldsNothing
<1> QED BY <1>1, <1>2, <1>3, <1>4, <1>5
        DEF Next, vars, Enqueue, Tick, Crash, ClaimLost, PollEmpty, LoadFails, PersistOk,
            PersistAckLost, PersistFails, Release, ReleaseFails

(* A row is left running with nobody to finish it only by a crash, a lost  *)
(* claim or a release that fails: no order of claims, recoveries at start, *)
(* late outcomes and releases of tasks taken over by another worker does   *)
(* it (main.rs:97-111, worker.rs:213-231).                                 *)
OnlyAccidentsStrand ==
  \A t \in Tasks : ~ Abandoned(t) /\ Abandoned(t)' => \E w \in Workers : Strands(w)

THEOREM AbandonedByAccidentOnly == Spec => [][OnlyAccidentsStrand]_vars
<1>1. IInv /\ IdleHoldsNothing /\ [Next]_vars => OnlyAccidentsStrand
  <2> SUFFICES ASSUME IInv, IdleHoldsNothing, [Next]_vars, NEW t \in Tasks,
                      ~ Abandoned(t), status'[t] = "running",
                      \A w \in Workers : held'[w] # t,
                      ~ \E w \in Workers : Strands(w)
               PROVE  FALSE
    BY DEF OnlyAccidentsStrand, Abandoned
  <2>0. held \in [Workers -> Tasks \union {NoTask}]
    BY DEF IInv, ClaimsInv, WorkersTypeOK
  <2>1. CASE KeepsClaim
    BY <2>1 DEF KeepsClaim, Quiet, Abandoned
  <2>2. ASSUME NEW w \in Workers, MakesClaim(w) PROVE FALSE
    BY <2>0, <2>2, NoTaskAssumption DEF MakesClaim, Abandoned
  <2>3. ASSUME NEW w \in Workers, GivesBack(w) PROVE FALSE
    BY <2>0, <2>3 DEF GivesBack, Quiet, Abandoned
  <2> QED BY <2>1, <2>2, <2>3, ClaimSteps
<1>2. Init => IdleHoldsNothing
  BY DEF Init, IdleHoldsNothing
<1>3. IInv /\ IdleHoldsNothing /\ [Next]_vars => IdleHoldsNothing'
  BY StepIdle
<1> QED BY <1>1, <1>2, <1>3, Invariant, PTL DEF Spec
=============================================================================

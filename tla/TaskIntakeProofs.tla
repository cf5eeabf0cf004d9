--------------------------- MODULE TaskIntakeProofs ---------------------------
(***************************************************************************)
(* Submission of tasks for any number of handlers and keys: at most one    *)
(* task per key, right answers, and the refinement to TaskRegistry.        *)
(*                                                                         *)
(* The argument: a row is inserted only when no row, committed or open,    *)
(* has its key (Free), and a request that was refused or has found a row   *)
(* keeps finding it, because committed rows stay and keys do not change    *)
(* once the request is submitted.                                          *)
(***************************************************************************)
EXTENDS TaskIntake, Naturals, TLAPS

(* A row is in the tables only once its request is done, and what a        *)
(* request has found is a committed row of its key.                        *)
FoundIsRight ==
  \A r \in Requests :
    /\ r \in committed => step[r] \in {"answered", "failed"}
    /\ step[r] = "new" => key[r] = NoKey
    /\ step[r] = "fetch" => answer[r] \in committed /\ SameKey(answer[r], r)
    /\ step[r] \notin {"fetch", "answered"} => answer[r] = NoTask

(* The inductive invariant.                                                *)
IInv ==
  TypeOK /\ OneTaskPerKey /\ AnswersAreRight /\ LoserFindsWinner /\ FoundIsRight

(* The initial state satisfies the invariant.                              *)
LEMMA InitIInv == Init => IInv
<1> SUFFICES ASSUME Init PROVE IInv
  OBVIOUS
<1>1. TypeOK
  BY DEF Init, TypeOK, Step
<1>2. OneTaskPerKey /\ AnswersAreRight /\ LoserFindsWinner /\ FoundIsRight
  BY NoKeyAssumption
     DEF Init, OneTaskPerKey, AnswersAreRight, LoserFindsWinner, FoundIsRight,
         SameKey, Open
<1> QED BY <1>1, <1>2 DEF IInv

(* The SELECT by key returns a committed row of the key, or none.          *)
LEMMA ExistingRows ==
  ASSUME NEW r \in Requests, NEW q \in Existing(r)
  PROVE  \/ q \in committed /\ SameKey(q, r)
         \/ q = NoTask /\ \A p \in committed : ~ SameKey(p, r)
<1> DEFINE rows == {p \in committed : SameKey(p, r)}
<1>1. CASE rows = {}
  BY <1>1 DEF Existing
<1>2. CASE rows # {}
  BY <1>2 DEF Existing
<1> QED BY <1>1, <1>2

(* Every step keeps the invariant.                                         *)
LEMMA StepIInv == IInv /\ [Next]_vars => IInv'
<1> SUFFICES ASSUME IInv, [Next]_vars PROVE IInv'
  OBVIOUS
<1> USE NoKeyAssumption, NoTaskAssumption
<1>0. /\ TypeOK /\ OneTaskPerKey /\ AnswersAreRight
      /\ LoserFindsWinner /\ FoundIsRight
  BY DEF IInv
<1>1. ASSUME NEW r \in Requests, NEW k \in Keys \union {NoKey}, Submit(r, k)
      PROVE  IInv'
  <2>1. TypeOK'
    BY <1>0, <1>1 DEF TypeOK, Submit, Goto, Step
  <2>2. r \notin committed /\ r \notin Open /\ Open' = Open
    BY <1>0, <1>1 DEF TypeOK, Submit, Goto, FoundIsRight, Open
  <2>3. OneTaskPerKey'
    BY <1>0, <1>1, <2>2 DEF TypeOK, Submit, OneTaskPerKey, SameKey, Open
  <2>4. AnswersAreRight'
    BY <1>0, <1>1, <2>2 DEF TypeOK, Submit, Goto, AnswersAreRight, SameKey
  <2>5. LoserFindsWinner'
    BY <1>0, <1>1, <2>2 DEF TypeOK, Submit, Goto, LoserFindsWinner, SameKey
  <2>6. FoundIsRight'
    BY <1>0, <1>1, <2>2 DEF TypeOK, Submit, Goto, FoundIsRight, SameKey
  <2> QED BY <2>1, <2>3, <2>4, <2>5, <2>6 DEF IInv
<1>2. ASSUME NEW r \in Requests, Lookup(r) PROVE IInv'
  <2>1. PICK q \in Existing(r) : Lookup(r)!2!(q)
    BY <1>2 DEF Lookup
  <2>2. \/ q \in committed /\ SameKey(q, r)
        \/ q = NoTask /\ \A p \in committed : ~ SameKey(p, r)
    BY ExistingRows
  <2>3. Open' = Open
    BY <1>0, <1>2, <2>1 DEF TypeOK, Lookup, Goto, Open
  <2>4. TypeOK'
    BY <1>0, <1>2, <2>1, <2>2 DEF TypeOK, Lookup, Goto, Step
  <2>5. OneTaskPerKey'
    BY <1>0, <1>2, <2>3 DEF TypeOK, Lookup, OneTaskPerKey, SameKey
  <2>6. AnswersAreRight'
    BY <1>0, <1>2, <2>1, <2>2 DEF TypeOK, Lookup, Goto, AnswersAreRight, SameKey
  <2>7. LoserFindsWinner'
    BY <1>0, <1>2, <2>1, <2>2 DEF TypeOK, Lookup, Goto, LoserFindsWinner, SameKey
  <2>8. FoundIsRight'
    BY <1>0, <1>2, <2>1, <2>2 DEF TypeOK, Lookup, Goto, FoundIsRight, SameKey
  <2> QED BY <2>4, <2>5, <2>6, <2>7, <2>8 DEF IInv
<1>3. ASSUME NEW r \in Requests, InsertTask(r) PROVE IInv'
  <2>1. Open' = Open \union {r}
    BY <1>0, <1>3 DEF TypeOK, InsertTask, Goto, Open
  <2>2. TypeOK'
    BY <1>0, <1>3 DEF TypeOK, InsertTask, Goto, Step
  <2>3. OneTaskPerKey'
    BY <1>0, <1>3, <2>1 DEF TypeOK, InsertTask, OneTaskPerKey, SameKey, Free
  <2>4. AnswersAreRight'
    BY <1>0, <1>3 DEF TypeOK, InsertTask, Goto, AnswersAreRight, SameKey, FoundIsRight
  <2>5. LoserFindsWinner'
    BY <1>0, <1>3 DEF TypeOK, InsertTask, Goto, LoserFindsWinner, SameKey, FoundIsRight
  <2>6. FoundIsRight'
    BY <1>0, <1>3 DEF TypeOK, InsertTask, Goto, FoundIsRight, SameKey
  <2> QED BY <2>2, <2>3, <2>4, <2>5, <2>6 DEF IInv
<1>4. ASSUME NEW r \in Requests, InsertRefused(r) PROVE IInv'
  <2>1. Open' = Open
    BY <1>0, <1>4 DEF TypeOK, InsertRefused, Goto, Open
  <2>2. TypeOK'
    BY <1>0, <1>4 DEF TypeOK, InsertRefused, Goto, Step
  <2>3. OneTaskPerKey'
    BY <1>0, <1>4, <2>1 DEF TypeOK, InsertRefused, OneTaskPerKey, SameKey
  <2>4. AnswersAreRight'
    BY <1>0, <1>4 DEF TypeOK, InsertRefused, Goto, AnswersAreRight, SameKey, FoundIsRight
  <2>5. LoserFindsWinner'
    BY <1>0, <1>4 DEF TypeOK, InsertRefused, Goto, LoserFindsWinner, SameKey, FoundIsRight
  <2>6. FoundIsRight'
    BY <1>0, <1>4 DEF TypeOK, InsertRefused, Goto, FoundIsRight, SameKey
  <2> QED BY <2>2, <2>3, <2>4, <2>5, <2>6 DEF IInv
<1>5. ASSUME NEW r \in Requests, InsertSnapshot(r) PROVE IInv'
  <2>1. Open' = Open
    BY <1>0, <1>5 DEF TypeOK, InsertSnapshot, Goto, Open
  <2>2. TypeOK'
    BY <1>0, <1>5 DEF TypeOK, InsertSnapshot, Goto, Step
  <2>3. OneTaskPerKey'
    BY <1>0, <1>5, <2>1 DEF TypeOK, InsertSnapshot, OneTaskPerKey, SameKey
  <2>4. AnswersAreRight'
    BY <1>0, <1>5 DEF TypeOK, InsertSnapshot, Goto, AnswersAreRight, SameKey, FoundIsRight
  <2>5. LoserFindsWinner'
    BY <1>0, <1>5 DEF TypeOK, InsertSnapshot, Goto, LoserFindsWinner, SameKey, FoundIsRight
  <2>6. FoundIsRight'
    BY <1>0, <1>5 DEF TypeOK, InsertSnapshot, Goto, FoundIsRight, SameKey
  <2> QED BY <2>2, <2>3, <2>4, <2>5, <2>6 DEF IInv
<1>6. ASSUME NEW r \in Requests, Commit(r) PROVE IInv'
  <2>1. r \in Open /\ Open' \subseteq Open
    BY <1>0, <1>6 DEF TypeOK, Commit, Goto, Open
  <2>2. TypeOK'
    BY <1>0, <1>6 DEF TypeOK, Commit, Goto, Step
  <2>3. OneTaskPerKey'
    BY <1>0, <1>6, <2>1 DEF TypeOK, Commit, OneTaskPerKey, SameKey
  <2>4. AnswersAreRight'
    BY <1>0, <1>6 DEF TypeOK, Commit, Goto, AnswersAreRight, SameKey, FoundIsRight
  <2>5. LoserFindsWinner'
    BY <1>0, <1>6 DEF TypeOK, Commit, Goto, LoserFindsWinner, SameKey, FoundIsRight
  <2>6. FoundIsRight'
    BY <1>0, <1>6 DEF TypeOK, Commit, Goto, FoundIsRight, SameKey
  <2> QED BY <2>2, <2>3, <2>4, <2>5, <2>6 DEF IInv
<1>7. ASSUME NEW r \in Requests, CommitAckLost(r) PROVE IInv'
  <2>1. r \in Open /\ Open' \subseteq Open
    BY <1>0, <1>7 DEF TypeOK, CommitAckLost, Goto, Open
  <2>2. TypeOK'
    BY <1>0, <1>7 DEF TypeOK, CommitAckLost, Goto, Step
  <2>3. OneTaskPerKey'
    BY <1>0, <1>7, <2>1 DEF TypeOK, CommitAckLost, OneTaskPerKey, SameKey
  <2>4. AnswersAreRight'
    BY <1>0, <1>7 DEF TypeOK, CommitAckLost, Goto, AnswersAreRight, SameKey, FoundIsRight
  <2>5. LoserFindsWinner'
    BY <1>0, <1>7 DEF TypeOK, CommitAckLost, Goto, LoserFindsWinner, SameKey, FoundIsRight
  <2>6. FoundIsRight'
    BY <1>0, <1>7 DEF TypeOK, CommitAckLost, Goto, FoundIsRight, SameKey
  <2> QED BY <2>2, <2>3, <2>4, <2>5, <2>6 DEF IInv
<1>8. ASSUME NEW r \in Requests, FindExisting(r) PROVE IInv'
  <2>1. PICK q \in Existing(r) : FindExisting(r)!2!(q)
    BY <1>8 DEF FindExisting
  <2>2. \/ q \in committed /\ SameKey(q, r)
        \/ q = NoTask /\ \A p \in committed : ~ SameKey(p, r)
    BY ExistingRows
  <2>3. Open' = Open
    BY <1>0, <1>8, <2>1 DEF TypeOK, FindExisting, Goto, Open
  <2>4. TypeOK'
    BY <1>0, <1>8, <2>1, <2>2 DEF TypeOK, FindExisting, Goto, Step
  <2>5. OneTaskPerKey'
    BY <1>0, <1>8, <2>3 DEF TypeOK, FindExisting, OneTaskPerKey, SameKey
  <2>6. AnswersAreRight'
    BY <1>0, <1>8, <2>1, <2>2 DEF TypeOK, FindExisting, Goto, AnswersAreRight, SameKey
  <2>7. LoserFindsWinner'
    BY <1>0, <1>8, <2>1, <2>2 DEF TypeOK, FindExisting, Goto, LoserFindsWinner, SameKey
  <2>8. FoundIsRight'
    BY <1>0, <1>8, <2>1, <2>2 DEF TypeOK, FindExisting, Goto, FoundIsRight, SameKey
  <2> QED BY <2>4, <2>5, <2>6, <2>7, <2>8 DEF IInv
<1>9. ASSUME NEW r \in Requests, FetchExisting(r) PROVE IInv'
  <2>1. Open' = Open
    BY <1>0, <1>9 DEF TypeOK, FetchExisting, Goto, Open
  <2>2. TypeOK'
    BY <1>0, <1>9 DEF TypeOK, FetchExisting, Goto, Step
  <2>3. OneTaskPerKey'
    BY <1>0, <1>9, <2>1 DEF TypeOK, FetchExisting, OneTaskPerKey, SameKey
  <2>4. AnswersAreRight'
    BY <1>0, <1>9 DEF TypeOK, FetchExisting, Goto, AnswersAreRight, SameKey, FoundIsRight
  <2>5. LoserFindsWinner'
    BY <1>0, <1>9 DEF TypeOK, FetchExisting, Goto, LoserFindsWinner, SameKey, FoundIsRight
  <2>6. FoundIsRight'
    BY <1>0, <1>9 DEF TypeOK, FetchExisting, Goto, FoundIsRight, SameKey
  <2> QED BY <2>2, <2>3, <2>4, <2>5, <2>6 DEF IInv
<1>10. ASSUME NEW r \in Requests, Fail(r) PROVE IInv'
  <2>1. Open' \subseteq Open
    BY <1>0, <1>10 DEF TypeOK, Fail, Goto, Open
  <2>2. TypeOK'
    BY <1>0, <1>10 DEF TypeOK, Fail, Goto, Step
  <2>3. OneTaskPerKey'
    BY <1>0, <1>10, <2>1 DEF TypeOK, Fail, OneTaskPerKey, SameKey
  <2>4. AnswersAreRight'
    BY <1>0, <1>10 DEF TypeOK, Fail, Goto, AnswersAreRight, SameKey, FoundIsRight
  <2>5. LoserFindsWinner'
    BY <1>0, <1>10 DEF TypeOK, Fail, Goto, LoserFindsWinner, SameKey, FoundIsRight
  <2>6. FoundIsRight'
    BY <1>0, <1>10 DEF TypeOK, Fail, Goto, FoundIsRight, SameKey
  <2> QED BY <2>2, <2>3, <2>4, <2>5, <2>6 DEF IInv
<1>11. CASE UNCHANGED vars
  BY <1>0, <1>11 DEF vars, IInv, TypeOK, OneTaskPerKey, AnswersAreRight,
     LoserFindsWinner, FoundIsRight, SameKey, Open
<1> QED BY <1>1, <1>2, <1>3, <1>4, <1>5, <1>6, <1>7, <1>8, <1>9, <1>10, <1>11 DEF Next, Advance

(* The invariant holds in every reachable state.                           *)
THEOREM Invariant == Spec => []IInv
<1>1. Init => IInv
  BY InitIInv
<1>2. IInv /\ [Next]_vars => IInv'
  BY StepIInv
<1> QED BY <1>1, <1>2, PTL DEF Spec

(* Tables and handlers keep their types.                                   *)
THEOREM TypeCorrect == Spec => []TypeOK
<1>1. IInv => TypeOK
  BY DEF IInv
<1> QED BY <1>1, Invariant, PTL

(* For any number of racing handlers, no two rows share a dedupe key.      *)
THEOREM KeysStayUnique == Spec => []OneTaskPerKey
<1>1. IInv => OneTaskPerKey
  BY DEF IInv
<1> QED BY <1>1, Invariant, PTL

(* Every response names a task in the tables that has the key asked for.   *)
THEOREM ResponsesAreRight == Spec => []AnswersAreRight
<1>1. IInv => AnswersAreRight
  BY DEF IInv
<1> QED BY <1>1, Invariant, PTL

(* The loser of a race always finds the winner's row.                      *)
THEOREM RacesAreSettled == Spec => []LoserFindsWinner
<1>1. IInv => LoserFindsWinner
  BY DEF IInv
<1> QED BY <1>1, Invariant, PTL

(* Every step of a handler is a step of the registry or a stutter.         *)
LEMMA StepRegistry == IInv /\ IInv' /\ [Next]_vars => [Registry!Next]_(Registry!registry)
<1> SUFFICES ASSUME IInv, IInv', [Next]_vars
             PROVE  [Registry!Next]_(Registry!registry)
  OBVIOUS
<1> USE NoKeyAssumption, NoTaskAssumption
<1>0. /\ TypeOK /\ AnswersAreRight /\ FoundIsRight /\ LoserFindsWinner
      /\ TypeOK' /\ OneTaskPerKey'
  BY DEF IInv
<1> USE DEF Registry!registry
<1>1. ASSUME NEW r \in Requests, NEW k \in Keys \union {NoKey}, Submit(r, k)
      PROVE  [Registry!Next]_(Registry!registry)
  <2>1. Told' = Told /\ UNCHANGED committed
    BY <1>0, <1>1 DEF Told, Submit, Goto, TypeOK
  <2>2. CASE k = NoKey
    <3>1. key' = key
      BY <1>0, <1>1, <2>2 DEF Submit, TypeOK, FoundIsRight
    <3> QED BY <2>1, <3>1
  <2>3. CASE k \in Keys
    <3>1. Registry!Ask(r, k)
      BY <1>0, <1>1, <2>1, <2>3 DEF Submit, TypeOK, FoundIsRight, Registry!Ask
    <3> QED BY <2>3, <3>1 DEF Registry!Next
  <2> QED BY <2>2, <2>3
<1>2. ASSUME NEW r \in Requests,
             \/ Lookup(r) \/ InsertTask(r) \/ InsertRefused(r)
             \/ InsertSnapshot(r) \/ FindExisting(r) \/ Fail(r)
      PROVE  UNCHANGED Registry!registry
  <2>1. UNCHANGED <<key, committed>>
    BY <1>2 DEF Lookup, InsertTask, InsertRefused, InsertSnapshot,
                FindExisting, Fail
  <2>2. Told' = Told
    <3>1. CASE Lookup(r)
      BY <1>0, <3>1 DEF Lookup, Goto, TypeOK, Told
    <3>2. CASE FindExisting(r)
      BY <1>0, <3>2 DEF FindExisting, Goto, TypeOK, Told
    <3>3. CASE InsertTask(r) \/ InsertRefused(r) \/ InsertSnapshot(r)
      BY <1>0, <3>3 DEF InsertTask, InsertRefused, InsertSnapshot, Goto,
                        TypeOK, Told
    <3>4. CASE Fail(r)
      BY <1>0, <3>4 DEF Fail, Goto, TypeOK, Told
    <3> QED BY <1>2, <3>1, <3>2, <3>3, <3>4
  <2> QED BY <2>1, <2>2
<1>3. ASSUME NEW r \in Requests, Commit(r) \/ CommitAckLost(r)
      PROVE  Registry!Next
  <2>1. /\ r \notin committed /\ committed' = committed \union {r}
        /\ key' = key
    BY <1>0, <1>3 DEF Commit, CommitAckLost, FoundIsRight
  <2>2. key[r] \in Keys => \A q \in committed : key[q] # key[r]
    BY <1>0, <2>1 DEF OneTaskPerKey, SameKey, TypeOK
  <2>3. Registry!Register(r)
    BY <2>1, <2>2 DEF Registry!Register
  <2>4. CASE Commit(r)
    <3>1. Told[r] = NoTask /\ Told' = [Told EXCEPT ![r] = r]
      BY <1>0, <2>4 DEF Commit, Goto, TypeOK, Told
    <3>2. Registry!Tell(r, r)
      BY <2>1, <3>1 DEF Registry!Tell
    <3> QED BY <2>3, <3>2 DEF Registry!Next
  <2>5. CASE CommitAckLost(r)
    <3>1. Told' = Told
      BY <1>0, <2>5 DEF CommitAckLost, Goto, TypeOK, Told
    <3> QED BY <2>1, <2>3, <3>1 DEF Registry!Next
  <2> QED BY <1>3, <2>4, <2>5
<1>4. ASSUME NEW r \in Requests, FetchExisting(r) PROVE Registry!Next
  <2> DEFINE q == answer[r]
  <2>1. q \in committed /\ SameKey(q, r)
    BY <1>0, <1>4 DEF FetchExisting, FoundIsRight
  <2>2. Told[r] = NoTask /\ Told' = [Told EXCEPT ![r] = q]
    BY <1>0, <1>4, <2>1 DEF FetchExisting, Goto, TypeOK, Told
  <2>3. UNCHANGED committed /\ Registry!Tell(r, q)
    BY <1>4, <2>1, <2>2 DEF FetchExisting, SameKey, Registry!Tell
  <2> QED BY <2>1, <2>3 DEF Registry!Next
<1>5. CASE UNCHANGED vars
  BY <1>5 DEF vars, Told
<1> QED BY <1>1, <1>2, <1>3, <1>4, <1>5 DEF Next, Advance

(* Racing handlers over the tables implement the registry: they submit as  *)
(* if one after the other.                                                 *)
THEOREM IntakeImplementsRegistry == Spec => ImplementsRegistry
<1>1. Init => Registry!Init
  BY DEF Init, Registry!Init, Told
<1>2. IInv /\ IInv' /\ [Next]_vars => [Registry!Next]_(Registry!registry)
  BY StepRegistry
<1> QED BY <1>1, <1>2, Invariant, PTL DEF Spec, ImplementsRegistry, Registry!Spec

-----------------------------------------------------------------------------
(* How far a submission has come.                                          *)
Rank ==
  [new |-> 0, lookup |-> 1, insert |-> 2, snapshot |-> 3, refused |-> 3,
   commit |-> 4, fetch |-> 4, answered |-> 5, failed |-> 5]

(* A submission never goes back, a lost race does not make it try again,   *)
(* so it is over after at most five steps of its own; and its key stays    *)
(* the one it came with (repository.rs:669-761).                           *)
OneWay ==
  \A r \in Requests :
    /\ step'[r] # step[r] => Rank[step'[r]] > Rank[step[r]]
    /\ key'[r] # key[r] => step[r] = "new"

THEOREM SubmissionsMoveOneWay == Spec => [][OneWay]_vars
<1>1. TypeOK /\ [Next]_vars => OneWay
  <2> SUFFICES ASSUME TypeOK, [Next]_vars PROVE OneWay
    OBVIOUS
  <2> DEFINE Moves(r, s) == /\ Goto(r, s) /\ s \in Step /\ Rank[s] > Rank[step[r]]
                            /\ \/ UNCHANGED key
                               \/ step[r] = "new" /\ \E k : key' = [key EXCEPT ![r] = k]
  <2>1. ASSUME NEW r \in Requests, NEW s, Moves(r, s) PROVE OneWay
    BY <2>1 DEF TypeOK, Goto, OneWay
  <2>2. ASSUME NEW r \in Requests, NEW k \in Keys \union {NoKey}, Submit(r, k)
        PROVE  \E s \in Step : Moves(r, s)
    <3> DEFINE s == IF k = NoKey THEN "insert" ELSE "lookup"
    <3>1. /\ Goto(r, s) /\ step[r] = "new"
          /\ \E x : key' = [key EXCEPT ![r] = x]
      BY <2>2 DEF Submit
    <3>2. s \in Step /\ Rank[s] > Rank["new"]
      BY DEF Step, Rank
    <3> QED BY <3>1, <3>2
  <2>3. ASSUME NEW r \in Requests, Lookup(r) \/ FindExisting(r) \/ FetchExisting(r)
        PROVE  \E s \in Step : Moves(r, s)
    <3>1. CASE Lookup(r)
      BY <3>1 DEF Lookup, Step, Rank
    <3>2. CASE FindExisting(r)
      BY <3>2 DEF FindExisting, Step, Rank
    <3>3. CASE FetchExisting(r)
      BY <3>3 DEF FetchExisting, Step, Rank
    <3> QED BY <2>3, <3>1, <3>2, <3>3
  <2>4. ASSUME NEW r \in Requests,
               InsertTask(r) \/ InsertRefused(r) \/ InsertSnapshot(r)
                 \/ Commit(r) \/ CommitAckLost(r)
        PROVE  \E s \in Step : Moves(r, s)
    BY <2>4 DEF InsertTask, InsertRefused, InsertSnapshot, Commit, CommitAckLost, Step, Rank
  <2>5. ASSUME NEW r \in Requests, Fail(r) PROVE \E s \in Step : Moves(r, s)
    BY <2>5 DEF Fail, TypeOK, Step, Rank
  <2>6. CASE UNCHANGED vars
    BY <2>6 DEF vars, OneWay
  <2> QED BY <2>1, <2>2, <2>3, <2>4, <2>5, <2>6 DEF Next, Advance
<1> QED BY <1>1, TypeCorrect, PTL DEF Spec
=============================================================================

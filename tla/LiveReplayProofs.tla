--------------------------- MODULE LiveReplayProofs ---------------------------
(* Proofs about LiveReplay, for all datasets, configurations and answers.  *)
EXTENDS LiveReplay, FunctionTheorems, FiniteSetTheorems, TLAPS

-----------------------------------------------------------------------------
(* Lemmas about sets and sequences.                                        *)

(* The values of a function on a finite set are finitely many.             *)
LEMMA ImageIsFinite ==
  ASSUME NEW S, IsFiniteSet(S), NEW f
  PROVE  IsFiniteSet({f[x] : x \in S})
<1> DEFINE T == {f[x] : x \in S}
           g == [x \in S |-> f[x]]
<1>1. g \in [S -> T] /\ \A y \in T : \E x \in S : g[x] = y
  OBVIOUS
<1> HIDE DEF g, T
<1>2. g \in Surjection(S, T)
  BY <1>1, Fun_IsSurj
<1>3. IsFiniteSet(T)
  BY <1>2, FS_Surjection
<1> QED BY <1>3 DEF T

(* A finite set of numbers has a least one.                                *)
LEMMA LeastExists ==
  ASSUME NEW T \in SUBSET Int, IsFiniteSet(T), T # {}
  PROVE  \E m \in T : \A j \in T : m <= j
<1> DEFINE below(i) == {j \in T : j < i}
           F == {below(i) : i \in T}
<1>1. F \subseteq FiniteSubsetsOf(T) /\ F # {}
  <2>1. \A i \in T : below(i) \in SUBSET T /\ IsFiniteSet(below(i))
    BY FS_Subset
  <2> HIDE DEF below
  <2> QED BY <2>1 DEF FiniteSubsetsOf
<1> HIDE DEF below, F
<1>2. PICK A \in F : \A B \in F : ~ (<<B, A>> \in StrictSubsetOrdering(T))
  <2>1. IsWellFoundedOn(StrictSubsetOrdering(T), FiniteSubsetsOf(T))
    BY FS_StrictSubsetOrderingWellFounded
  <2> QED BY <1>1, <2>1, WFMin, Zenon
<1>3. PICK m \in T : A = below(m)
  BY <1>2 DEF F
<1>4. ASSUME NEW j \in T, j < m PROVE FALSE
  <2>1. below(j) \subseteq below(m) /\ j \in below(m) /\ j \notin below(j)
    <3>1. j \in Int /\ m \in Int /\ \A i \in T : i \in Int
      OBVIOUS
    <3>2. \A i \in T : i < j => i < m
      BY <1>4, <3>1
    <3>3. j < m /\ ~ (j < j)
      BY <1>4, <3>1
    <3> QED BY <3>2, <3>3, Zenon DEF below
  <2>2. below(j) \in SUBSET T /\ below(m) \in SUBSET T
    BY DEF below
  <2>3. <<below(j), below(m)>> \in StrictSubsetOrdering(T)
    BY <2>1, <2>2 DEF StrictSubsetOrdering
  <2>4. below(j) \in F
    BY DEF F
  <2> QED BY <1>2, <1>3, <2>3, <2>4, Zenon
<1> QED BY <1>4

LEMMA GreatestExists ==
  ASSUME NEW T \in SUBSET Int, IsFiniteSet(T), T # {}
  PROVE  \E m \in T : \A j \in T : j <= m
<1> DEFINE minus == [j \in T |-> 0 - j]
           U == {minus[j] : j \in T}
<1>1. U \in SUBSET Int /\ U # {}
  <2>1. \A j \in T : minus[j] \in Int
    OBVIOUS
  <2> HIDE DEF minus
  <2> QED BY <2>1
<1>2. IsFiniteSet(U)
  <2> HIDE DEF minus
  <2> QED BY ImageIsFinite
<1> HIDE DEF U
<1>3. PICK u \in U : \A v \in U : u <= v
  BY <1>1, <1>2, LeastExists
<1>4. PICK m \in T : u = 0 - m
  BY DEF U
<1>5. \A j \in T : 0 - j \in U
  BY DEF U
<1>6. \A j \in T : 0 - m <= 0 - j
  BY <1>3, <1>4, <1>5
<1> QED BY <1>6

(* What Least finds.                                                       *)
LEMMA LeastIs ==
  ASSUME NEW S \in SUBSET Int, IsFiniteSet(S), S # {}
  PROVE  Least(S) \in S /\ \A p \in S : Least(S) <= p
BY LeastExists, Zenon DEF Least

(* The rows that are kept, in order.                                       *)
LEMMA SortedIs ==
  ASSUME NEW answer \in Seq(Int), NEW kept \in SUBSET DOMAIN answer
  PROVE  LET R == Sorted(answer, kept)
         IN  /\ R \in Seq(Int) /\ Len(R) = Cardinality(kept)
             /\ \A i \in DOMAIN R : \E k \in kept : R[i] = answer[k]
             /\ \A i, j \in DOMAIN R : i < j => R[i] <= R[j]
<1> DEFINE upto(j) == {l \in kept : answer[l] <= answer[j]}
           places(i) == {j \in kept : Cardinality(upto(j)) >= i}
           opens(i) == {answer[k] : k \in places(i)}
           N == Cardinality(kept)
           R == Sorted(answer, kept)
<1>1. IsFiniteSet(kept) /\ \A k \in kept : answer[k] \in Int
  <2>1. IsFiniteSet(DOMAIN answer)
    BY FS_Interval
  <2> QED BY <2>1, FS_Subset
<1>2. N \in Nat
  BY <1>1, FS_CardinalityType
<1>3. \A j \in kept : Cardinality(upto(j)) \in Nat
  BY <1>1, FS_Subset, FS_CardinalityType
<1>4. \A i : IsFiniteSet(opens(i)) /\ opens(i) \in SUBSET Int
  <2> TAKE i
  <2>1. IsFiniteSet(places(i))
    BY <1>1, FS_Subset
  <2> HIDE DEF places
  <2>2. IsFiniteSet(opens(i))
    BY <2>1, ImageIsFinite
  <2>3. opens(i) \in SUBSET Int
    BY <1>1 DEF places
  <2> QED BY <2>2, <2>3
<1>5. ASSUME NEW i \in 1..N
      PROVE  opens(i) # {}
  <2> DEFINE all == {answer[k] : k \in kept}
  <2>1. kept # {}
    BY <1>2, FS_EmptySet
  <2>2. IsFiniteSet(all) /\ all \in SUBSET Int /\ all # {}
    BY <1>1, <2>1, ImageIsFinite
  <2>3. PICK m \in all : \A o \in all : o <= m
    BY <2>2, GreatestExists
  <2>4. PICK j \in kept : m = answer[j]
    OBVIOUS
  <2>5. upto(j) = kept
    BY <2>3, <2>4
  <2> HIDE DEF upto
  <2>6. j \in places(i)
    BY <1>2, <2>5
  <2> QED BY <2>6
<1>6. ASSUME NEW i \in 1..N, NEW j \in 1..N, i < j
      PROVE  opens(j) \subseteq opens(i)
  <2> HIDE DEF upto
  <2>1. places(j) \subseteq places(i)
    BY <1>2, <1>3, <1>6
  <2> QED BY <2>1
<1>7. R = [i \in 1..N |-> Least(opens(i))]
  BY Zenon DEF Sorted
<1> HIDE DEF opens, N, R
<1>8. ASSUME NEW i \in 1..N
      PROVE  /\ R[i] = Least(opens(i)) /\ R[i] \in opens(i) /\ R[i] \in Int
             /\ \A o \in opens(i) : R[i] <= o
  <2>1. Least(opens(i)) \in opens(i) /\ \A o \in opens(i) : Least(opens(i)) <= o
    BY <1>4, <1>5, LeastIs
  <2>2. R[i] = Least(opens(i))
    BY <1>7
  <2> QED BY <1>4, <2>1, <2>2
<1>9. R \in Seq(Int) /\ Len(R) = N /\ DOMAIN R = 1..N
  BY <1>2, <1>7, <1>8
<1>10. \A i \in DOMAIN R : \E k \in kept : R[i] = answer[k]
  BY <1>8, <1>9 DEF opens
<1>11. \A i, j \in DOMAIN R : i < j => R[i] <= R[j]
  BY <1>6, <1>8, <1>9
<1> QED BY <1>9, <1>10, <1>11 DEF R, N

(* As many bars as a window has, in strictly ascending order within it,    *)
(* leave no hole.                                                          *)
LEMMA AscendingFills ==
  ASSUME NEW n \in Nat, NEW a \in Int, NEW f \in [1..n -> a..(a + n - 1)],
         \A i, j \in 1..n : i < j => f[i] < f[j]
  PROVE  \A i \in 1..n : f[i] = a + i - 1
<1> TAKE i \in 1..n
<1>0. f[i] \in Int /\ a <= f[i] /\ f[i] <= a + n - 1 /\ i \in Int /\ 1 <= i /\ i <= n
  OBVIOUS
<1>1. i - 1 <= f[i] - a
  <2> DEFINE g == [j \in 1..(i - 1) |-> f[j]]
  <2>1. /\ \A j \in 1..(i - 1) : g[j] \in a..(f[i] - 1)
        /\ \A j, k \in 1..(i - 1) : g[j] = g[k] => j = k
    <3>1. \A j \in 1..(i - 1) : j \in 1..n /\ j < i /\ f[j] \in Int
      BY <1>0
    <3>2. \A j, k \in 1..(i - 1) : j # k => j < k \/ k < j
      BY <1>0
    <3> QED BY <1>0, <3>1, <3>2
  <2>2. g \in Injection(1..(i - 1), a..(f[i] - 1))
    <3>1. g \in [1..(i - 1) -> a..(f[i] - 1)]
      BY <2>1
    <3> QED BY <2>1, <3>1, Fun_IsInj, Zenon
  <2>3. IsFiniteSet(a..(f[i] - 1))
        /\ Cardinality(a..(f[i] - 1)) = IF a > f[i] - 1 THEN 0 ELSE (f[i] - 1) - a + 1
    <3>1. a \in Int /\ f[i] - 1 \in Int
      BY <1>0
    <3> HIDE DEF g
    <3> QED BY <3>1, FS_Interval, Zenon
  <2>4. Cardinality(1..(i - 1)) = IF 1 > i - 1 THEN 0 ELSE (i - 1) - 1 + 1
    BY <1>0, FS_Interval
  <2>5. Cardinality(1..(i - 1)) <= Cardinality(a..(f[i] - 1))
    <3> HIDE DEF g
    <3> QED BY <2>2, <2>3, FS_Injection
  <2> QED BY <1>0, <2>3, <2>4, <2>5
<1>2. n - i <= a + n - 1 - f[i]
  <2> DEFINE g == [j \in (i + 1)..n |-> f[j]]
             b == a + n - 1
  <2>1. /\ \A j \in (i + 1)..n : g[j] \in (f[i] + 1)..b
        /\ \A j, k \in (i + 1)..n : g[j] = g[k] => j = k
    <3>1. \A j \in (i + 1)..n : j \in 1..n /\ i < j /\ f[j] \in Int /\ f[j] <= b
      BY <1>0
    <3>2. \A j, k \in (i + 1)..n : j # k => j < k \/ k < j
      BY <1>0
    <3> QED BY <1>0, <3>1, <3>2
  <2>2. g \in Injection((i + 1)..n, (f[i] + 1)..b)
    <3>1. g \in [(i + 1)..n -> (f[i] + 1)..b]
      BY <2>1
    <3> QED BY <2>1, <3>1, Fun_IsInj, Zenon
  <2>3. IsFiniteSet((f[i] + 1)..b)
        /\ Cardinality((f[i] + 1)..b) = IF f[i] + 1 > b THEN 0 ELSE b - (f[i] + 1) + 1
    <3>1. f[i] + 1 \in Int /\ b \in Int
      BY <1>0
    <3> HIDE DEF b
    <3> QED BY <3>1, FS_Interval, Zenon
  <2>4. Cardinality((i + 1)..n) = IF i + 1 > n THEN 0 ELSE n - (i + 1) + 1
    BY <1>0, FS_Interval
  <2>5. Cardinality((i + 1)..n) <= Cardinality((f[i] + 1)..b)
    <3> HIDE DEF g, b
    <3> QED BY <2>2, <2>3, FS_Injection
  <2> QED BY <1>0, <2>3, <2>4, <2>5
<1> QED BY <1>0, <1>1, <1>2

LEMMA AppendIs ==
  ASSUME NEW S, NEW n \in Nat, NEW f \in [1..(n + 1) -> S], NEW g \in [1..n -> S],
         \A i \in 1..n : g[i] = f[i]
  PROVE  Append(g, f[n + 1]) = f
<1>1. g \in Seq(S) /\ Len(g) = n /\ f \in Seq(S) /\ Len(f) = n + 1
  OBVIOUS
<1>2. \A i \in 1..(n + 1) : Append(g, f[n + 1])[i] = f[i]
  BY <1>1
<1>3. Append(g, f[n + 1]) \in Seq(S) /\ Len(Append(g, f[n + 1])) = n + 1
  BY <1>1
<1> QED BY <1>1, <1>2, <1>3

-----------------------------------------------------------------------------
(* The inductive invariant.                                                *)

Running == {"fetch"} \union Calling

Target == Position(sample, rows)

First == WarmupStart(sample, rows)

(* The outputs of step s for the first n rows of the warm-up.              *)
Made(s, n) == [i \in 1..n |-> OutputOf(s, rows[First + i - 1])]

(* What Start has checked.                                                 *)
BegunInv ==
  /\ phase = "start" => at = 1
  /\ phase \in Running =>
       /\ ValidDataset(dataset)
       /\ Loads(file) /\ Registers(config)
       /\ at \in DOMAIN dataset.samples

(* The target is where it is found first, and no row opens after it.       *)
WindowInv ==
  phase \in Calling =>
    /\ Len(rows) = sample.lookback
    /\ \A i, j \in DOMAIN rows : i < j => rows[i] <= rows[j]
    /\ \A i \in DOMAIN rows : rows[i] <= sample.open
    /\ Target \in DOMAIN rows /\ rows[Target] = sample.open
    /\ \A i \in DOMAIN rows : rows[i] = sample.open => Target <= i

(* The first step of a bar has seen that no row up to it is repeated.      *)
CursorInv ==
  /\ phase = "warm" => row \in First..(Target - 1) /\ step \in {1, 2}
  /\ phase = "target" => row = Target
  /\ phase \in Calling /\ step > 1 =>
       \A i, j \in 1..row : i # j => rows[i] # rows[j]

HistoryInv ==
  phase \in Calling => states = Made(1, row - First) /\ analyses = Made(2, row - First)

HasInvalidRun(id) == \E i \in DOMAIN runs : runs[i].sample = id /\ ~runs[i].schema_valid

(* A sample has gone through every step unless the runs show a failure.    *)
Accounted(n) ==
  \/ HasInvalidRun(dataset.samples[n].id)
  \/ \A s \in Steps : HasValidRun(dataset.samples[n].id, s)

ChainInv ==
  /\ phase \in Running =>
       \A n \in DOMAIN dataset.samples : n < at => Accounted(n)
  /\ phase = "target" =>
       \A i \in 1..4 : i < step => HasValidRun(sample.id, TARGET_STEPS[i])
  /\ phase = "report" => \A n \in DOMAIN dataset.samples : Accounted(n)

(* A run is one of a sample of the dataset, and a valid one is no failure. *)
RunsInv ==
  \A i \in DOMAIN runs :
    /\ runs[i].schema_valid => runs[i].failure_category = "none"
    /\ \E n \in DOMAIN dataset.samples : runs[i].sample = dataset.samples[n].id

IInv ==
  TypeOK /\ BegunInv /\ WindowInv /\ CursorInv /\ HistoryInv /\ ChainInv /\ RunsInv

-----------------------------------------------------------------------------
(* What it rests on: the steps, the samples and the outcomes.              *)

LEMMA StepsAre == \A i \in 1..4 : TARGET_STEPS[i] \in Steps
  BY DEF Steps

LEMMA SampleType ==
  ASSUME TypeOK, NEW n \in DOMAIN dataset.samples
  PROVE  dataset.samples[n] \in Sample
<1>1. dataset \in Dataset
  BY DatasetsAssumption DEF TypeOK
<1>2. dataset.samples \in Seq(Sample)
  BY <1>1 DEF Dataset
<1> QED BY <1>2

LEMMA LiveRunType ==
  ASSUME NEW id \in Nat, NEW s \in Steps, NEW reply, NEW c
  PROVE  LET run == LiveRun(id, s, ExecuteJson(c, s, reply))
         IN  /\ run \in StepRun
             /\ run.sample = id /\ run.step = s
             /\ run.schema_valid <=> ExecuteJson(c, s, reply).kind = "success"
             /\ run.schema_valid => run.failure_category = "none"
<1> DEFINE k == ExecuteJson(c, s, reply).kind
<1>1. k \in {"success", "schema_failed", "outbound_failed"}
  BY DEF ExecuteJson
<1> HIDE DEF k
<1>2. CASE k = "success"
  BY <1>2 DEF k, LiveRun, StepRun
<1>3. CASE k = "schema_failed"
  BY <1>3 DEF k, LiveRun, StepRun
<1>4. CASE k = "outbound_failed"
  BY <1>4 DEF k, LiveRun, StepRun
<1> QED BY <1>1, <1>2, <1>3, <1>4 DEF k

(* Appending to the runs takes no run away.                                *)
LEMMA RunsGrow ==
  ASSUME TypeOK, NEW run \in StepRun, runs' = Append(runs, run)
  PROVE  /\ runs' \in Seq(StepRun)
         /\ \A i \in DOMAIN runs : i \in DOMAIN runs' /\ runs'[i] = runs[i]
         /\ \A i \in DOMAIN runs' : i \in DOMAIN runs \/ runs'[i] = run
         /\ \E i \in DOMAIN runs' : runs'[i] = run
<1>1. runs \in Seq(StepRun)
  BY DEF TypeOK
<1>2. /\ runs' \in Seq(StepRun) /\ Len(runs') = Len(runs) + 1
      /\ \A i \in 1..Len(runs) : runs'[i] = runs[i]
      /\ runs'[Len(runs) + 1] = run
  BY <1>1
<1> QED BY <1>1, <1>2

THEOREM InitIInv == Init => IInv
<1> SUFFICES ASSUME Init PROVE IInv
  OBVIOUS
<1> USE DEF Init
<1>1. TypeOK
  BY DEF TypeOK, Phase
<1>2. BegunInv /\ WindowInv /\ CursorInv /\ HistoryInv /\ ChainInv
  BY DEF BegunInv, WindowInv, CursorInv, HistoryInv, ChainInv, Running, Calling
<1>3. RunsInv
  BY DEF RunsInv
<1> QED BY <1>1, <1>2, <1>3 DEF IInv

(* A replay that fails keeps its runs, and nothing else is said of it.     *)
LEMMA FailIInv ==
  ASSUME IInv, NEW why \in {"dataset", "config", "fetch", "input", "warmup", "unresolved"}, Fail(why)
  PROVE  IInv'
<1> USE DEF Fail
<1>1. TypeOK'
  BY DEF IInv, TypeOK, Phase
<1>2. BegunInv' /\ WindowInv' /\ CursorInv' /\ HistoryInv' /\ ChainInv'
  BY DEF BegunInv, WindowInv, CursorInv, HistoryInv, ChainInv, Running, Calling
<1>3. RunsInv'
  BY DEF IInv, RunsInv
<1> QED BY <1>1, <1>2, <1>3 DEF IInv

LEMMA StartIInv == IInv /\ Start => IInv'
<1> SUFFICES ASSUME IInv, Start PROVE IInv'
  OBVIOUS
<1> DEFINE Passed == /\ ValidDataset(dataset) /\ dataset.variant = dataset.asked
                     /\ Loads(file) /\ Registers(config)
<1>1. CASE ~(ValidDataset(dataset) /\ dataset.variant = dataset.asked)
  BY <1>1, FailIInv DEF Start
<1>2. CASE /\ ValidDataset(dataset) /\ dataset.variant = dataset.asked
           /\ ~(Loads(file) /\ Registers(config))
  BY <1>2, FailIInv DEF Start
<1>3. CASE Passed
  <2>1. /\ phase = "start" /\ phase' = "fetch"
        /\ UNCHANGED <<dataset, file, cause, at, rows, row, step, tries, states,
                       analyses, runs>>
    BY <1>3 DEF Start
  <2>2. TypeOK'
    BY <2>1 DEF IInv, TypeOK, Phase
  <2>3. at = 1 /\ dataset.samples \in Seq(Sample) /\ dataset.samples # <<>>
    BY <1>3, <2>1, DatasetsAssumption DEF IInv, BegunInv, TypeOK, Dataset, ValidDataset
  <2>4. BegunInv'
    BY <1>3, <2>1, <2>3 DEF BegunInv, ValidDataset, config
  <2>5. WindowInv' /\ CursorInv' /\ HistoryInv'
    BY <2>1 DEF WindowInv, CursorInv, HistoryInv, Calling
  <2>6. ChainInv'
    BY <2>1, <2>3 DEF ChainInv
  <2>7. RunsInv'
    BY <2>1 DEF IInv, RunsInv
  <2> QED BY <2>2, <2>4, <2>5, <2>6, <2>7 DEF IInv
<1> QED BY <1>1, <1>2, <1>3

(* The runs of a fixture replay are those of its samples, four of each.    *)
LEMMA ExecuteVariantIs ==
  ASSUME NEW samples \in Seq(Sample),
         \A n \in DOMAIN samples : ValidVariantSteps(samples[n].fixtures)
  PROVE  LET made == ExecuteVariant(samples)
         IN  /\ made \in Seq(StepRun)
             /\ \A k \in DOMAIN made :
                  /\ made[k].failure_category = "none"
                  /\ \E n \in DOMAIN samples : made[k].sample = samples[n].id
             /\ \A n \in DOMAIN samples : \A i \in 1..4 :
                  \E k \in DOMAIN made : /\ made[k].sample = samples[n].id
                                        /\ made[k].step = TARGET_STEPS[i]
<1> DEFINE made == ExecuteVariant(samples)
           nth(k) == ((k - 1) \div 4) + 1
           ith(k) == ((k - 1) % 4) + 1
           L == Len(samples)
<1>0. L \in Nat /\ DOMAIN samples = 1..L
  OBVIOUS
<1>1. \A k \in 1..(4 * L) : nth(k) \in DOMAIN samples /\ ith(k) \in 1..4
  <2> HIDE DEF L
  <2> QED BY <1>0
<1>2. \A n \in DOMAIN samples : \A i \in 1..4 :
        4 * (n - 1) + i \in 1..(4 * L) /\ nth(4 * (n - 1) + i) = n /\ ith(4 * (n - 1) + i) = i
  <2>1. \A m \in Nat : \A i \in 1..4 : nth(4 * m + i) = m + 1 /\ ith(4 * m + i) = i
    OBVIOUS
  <2> HIDE DEF L, nth, ith
  <2> SUFFICES ASSUME NEW n \in DOMAIN samples, NEW i \in 1..4
               PROVE  /\ 4 * (n - 1) + i \in 1..(4 * L)
                      /\ nth(4 * (n - 1) + i) = n /\ ith(4 * (n - 1) + i) = i
    OBVIOUS
  <2>2. n - 1 \in Nat /\ n \in 1..L /\ (n - 1) + 1 = n
    BY <1>0
  <2>3. nth(4 * (n - 1) + i) = (n - 1) + 1 /\ ith(4 * (n - 1) + i) = i
    BY <2>1, <2>2
  <2>4. 4 * (n - 1) + i \in 1..(4 * L)
    BY <1>0, <2>2
  <2> QED BY <2>2, <2>3, <2>4
<1>3. made = [k \in 1..(4 * L) |->
                FixtureRun(samples[nth(k)].id, samples[nth(k)].fixtures[ith(k)].step,
                           samples[nth(k)].fixtures[ith(k)].json)]
  BY DEF ExecuteVariant
<1> HIDE DEF made, nth, ith, L
<1>4. ASSUME NEW k \in 1..(4 * L)
      PROVE  /\ made[k] \in StepRun /\ made[k].failure_category = "none"
             /\ made[k].sample = samples[nth(k)].id
             /\ made[k].step = TARGET_STEPS[ith(k)]
  <2>1. nth(k) \in DOMAIN samples /\ ith(k) \in 1..4
    BY <1>1
  <2>2. samples[nth(k)] \in Sample
    BY <2>1
  <2>3. samples[nth(k)].id \in Nat
    BY <2>2 DEF Sample
  <2>4. samples[nth(k)].fixtures[ith(k)].step = TARGET_STEPS[ith(k)]
    BY <2>1 DEF ValidVariantSteps
  <2>5. TARGET_STEPS[ith(k)] \in Steps
    BY <2>1 DEF Steps
  <2> QED BY <1>3, <2>3, <2>4, <2>5 DEF FixtureRun, StepRun
<1>5. made \in Seq(StepRun) /\ DOMAIN made = 1..(4 * L)
  BY <1>0, <1>3, <1>4
<1>6. \A n \in DOMAIN samples : \A i \in 1..4 :
        \E k \in DOMAIN made : /\ made[k].sample = samples[n].id
                              /\ made[k].step = TARGET_STEPS[i]
  <2> TAKE n \in DOMAIN samples, i \in 1..4
  <2> DEFINE k == 4 * (n - 1) + i
  <2>1. k \in 1..(4 * L) /\ nth(k) = n /\ ith(k) = i
    BY <1>2
  <2> HIDE DEF k
  <2>2. k \in DOMAIN made
    BY <1>5, <2>1
  <2> QED BY <1>4, <2>1, <2>2
<1>7. \A k \in DOMAIN made : /\ made[k].failure_category = "none"
                              /\ \E n \in DOMAIN samples : made[k].sample = samples[n].id
  BY <1>1, <1>4, <1>5
<1> QED BY <1>5, <1>6, <1>7 DEF made

LEMMA RunFixturesIInv == IInv /\ RunFixtures => IInv'
<1> SUFFICES ASSUME IInv, RunFixtures PROVE IInv'
  OBVIOUS
<1> DEFINE Passed ==
      /\ dataset.supported
      /\ \A n \in DOMAIN dataset.samples : ValidVariantSteps(dataset.samples[n].fixtures)
<1>1. CASE ~Passed
  BY <1>1, FailIInv DEF RunFixtures
<1>2. CASE Passed
  <2>1. /\ runs' = ExecuteVariant(dataset.samples) /\ phase' = "report"
        /\ UNCHANGED <<dataset, file, cause, at, rows, row, step, tries, states, analyses>>
    BY <1>2 DEF RunFixtures
  <2>2. dataset.samples \in Seq(Sample)
    BY DatasetsAssumption DEF IInv, TypeOK, Dataset
  <2>3. /\ runs' \in Seq(StepRun)
        /\ \A k \in DOMAIN runs' :
             /\ runs'[k].failure_category = "none"
             /\ \E n \in DOMAIN dataset.samples : runs'[k].sample = dataset.samples[n].id
        /\ \A n \in DOMAIN dataset.samples : \A i \in 1..4 :
             \E k \in DOMAIN runs' : /\ runs'[k].sample = dataset.samples[n].id
                                    /\ runs'[k].step = TARGET_STEPS[i]
    BY <1>2, <2>1, <2>2, ExecuteVariantIs
  <2>4. TypeOK'
    BY <2>1, <2>3 DEF IInv, TypeOK, Phase
  <2>5. BegunInv' /\ WindowInv' /\ CursorInv' /\ HistoryInv'
    BY <2>1 DEF BegunInv, WindowInv, CursorInv, HistoryInv, Running, Calling
  <2>6. ASSUME NEW n \in DOMAIN dataset.samples
        PROVE  Accounted(n)'
    <3>1. CASE HasInvalidRun(dataset.samples[n].id)'
      BY <3>1 DEF Accounted
    <3>2. CASE ~HasInvalidRun(dataset.samples[n].id)'
      <4>1. \A k \in DOMAIN runs' :
              runs'[k].sample = dataset.samples[n].id => runs'[k].schema_valid
        BY <2>1, <3>2 DEF HasInvalidRun
      <4>2. \A i \in 1..4 : \E k \in DOMAIN runs' : /\ runs'[k].sample = dataset.samples[n].id
                                                  /\ runs'[k].step = TARGET_STEPS[i]
        BY <2>3
      <4>3. \A s \in Steps : \E k \in DOMAIN runs' : /\ runs'[k].sample = dataset.samples[n].id
                                                  /\ runs'[k].step = s
        BY <4>2 DEF Steps
      <4>4. \A s \in Steps : HasValidRun(dataset.samples[n].id, s)'
        BY <2>1, <4>1, <4>3 DEF HasValidRun
      <4> QED BY <2>1, <4>4 DEF Accounted
    <3> QED BY <3>1, <3>2
  <2>7. ChainInv'
    BY <2>1, <2>6 DEF ChainInv, Running, Calling
  <2>8. RunsInv'
    BY <2>1, <2>3 DEF RunsInv
  <2> QED BY <2>4, <2>5, <2>7, <2>8 DEF IInv
<1> QED BY <1>1, <1>2

(* Where the target and the start of the warm-up are in sorted rows.       *)
LEMMA PositionIs ==
  ASSUME NEW s \in Sample, NEW R \in Seq(Int), \E i \in DOMAIN R : R[i] = s.open
  PROVE  /\ Position(s, R) \in DOMAIN R /\ R[Position(s, R)] = s.open
         /\ \A i \in DOMAIN R : R[i] = s.open => Position(s, R) <= i
<1> DEFINE S == {i \in DOMAIN R : R[i] = s.open}
<1>1. S \in SUBSET Int /\ S # {} /\ IsFiniteSet(S)
  <2>1. IsFiniteSet(DOMAIN R)
    BY FS_Interval
  <2> QED BY <2>1, FS_Subset
<1>2. Position(s, R) = Least(S)
  BY DEF Position
<1> HIDE DEF S
<1>3. Least(S) \in S /\ \A i \in S : Least(S) <= i
  BY <1>1, LeastIs
<1> QED BY <1>2, <1>3 DEF S

LEMMA WarmupStartIs ==
  ASSUME NEW s \in Sample, NEW R, Position(s, R) \in Nat \ {0}
  PROVE  /\ WarmupStart(s, R) \in 1..Position(s, R)
         /\ s.warmup < Position(s, R) => WarmupStart(s, R) = Position(s, R) - s.warmup
BY DEF WarmupStart, Sample

(* What the window invariant says of the numbers.                          *)
LEMMA WindowFacts ==
  ASSUME IInv, phase \in Calling
  PROVE  /\ sample \in Sample /\ ValidSample(sample)
         /\ sample.open \in Int /\ sample.warmup \in Nat /\ sample.lookback \in Nat
         /\ rows \in Seq(Int) /\ Len(rows) \in Nat /\ DOMAIN rows = 1..Len(rows)
         /\ \A i \in DOMAIN rows : rows[i] \in Int
         /\ Target \in DOMAIN rows /\ First \in 1..Target
         /\ row \in First..Target /\ row \in DOMAIN rows
<1>1. sample \in Sample /\ ValidSample(sample)
  BY SampleType DEF IInv, BegunInv, Running, ValidDataset, sample
<1>2. /\ rows \in Seq(Int) /\ Len(rows) \in Nat /\ DOMAIN rows = 1..Len(rows)
      /\ \A i \in DOMAIN rows : rows[i] \in Int
  BY DEF IInv, TypeOK
<1>3. Target \in DOMAIN rows
  BY DEF IInv, WindowInv
<1>4. First \in 1..Target
  BY <1>1, <1>2, <1>3, WarmupStartIs DEF Target, First
<1>5. row \in First..Target /\ row \in DOMAIN rows
  BY <1>2, <1>3, <1>4 DEF IInv, CursorInv, Calling
<1> QED BY <1>1, <1>2, <1>3, <1>4, <1>5 DEF Sample

LEMMA FetchRowsIInv ==
  ASSUME IInv, NEW answer \in Answers, FetchRows(answer)
  PROVE  IInv'
<1> DEFINE kept == Retained(sample, answer)
           R == Sorted(answer, kept)
<1>1. CASE ~Suffices(sample, R)
  BY <1>1, FailIInv DEF FetchRows
<1>2. CASE Suffices(sample, R)
  <2>1. /\ phase = "fetch" /\ rows' = R /\ row' = WarmupStart(sample, R)
        /\ step' = 1 /\ tries' = 0 /\ states' = <<>> /\ analyses' = <<>>
        /\ phase' = IF row' = Position(sample, R) THEN "target" ELSE "warm"
        /\ UNCHANGED <<dataset, file, cause, at, runs>>
    BY <1>2 DEF FetchRows
  <2>2. sample \in Sample /\ sample' = sample
    BY <2>1, SampleType DEF IInv, BegunInv, Running, sample
  <2>3. sample.open \in Int /\ sample.close \in Int /\ sample.open + 1 = sample.close
    BY <1>2, <2>2 DEF Sample, Suffices
  <2>4. answer \in Seq(Int) /\ kept \in SUBSET DOMAIN answer
    BY AnswersAssumption DEF Retained
  <2>5. \A k \in kept : answer[k] <= sample.open
    BY <2>3, <2>4 DEF Retained
  <2> HIDE DEF kept
  <2>6. /\ R \in Seq(Int)
        /\ \A i \in DOMAIN R : \E k \in kept : R[i] = answer[k]
        /\ \A i, j \in DOMAIN R : i < j => R[i] <= R[j]
    BY <2>4, SortedIs
  <2> HIDE DEF R
  <2>7. Len(R) = sample.lookback /\ \E i \in DOMAIN R : R[i] = sample.open
    BY <1>2 DEF Suffices
  <2>8. /\ Target' = Position(sample, R) /\ First' = WarmupStart(sample, R)
    BY <2>1, <2>2 DEF Target, First
  <2>9. /\ Target' \in DOMAIN R /\ R[Target'] = sample.open
        /\ \A i \in DOMAIN R : R[i] = sample.open => Target' <= i
    BY <2>2, <2>6, <2>7, <2>8, PositionIs
  <2>10. First' \in 1..Target' /\ Target' \in Nat
    BY <2>2, <2>6, <2>8, <2>9, WarmupStartIs
  <2>11. TypeOK'
    BY <2>1, <2>6, <2>8, <2>10 DEF IInv, TypeOK, Phase
  <2>12. BegunInv'
    BY <2>1 DEF IInv, BegunInv, Running, Calling, config
  <2>13. WindowInv'
    <3>1. \A i \in DOMAIN R : R[i] <= sample.open
      BY <2>5, <2>6
    <3> QED BY <2>1, <2>2, <2>6, <2>7, <2>9, <3>1 DEF WindowInv
  <2>14. CursorInv'
    BY <2>1, <2>8, <2>10 DEF CursorInv
  <2>15. HistoryInv'
    <3>1. row' - First' = 0
      BY <2>1, <2>8, <2>10
    <3>2. \A s : Made(s, 0) = <<>>
      BY DEF Made
    <3>3. \A s : Made(s, 0)' = <<>>
      BY DEF Made
    <3> QED BY <2>1, <3>1, <3>3 DEF HistoryInv
  <2>16. ChainInv'
    BY <2>1 DEF IInv, ChainInv, Running, Calling, Accounted, HasInvalidRun, HasValidRun
  <2>17. RunsInv'
    BY <2>1 DEF IInv, RunsInv
  <2> QED BY <2>11, <2>12, <2>13, <2>14, <2>15, <2>16, <2>17 DEF IInv
<1> QED BY <1>1, <1>2

(* Rows and sample stay, and with them what is read off them.              *)
LEMMA SameWindow ==
  ASSUME UNCHANGED <<dataset, at, rows>>
  PROVE  /\ sample' = sample /\ Target' = Target /\ First' = First
         /\ \A s, n : Made(s, n)' = Made(s, n)
<1>1. sample' = sample
  BY DEF sample
<1>2. Target' = Target /\ First' = First
  BY <1>1 DEF Target, First
<1>3. \A s, n : Made(s, n)' = Made(s, n)
  BY <1>1, <1>2 DEF Made, OutputOf
<1> QED BY <1>1, <1>2, <1>3

LEMMA RetryIInv == IInv /\ Retry => IInv'
<1> SUFFICES ASSUME IInv, Retry PROVE IInv'
  OBVIOUS
<1> USE DEF Retry
<1>1. TypeOK'
  BY DEF IInv, TypeOK
<1>2. sample' = sample /\ config' = config
  BY DEF sample, config
<1>3. BegunInv'
  BY <1>2 DEF IInv, BegunInv, Running, Calling
<1>6. WindowInv' /\ CursorInv'
  BY <1>2, SameWindow DEF IInv, WindowInv, CursorInv, Calling
<1>4. HistoryInv'
  BY <1>2, SameWindow DEF IInv, HistoryInv
<1>5. ChainInv' /\ RunsInv'
  BY <1>2 DEF IInv, ChainInv, RunsInv, Accounted, HasInvalidRun, HasValidRun
<1> QED BY <1>1, <1>3, <1>4, <1>5, <1>6 DEF IInv

(* The outputs of one more bar.                                            *)
LEMMA MadeGrows ==
  ASSUME sample \in Sample, rows \in Seq(Int), First \in Nat \ {0},
         NEW s \in {1, 2}, NEW n \in Nat, First + n \in DOMAIN rows
  PROVE  /\ Made(s, n) \in Seq(Output)
         /\ Append(Made(s, n), OutputOf(s, rows[First + n])) = Made(s, n + 1)
<1>1. sample.id \in Nat
  BY DEF Sample
<1>2. \A b \in Int : OutputOf(s, b) \in Output
  BY <1>1, StepsAre DEF OutputOf, Output
<1>3. \A i \in 1..(n + 1) : First + i - 1 \in DOMAIN rows /\ rows[First + i - 1] \in Int
  OBVIOUS
<1>4. Made(s, n + 1) \in [1..(n + 1) -> Output] /\ Made(s, n) \in [1..n -> Output]
  BY <1>2, <1>3 DEF Made
<1>5. \A i \in 1..n : Made(s, n)[i] = Made(s, n + 1)[i]
  BY DEF Made
<1>6. Made(s, n + 1)[n + 1] = OutputOf(s, rows[First + n])
  <2>1. First + (n + 1) - 1 = First + n
    OBVIOUS
  <2> QED BY <2>1 DEF Made
<1>7. Append(Made(s, n), Made(s, n + 1)[n + 1]) = Made(s, n + 1)
  BY <1>4, <1>5, AppendIs
<1> QED BY <1>4, <1>6, <1>7

LEMMA WarmCallIInv ==
  ASSUME IInv, phase = "warm", ~Repeats(Visible), NEW outcome, WarmCall(outcome)
  PROVE  IInv'
<1>1. CASE CanRetry(outcome)
  BY <1>1, RetryIInv DEF WarmCall
<1>2. CASE ~CanRetry(outcome) /\ outcome.kind # "success"
  BY <1>2, FailIInv DEF WarmCall
<1>3. CASE ~CanRetry(outcome) /\ outcome.kind = "success"
  <2>1. /\ IF step = 1 THEN NextStep ELSE NextBar
        /\ phase' = IF row' = Target THEN "target" ELSE "warm"
        /\ tries' = 0 /\ UNCHANGED <<dataset, file, cause, runs>> /\ at' = at /\ rows' = rows
    BY <1>3 DEF WarmCall, NextStep, NextBar, Target
  <2>2. /\ sample' = sample /\ config' = config /\ Target' = Target /\ First' = First
        /\ \A s, n : Made(s, n)' = Made(s, n)
    BY <2>1, SameWindow DEF config
  <2>3. /\ sample \in Sample /\ rows \in Seq(Int) /\ DOMAIN rows = 1..Len(rows)
        /\ Len(rows) \in Nat /\ Target \in DOMAIN rows /\ First \in 1..Target
    BY WindowFacts DEF Calling
  <2>4. row \in First..(Target - 1) /\ step \in {1, 2} /\ row \in Nat
    BY <2>3 DEF IInv, CursorInv
  <2>5. /\ states = Made(1, row - First) /\ analyses = Made(2, row - First)
        /\ row - First \in Nat
    BY <2>3, <2>4 DEF IInv, HistoryInv, Calling
  <2>6. phase' \in Calling
    BY <2>1 DEF Calling
  <2>7. BegunInv'
    BY <2>1, <2>2 DEF IInv, BegunInv, Running, Calling
  <2>8. WindowInv'
    BY <2>1, <2>2 DEF IInv, WindowInv, Calling
  <2>9. RunsInv'
    BY <2>1 DEF IInv, RunsInv
  <2>10. \A n \in DOMAIN dataset.samples : n < at => Accounted(n)'
    BY <2>1 DEF IInv, ChainInv, Running, Calling, Accounted, HasInvalidRun, HasValidRun
  <2>11. CASE step = 1
    <3>1. step' = 2 /\ UNCHANGED <<row, states, analyses>> /\ phase' = "warm"
      BY <2>1, <2>3, <2>4, <2>11 DEF NextStep
    <3>2. TypeOK'
      BY <2>1, <3>1 DEF IInv, TypeOK, Phase
    <3>3. \A i, j \in 1..row : i # j => rows[i] # rows[j]
      BY <2>11 DEF Repeats, Visible
    <3>4. CursorInv'
      <4>1. row \in First..(Target - 1)
        BY <2>4
      <4>2. phase' = "warm" => row' \in First'..(Target' - 1) /\ step' \in {1, 2}
        BY <2>2, <3>1, <4>1
      <4>3. \A i, j \in 1..row' : i # j => rows'[i] # rows'[j]
        BY <2>1, <3>1, <3>3
      <4> QED BY <3>1, <4>2, <4>3 DEF CursorInv
    <3>5. HistoryInv'
      BY <2>2, <2>5, <3>1 DEF HistoryInv
    <3>6. ChainInv'
      BY <2>1, <2>10, <3>1 DEF ChainInv
    <3> QED BY <2>7, <2>8, <2>9, <3>2, <3>4, <3>5, <3>6 DEF IInv
  <2>12. CASE step = 2
    <3>1. /\ states' = Append(states, OutputOf(1, rows[row])) /\ step' = 1
          /\ analyses' = Append(analyses, OutputOf(2, rows[row])) /\ row' = row + 1
      BY <2>1, <2>12 DEF NextBar, bar
    <3>2. /\ states' = Made(1, row' - First) /\ analyses' = Made(2, row' - First)
          /\ states' \in Seq(Output) /\ analyses' \in Seq(Output)
      <4> DEFINE n == row - First
      <4>1. /\ n \in Nat /\ First + n = row /\ row' - First = n + 1
            /\ First + n \in DOMAIN rows /\ First + (n + 1) \in DOMAIN rows
            /\ n + 1 \in Nat /\ First \in Nat \ {0}
        BY <2>3, <2>4, <3>1
      <4> HIDE DEF n
      <4>2. \A s \in {1, 2} :
              /\ Made(s, n + 1) \in Seq(Output)
              /\ Append(Made(s, n), OutputOf(s, rows[First + n])) = Made(s, n + 1)
        BY <2>3, <4>1, MadeGrows
      <4>3. states = Made(1, n) /\ analyses = Made(2, n)
        BY <2>5 DEF n
      <4> QED BY <3>1, <4>1, <4>2, <4>3
    <3>3. TypeOK'
      BY <2>1, <2>4, <3>1, <3>2 DEF IInv, TypeOK, Phase
    <3>4. CursorInv'
      <4>1. row \in First..(Target - 1) /\ First \in Int /\ Target \in Int
        BY <2>3, <2>4
      <4>2. row' \in First..Target /\ (phase' = "warm" <=> row' # Target)
        BY <2>1, <3>1, <4>1
      <4>3. phase' = "warm" => row' \in First'..(Target' - 1) /\ step' \in {1, 2}
        BY <2>2, <3>1, <4>1, <4>2
      <4>4. phase' = "target" => row' = Target'
        BY <2>2, <4>2
      <4> QED BY <3>1, <4>3, <4>4 DEF CursorInv
    <3>5. HistoryInv'
      BY <2>2, <3>2 DEF HistoryInv
    <3>6. ChainInv'
      BY <2>1, <2>10, <3>1 DEF ChainInv
    <3> QED BY <2>7, <2>8, <2>9, <3>3, <3>4, <3>5, <3>6 DEF IInv
  <2> QED BY <2>4, <2>11, <2>12
<1> QED BY <1>1, <1>2, <1>3

LEMMA TargetCallIInv ==
  ASSUME IInv, phase = "target", ~Repeats(Visible), NEW reply \in Replies,
         TargetCall(ExecuteJson(config, TARGET_STEPS[step], reply))
  PROVE  IInv'
<1> DEFINE outcome == ExecuteJson(config, TARGET_STEPS[step], reply)
           run == LiveRun(sample.id, TARGET_STEPS[step], outcome)
           Has(id, s) == \E i \in DOMAIN runs' :
                           runs'[i].sample = id /\ runs'[i].step = s /\ runs'[i].schema_valid
<1>1. CASE CanRetry(outcome)
  BY <1>1, RetryIInv DEF TargetCall
<1>2. CASE ~CanRetry(outcome)
  <2>1. /\ runs' = Append(runs, run) /\ tries' = 0
        /\ IF outcome.kind = "success" /\ step < 4 THEN NextStep /\ UNCHANGED phase
           ELSE SampleOver
        /\ UNCHANGED <<dataset, file, cause, rows, row, states, analyses>>
    BY <1>2 DEF TargetCall, Record, NextStep, SampleOver
  <2>2. /\ step \in 1..4 /\ at \in Nat /\ at \in DOMAIN dataset.samples
        /\ dataset.samples \in Seq(Sample) /\ sample \in Sample
    <3>1. dataset.samples \in Seq(Sample)
      BY DatasetsAssumption DEF IInv, TypeOK, Dataset
    <3> QED BY <3>1 DEF IInv, TypeOK, BegunInv, Running, Calling, sample
  <2>3. sample.id \in Nat /\ TARGET_STEPS[step] \in Steps
    BY <2>2, StepsAre DEF Sample
  <2>4. /\ run \in StepRun
        /\ run.sample = sample.id /\ run.step = TARGET_STEPS[step]
        /\ run.schema_valid <=> outcome.kind = "success"
        /\ run.schema_valid => run.failure_category = "none"
    BY <2>3, LiveRunType
  <2> HIDE DEF run, outcome
  <2>5. /\ runs' \in Seq(StepRun)
        /\ \A i \in DOMAIN runs : i \in DOMAIN runs' /\ runs'[i] = runs[i]
        /\ \A i \in DOMAIN runs' : i \in DOMAIN runs \/ runs'[i] = run
        /\ \E i \in DOMAIN runs' : runs'[i] = run
    BY <2>1, <2>4, RunsGrow DEF IInv
  <2>6. RunsInv'
    <3>1. at \in DOMAIN dataset.samples /\ run.sample = dataset.samples[at].id
      BY <2>2, <2>4 DEF sample
    <3> QED BY <2>1, <2>4, <2>5, <3>1 DEF IInv, RunsInv
  <2>7. \A id, s : /\ HasValidRun(id, s) => HasValidRun(id, s)'
                   /\ HasInvalidRun(id) => HasInvalidRun(id)'
    BY <2>5 DEF HasValidRun, HasInvalidRun
  <2>8. \A n \in DOMAIN dataset.samples : Accounted(n) => Accounted(n)'
    BY <2>1, <2>7 DEF Accounted
  <2>9. \A n \in DOMAIN dataset.samples : n < at => Accounted(n)'
    BY <2>8 DEF IInv, ChainInv, Running, Calling
  <2>10. \A i \in 1..4 : i < step => Has(sample.id, TARGET_STEPS[i])
    <3>1. \A i \in 1..4 : i < step => HasValidRun(sample.id, TARGET_STEPS[i])
      BY DEF IInv, ChainInv
    <3>2. \A id, s : HasValidRun(id, s) => Has(id, s)
      BY <2>5 DEF HasValidRun
    <3> QED BY <3>1, <3>2
  <2>11. config' = config
    BY <2>1 DEF config
  <2>12. CASE outcome.kind = "success" /\ step < 4
    <3>1. step' = step + 1 /\ UNCHANGED <<phase, at>>
      BY <2>1, <2>12 DEF NextStep
    <3>2. sample' = sample
      BY <2>1, <3>1 DEF sample
    <3>3. TypeOK'
      BY <2>1, <2>2, <2>5, <2>12, <3>1 DEF IInv, TypeOK
    <3>4. BegunInv'
      BY <2>1, <2>11, <3>1 DEF IInv, BegunInv, Running, Calling
    <3>5. WindowInv' /\ CursorInv'
      <4>1. Target' = Target /\ First' = First
        BY <2>1, <3>1, SameWindow
      <4>2. \A i, j \in 1..row : i # j => rows[i] # rows[j]
        BY <2>2 DEF IInv, CursorInv, Calling, Repeats, Visible
      <4> QED BY <2>1, <3>1, <3>2, <4>1, <4>2 DEF IInv, WindowInv, CursorInv, Calling
    <3>6. HistoryInv'
      BY <2>1, <3>1, SameWindow DEF IInv, HistoryInv, Calling
    <3>7. Has(sample.id, TARGET_STEPS[step])
      BY <2>4, <2>5, <2>12
    <3>8. \A i \in 1..4 : i < step' => Has(sample.id, TARGET_STEPS[i])
      BY <2>2, <2>10, <3>1, <3>7
    <3>9. \A id, s : Has(id, s) => HasValidRun(id, s)'
      BY DEF HasValidRun
    <3>10. ChainInv'
      <4>1. phase = "target" /\ phase' = "target"
        BY <3>1
      <4>2. \A i \in 1..4 : i < step' => HasValidRun(sample.id, TARGET_STEPS[i])'
        BY <3>2, <3>8, <3>9
      <4> QED BY <2>1, <2>9, <3>1, <3>2, <4>1, <4>2 DEF ChainInv
    <3> QED BY <2>6, <3>3, <3>4, <3>5, <3>6, <3>10 DEF IInv
  <2>13. CASE ~(outcome.kind = "success" /\ step < 4)
    <3>1. /\ phase' = IF at = Len(dataset.samples) THEN "report" ELSE "fetch"
          /\ at' = IF at = Len(dataset.samples) THEN at ELSE at + 1
          /\ step' = step
      BY <2>1, <2>13 DEF SampleOver
    <3>2. TypeOK'
      BY <2>1, <2>2, <2>5, <3>1 DEF IInv, TypeOK, Phase
    <3>3. BegunInv'
      BY <2>1, <2>2, <2>11, <3>1 DEF IInv, BegunInv, Running, Calling
    <3>4. WindowInv' /\ CursorInv' /\ HistoryInv'
      BY <3>1 DEF WindowInv, CursorInv, HistoryInv, Calling
    <3>5. ASSUME NEW n, n = at PROVE Accounted(n)'
      <4>1. dataset.samples[n].id = sample.id /\ dataset' = dataset
        BY <2>1, <3>5 DEF sample
      <4>2. CASE outcome.kind # "success"
        <5>1. \E i \in DOMAIN runs' : runs'[i].sample = sample.id /\ ~runs'[i].schema_valid
          BY <2>4, <2>5, <4>2
        <5> QED BY <4>1, <5>1 DEF Accounted, HasInvalidRun
      <4>3. CASE outcome.kind = "success"
        <5>1. step = 4
          BY <2>2, <2>13, <4>3
        <5>2. Has(sample.id, TARGET_STEPS[4])
          BY <2>4, <2>5, <4>3, <5>1
        <5>3. \A i \in 1..4 : Has(sample.id, TARGET_STEPS[i])
          BY <2>10, <5>1, <5>2
        <5>4. \A s \in Steps : Has(sample.id, s)
          BY <5>3 DEF Steps
        <5> QED BY <4>1, <5>4 DEF Accounted, HasValidRun
      <4> QED BY <4>2, <4>3
    <3>6. \A n \in DOMAIN dataset.samples : n <= at => Accounted(n)'
      <4> TAKE n \in DOMAIN dataset.samples
      <4>1. n \in Nat
        BY <2>2
      <4>2. n <= at => n < at \/ n = at
        BY <2>2, <4>1
      <4> QED BY <2>9, <3>5, <4>2
    <3>7. ChainInv'
      <4>1. \A n \in DOMAIN dataset.samples : n < at' => n <= at
        BY <2>2, <3>1
      <4>2. at = Len(dataset.samples) => \A n \in DOMAIN dataset.samples : n <= at
        BY <2>2
      <4> QED BY <2>1, <3>1, <3>6, <4>1, <4>2 DEF ChainInv
    <3> QED BY <2>6, <3>2, <3>3, <3>4, <3>7 DEF IInv
  <2> QED BY <2>12, <2>13
<1> QED BY <1>1, <1>2

LEMMA CallIInv ==
  ASSUME IInv, NEW reply \in Replies, Call(reply)
  PROVE  IInv'
<1> DEFINE outcome == ExecuteJson(config, TARGET_STEPS[step], reply)
<1>0. CASE Repeats(Visible)
  BY <1>0, FailIInv DEF Call
<1>1. CASE ~Repeats(Visible) /\ ~Resolves(config, TARGET_STEPS[step])
  BY <1>1, FailIInv DEF Call
<1>2. CASE ~Repeats(Visible) /\ Resolves(config, TARGET_STEPS[step]) /\ phase = "warm"
  <2>1. WarmCall(outcome)
    BY <1>2 DEF Call
  <2> QED BY <1>2, <2>1, WarmCallIInv
<1>3. CASE ~Repeats(Visible) /\ Resolves(config, TARGET_STEPS[step]) /\ phase = "target"
  <2>1. TargetCall(outcome)
    BY <1>3 DEF Call
  <2> QED BY <1>3, <2>1, TargetCallIInv
<1> QED BY <1>0, <1>1, <1>2, <1>3 DEF Call, Calling

LEMMA StutterIInv == IInv /\ UNCHANGED vars => IInv'
<1> SUFFICES ASSUME IInv, UNCHANGED vars PROVE IInv'
  OBVIOUS
<1> USE DEF vars
<1>1. sample' = sample /\ config' = config
  BY DEF sample, config
<1>2. TypeOK' /\ BegunInv' /\ RunsInv'
  BY <1>1 DEF IInv, TypeOK, BegunInv, RunsInv
<1>3. WindowInv' /\ CursorInv' /\ HistoryInv'
  BY <1>1, SameWindow DEF IInv, WindowInv, CursorInv, HistoryInv
<1>4. ChainInv'
  BY <1>1 DEF IInv, ChainInv, Accounted, HasInvalidRun, HasValidRun
<1> QED BY <1>2, <1>3, <1>4 DEF IInv

THEOREM NextIInv == IInv /\ [Next]_vars => IInv'
<1> SUFFICES ASSUME IInv, [Next]_vars PROVE IInv'
  OBVIOUS
<1>1. CASE Start
  BY <1>1, StartIInv
<1>2. CASE RunFixtures
  BY <1>2, RunFixturesIInv
<1>3. CASE FetchFails
  BY <1>3, FailIInv DEF FetchFails
<1>4. ASSUME NEW answer \in Answers, FetchRows(answer) PROVE IInv'
  BY <1>4, FetchRowsIInv
<1>5. ASSUME NEW reply \in Replies, Call(reply) PROVE IInv'
  BY <1>5, CallIInv
<1>6. CASE UNCHANGED vars
  BY <1>6, StutterIInv
<1> QED BY <1>1, <1>2, <1>3, <1>4, <1>5, <1>6 DEF Next

(* What every reachable state satisfies.                                   *)
THEOREM Invariance == Spec => []IInv
<1> QED BY InitIInv, NextIInv, PTL DEF Spec

-----------------------------------------------------------------------------
(* The theorems.                                                           *)

(* Every variable of the replay keeps its type.                            *)
THEOREM TypeCorrect == Spec => []TypeOK
<1>1. IInv => TypeOK
  BY DEF IInv
<1> QED BY <1>1, Invariance, PTL

(* Whatever a provider answers, the reported chain runs on the target; no  *)
(* call knows a bar of the future or one twice; the recent outputs are one *)
(* for each row of the warm-up; and none is missing unless a repeated bar  *)
(* or one from before the window made up for it.                           *)
THEOREM HistoryTheorem == Spec => []HistoryIsThePast
<1>1. IInv => HistoryIsThePast
  <2> SUFFICES ASSUME IInv, phase \in Calling, ~Repeats(Visible)
               PROVE  /\ phase = "target" <=> bar = sample.open
                      /\ \A i, j \in 1..row : i < j => rows[i] < rows[j]
                      /\ step \in {2, 3} => StatesShown = Past(1)
                      /\ step = 3 => AnalysesShown = Past(2)
                      /\ ~Padded =>
                           /\ \A i \in 1..row : rows[i] = StartOpen(sample) + i - 1
                           /\ rows[WarmupStart(sample, rows)] = sample.open - sample.warmup
    BY DEF HistoryIsThePast
  <2>1. /\ sample \in Sample /\ ValidSample(sample)
        /\ sample.open \in Int /\ sample.warmup \in Nat /\ sample.lookback \in Nat
        /\ rows \in Seq(Int) /\ Len(rows) \in Nat /\ DOMAIN rows = 1..Len(rows)
        /\ \A i \in DOMAIN rows : rows[i] \in Int
        /\ Target \in DOMAIN rows /\ First \in 1..Target
        /\ row \in First..Target /\ row \in DOMAIN rows /\ step \in 1..4
    BY WindowFacts DEF IInv, TypeOK
  <2>2. /\ Len(rows) = sample.lookback
        /\ \A i, j \in DOMAIN rows : i < j => rows[i] <= rows[j]
        /\ \A i \in DOMAIN rows : rows[i] <= sample.open
        /\ rows[Target] = sample.open
        /\ \A i \in DOMAIN rows : rows[i] = sample.open => Target <= i
    BY DEF IInv, WindowInv
  <2>3. phase = "target" <=> bar = sample.open
    <3>1. CASE phase = "target"
      BY <2>2, <3>1 DEF IInv, CursorInv, bar
    <3>2. CASE phase = "warm"
      <4>1. row < Target
        BY <2>1, <3>2 DEF IInv, CursorInv
      <4> QED BY <2>1, <2>2, <3>2, <4>1 DEF bar
    <3> QED BY <3>1, <3>2 DEF Calling
  <2>4. \A i, j \in 1..row : i # j => rows[i] # rows[j]
    <3>1. CASE step = 1
      BY <3>1 DEF Repeats, Visible
    <3>2. CASE step # 1
      BY <2>1, <3>2 DEF IInv, CursorInv
    <3> QED BY <3>1, <3>2
  <2>5. \A i, j \in 1..row : i < j => rows[i] < rows[j]
    <3> TAKE i \in 1..row, j \in 1..row
    <3>1. i \in DOMAIN rows /\ j \in DOMAIN rows /\ rows[i] \in Int /\ rows[j] \in Int
      BY <2>1
    <3>2. i < j => rows[i] <= rows[j] /\ rows[i] # rows[j]
      BY <2>2, <2>4, <3>1
    <3> QED BY <3>1, <3>2
  <2>6. ASSUME NEW s \in {1, 2}
        PROVE  Append(Made(s, row - First), OutputOf(s, bar)) = Past(s)
    <3> DEFINE n == row - First
    <3>1. /\ n \in Nat /\ First + n = row /\ n + 1 = row - First + 1
          /\ First \in Nat \ {0} /\ First + n \in DOMAIN rows
      BY <2>1
    <3> HIDE DEF n
    <3>2. Append(Made(s, n), OutputOf(s, rows[First + n])) = Made(s, n + 1)
      BY <2>1, <3>1, MadeGrows
    <3>3. Made(s, row - First + 1) = Past(s)
      BY DEF Made, Past, First
    <3> QED BY <3>1, <3>2, <3>3 DEF n, bar
  <2>7. states = Made(1, row - First) /\ analyses = Made(2, row - First)
    BY DEF IInv, HistoryInv
  <2>8. step \in {2, 3} => StatesShown = Past(1)
    BY <2>6, <2>7 DEF StatesShown
  <2>9. step = 3 => AnalysesShown = Past(2)
    BY <2>6, <2>7 DEF AnalysesShown
  <2>10. ASSUME ~Padded
         PROVE  /\ \A i \in 1..row : rows[i] = StartOpen(sample) + i - 1
                /\ rows[WarmupStart(sample, rows)] = sample.open - sample.warmup
    <3> DEFINE a == StartOpen(sample)
               n == Len(rows)
    <3>1. a \in Int /\ n \in Nat /\ a + n - 1 = sample.open
      BY <2>1, <2>2 DEF StartOpen
    <3>2. \A i \in 1..n : rows[i] \in a..(a + n - 1)
      <4>1. \A i \in 1..n : ~(rows[i] < a)
        BY <2>1, <2>10 DEF Padded
      <4> HIDE DEF a, n
      <4>2. \A i \in 1..n : rows[i] \in Int /\ rows[i] <= sample.open
        BY <2>1, <2>2 DEF n
      <4> QED BY <3>1, <4>1, <4>2
    <3>3. \A i, j \in 1..n : i < j => rows[i] < rows[j]
      <4> TAKE i \in 1..n, j \in 1..n
      <4>1. i \in DOMAIN rows /\ j \in DOMAIN rows /\ rows[i] \in Int /\ rows[j] \in Int
        BY <2>1
      <4>2. i < j => i # j /\ rows[i] <= rows[j]
        BY <2>2, <4>1
      <4>3. i # j => rows[i] # rows[j]
        BY <2>10, <4>1 DEF Padded, Repeats
      <4> QED BY <4>1, <4>2, <4>3
    <3>4. rows \in [1..n -> a..(a + n - 1)]
      <4>1. rows \in [1..n -> Int]
        BY <2>1
      <4> HIDE DEF a, n
      <4> QED BY <3>2, <4>1
    <3> HIDE DEF a, n
    <3>5. \A i \in 1..n : rows[i] = a + i - 1
      BY <3>1, <3>3, <3>4, AscendingFills
    <3>6. Target = n
      <4>1. Target \in 1..n
        BY <2>1 DEF n
      <4>2. rows[Target] = a + Target - 1
        BY <3>5, <4>1
      <4> QED BY <2>2, <3>1, <4>1, <4>2
    <3>7. sample.warmup < n
      BY <2>1, <2>2 DEF ValidSample, n
    <3>8. First = n - sample.warmup
      BY <2>1, <3>1, <3>6, <3>7, WarmupStartIs DEF First, Target
    <3>9. rows[First] = sample.open - sample.warmup
      <4>1. First \in 1..n
        BY <2>1, <3>6
      <4> QED BY <2>1, <3>1, <3>5, <3>8, <4>1
    <3>10. \A i \in 1..row : rows[i] = a + i - 1
      BY <2>1, <3>5 DEF n
    <3> QED BY <3>9, <3>10 DEF a, First
  <2> QED BY <2>3, <2>5, <2>8, <2>9, <2>10
<1> QED BY <1>1, Invariance, PTL

(* A replay that got past Start finds the profile and the provider of each *)
(* step, whatever the file was.                                            *)
THEOREM ResolvesTheorem == Spec => []StartedReplayResolves
<1>1. IInv => StartedReplayResolves
  <2> SUFFICES ASSUME IInv, phase \in Running, NEW s \in Steps
               PROVE  Resolves(config, s) /\ Profile(config, s).provider \in config.providers
    BY DEF StartedReplayResolves, Running
  <2>1. Loads(file) /\ Resolves(config, s)
    BY DEF IInv, BegunInv, Registers
  <2>2. CASE file.shape = "current"
    BY <2>1, <2>2 DEF Loads, ValidBindings, config, ConfigOf, Resolves, Profile
  <2>3. CASE file.shape # "current"
    <3>1. LegacyProviders(file) # {}
      <4>1. Cardinality(LegacyProviders(file)) = 1
        BY <2>1, <2>3 DEF Loads
      <4> QED BY <4>1, FS_EmptySet
    <3>2. config = Legacy(file)
      BY <2>3 DEF config, ConfigOf
    <3>3. /\ config.providers = LegacyProviders(file)
          /\ config.bindings[s] = "baseline_a_default"
          /\ config.profiles["baseline_a_default"].provider
                = CHOOSE k \in LegacyProviders(file) : TRUE
      BY <3>2 DEF Legacy
    <3> QED BY <2>1, <3>1, <3>3 DEF Profile
  <2> QED BY <2>2, <2>3
<1> QED BY <1>1, Invariance, PTL

(* A set of places of a sequence has a last one.                           *)
LEMMA LastExists ==
  ASSUME NEW n \in Nat, NEW T \in SUBSET (1..n), T # {}
  PROVE  \E m \in T : \A j \in T : j <= m
<1>1. IsFiniteSet(1..n) /\ T \subseteq 1..n /\ T \in SUBSET Int
  BY FS_Interval
<1>2. IsFiniteSet(T)
  BY <1>1, FS_Subset
<1> QED BY <1>1, <1>2, GreatestExists

LEMMA PairIsFinite == \A x, y, z : IsFiniteSet({x, y}) /\ IsFiniteSet({x, y, z})
<1> SUFFICES ASSUME NEW x, NEW y, NEW z PROVE IsFiniteSet({x, y}) /\ IsFiniteSet({x, y, z})
  OBVIOUS
<1>1. IsFiniteSet({x} \cup {y})
  BY FS_Singleton, FS_AddElement
<1>2. IsFiniteSet(({x} \cup {y}) \cup {z})
  BY <1>1, FS_AddElement
<1>3. {x, y} = {x} \cup {y} /\ {x, y, z} = ({x} \cup {y}) \cup {z}
  OBVIOUS
<1> QED BY <1>1, <1>2, <1>3

LEMMA StepsNamed ==
  {"shared_pa_state_bar", "shared_bar_analysis", "shared_daily_context"} \subseteq Steps
<1>1. /\ TARGET_STEPS[1] = "shared_pa_state_bar" /\ TARGET_STEPS[2] = "shared_bar_analysis"
      /\ TARGET_STEPS[3] = "shared_daily_context"
  BY DEF TARGET_STEPS
<1>2. 1 \in 1..4 /\ 2 \in 1..4 /\ 3 \in 1..4
  OBVIOUS
<1> QED BY <1>1, <1>2 DEF Steps

(* If all runs of a step are valid, and there is one, and the schema makes *)
(* a valid output have the paths a score looks for, the score is full.     *)
LEMMA FullPathScore ==
  ASSUME runs \in Seq(StepRun), NEW s \in Steps, NEW paths, IsFiniteSet(paths), paths # {},
         paths \subseteq RequiredKeys(s),
         \A i \in DOMAIN runs : runs[i].schema_valid,
         \E i \in DOMAIN runs : runs[i].step = s
  PROVE  AtLeast95(RequiredPathScore(runs, s, paths))
<1> DEFINE relevant == {i \in DOMAIN runs : runs[i].step = s}
           hits == {h \in relevant \X paths : Holds(runs[h[1]], h[2])}
           d == Cardinality(relevant) * Cardinality(paths)
<1>1. IsFiniteSet(DOMAIN runs)
  BY FS_Interval
<1>2. IsFiniteSet(relevant) /\ relevant # {}
  BY <1>1, FS_Subset
<1>3. hits = relevant \X paths
  BY DEF Holds
<1> HIDE DEF relevant, hits
<1>4. Cardinality(hits) = d
  BY <1>2, <1>3, FS_Product
<1>5. /\ Cardinality(relevant) \in Nat /\ Cardinality(relevant) # 0
      /\ Cardinality(paths) \in Nat /\ Cardinality(paths) # 0
  BY <1>2, FS_CardinalityType, FS_EmptySet
<1>6. d \in Nat /\ d # 0
  BY <1>5
<1>7. RequiredPathScore(runs, s, paths) = Ratio(Cardinality(hits), d)
  BY DEF RequiredPathScore, relevant, hits
<1> HIDE DEF d
<1> QED BY <1>4, <1>6, <1>7 DEF Ratio, AtLeast95

(* The last run of a sample and a step is complete if all runs are valid.  *)
LEMMA LastRunComplete ==
  ASSUME runs \in Seq(StepRun), NEW id, NEW s \in Steps, NEW paths,
         paths \subseteq RequiredKeys(s),
         \A i \in DOMAIN runs : runs[i].schema_valid, HasValidRun(id, s)
  PROVE  Complete(runs, id, s, paths)
<1> DEFINE own == {i \in DOMAIN runs : runs[i].sample = id /\ runs[i].step = s}
<1>1. Len(runs) \in Nat /\ DOMAIN runs = 1..Len(runs)
  OBVIOUS
<1>2. own \in SUBSET (1..Len(runs)) /\ own # {}
  BY <1>1 DEF HasValidRun
<1>3. PICK m \in own : \A j \in own : j <= m
  BY <1>1, <1>2, LastExists
<1>4. \A path \in paths : Holds(runs[m], path)
  BY DEF Holds
<1> QED BY <1>3, <1>4 DEF Complete

(* A report that passes the gate has a valid run of every sample and step, *)
(* and its summary names no failure.                                       *)
THEOREM GateTheorem == Spec => []GateMeansWholeChains
<1>1. IInv => GateMeansWholeChains
  <2> SUFFICES ASSUME IInv, phase = "report", PassesGate
               PROVE  WholeChains /\ ~SummaryNamesFailure
    BY DEF GateMeansWholeChains
  <2> DEFINE valid == {i \in DOMAIN runs : runs[i].schema_valid}
  <2>1. /\ runs \in Seq(StepRun) /\ Len(runs) \in Nat /\ DOMAIN runs = 1..Len(runs)
    BY DEF IInv, TypeOK
  <2>2. IsFiniteSet(DOMAIN runs) /\ Cardinality(DOMAIN runs) = Len(runs)
    BY <2>1, FS_Interval
  <2>3. Cardinality(valid) \in Nat
    BY <2>2, FS_Subset, FS_CardinalityType
  <2>4. Len(runs) # 0 /\ Cardinality(valid) = Len(runs)
    <3>1. SchemaHitRate(runs)[1] = SchemaHitRate(runs)[2]
      BY DEF PassesGate
    <3>2. SchemaHitRate(runs) = Ratio(Cardinality(valid), Len(runs))
      BY DEF SchemaHitRate
    <3> HIDE DEF valid
    <3> QED BY <2>1, <2>3, <3>1, <3>2 DEF Ratio
  <2>5. valid = DOMAIN runs
    BY <2>2, <2>4, FS_Subset
  <2>6. \A i \in DOMAIN runs : runs[i].schema_valid
    BY <2>5
  <2>7. WholeChains
    BY <2>6 DEF IInv, ChainInv, Accounted, HasInvalidRun, WholeChains
  <2>8. \A i \in DOMAIN runs : FailureCategory(runs[i]) = "none"
    BY <2>6 DEF IInv, RunsInv, FailureCategory
  <2>9. FirstFailing(runs) = 0
    BY <2>8 DEF FirstFailing
  <2>10. \A c \in {"schema_validation_failure", "outbound_failure"} :
           FailureCount(runs, c) = 0
    <3> TAKE c \in {"schema_validation_failure", "outbound_failure"}
    <3>1. {i \in DOMAIN runs : FailureCategory(runs[i]) = c} = {}
      BY <2>8
    <3> QED BY <3>1, FS_EmptySet DEF FailureCount
  <2> QED BY <2>7, <2>9, <2>10 DEF SummaryNamesFailure
<1> QED BY <1>1, Invariance, PTL

(* A report on whole chains whose summary names no failure passes the      *)
(* gate (replay_score.rs): what the scores look for in an output is what   *)
(* the schema of its step requires.                                        *)
THEOREM WholeChainsTheorem == Spec => []WholeChainsPassGate
<1>1. IInv => WholeChainsPassGate
  <2> SUFFICES ASSUME IInv, phase = "report", runs # <<>>, WholeChains, ~SummaryNamesFailure
               PROVE  PassesGate
    BY DEF WholeChainsPassGate
  <2>1. /\ runs \in Seq(StepRun) /\ Len(runs) \in Nat \ {0} /\ DOMAIN runs = 1..Len(runs)
        /\ IsFiniteSet(DOMAIN runs) /\ Cardinality(DOMAIN runs) = Len(runs)
    <3>1. runs \in Seq(StepRun) /\ Len(runs) \in Nat /\ DOMAIN runs = 1..Len(runs)
      BY DEF IInv, TypeOK
    <3>2. IsFiniteSet(DOMAIN runs) /\ Cardinality(DOMAIN runs) = Len(runs)
      BY <3>1, FS_Interval
    <3>3. Len(runs) # 0
      BY <3>1
    <3> QED BY <3>1, <3>2, <3>3
  <2>2. \A i \in DOMAIN runs : runs[i].schema_valid
    <3> SUFFICES ASSUME NEW i \in DOMAIN runs, ~runs[i].schema_valid PROVE FALSE
      OBVIOUS
    <3> DEFINE c == FailureCategory(runs[i])
               failed == {j \in DOMAIN runs : FailureCategory(runs[j]) = c}
    <3>1. runs[i] \in StepRun
      BY <2>1
    <3>2. c \in {"schema_validation_failure", "outbound_failure"}
      BY <3>1 DEF FailureCategory, StepRun
    <3>3. FailureCount(runs, c) = 0
      BY <3>2 DEF SummaryNamesFailure
    <3>4. IsFiniteSet(failed) /\ i \in failed
      BY <2>1, FS_Subset
    <3>5. Cardinality(failed) = 0
      BY <3>3 DEF FailureCount
    <3> QED BY <3>4, <3>5, FS_EmptySet
  <2>3. \A i \in DOMAIN runs : \A s \in Steps : HasValidRun(runs[i].sample, s)
    BY DEF IInv, RunsInv, WholeChains
  <2>4. \A s \in Steps : \E i \in DOMAIN runs : runs[i].step = s
    BY <2>1, <2>3 DEF HasValidRun
  <2>5. SchemaHitRate(runs)[1] = SchemaHitRate(runs)[2]
    <3>1. {i \in DOMAIN runs : runs[i].schema_valid} = DOMAIN runs
      BY <2>2
    <3> QED BY <2>1, <3>1 DEF SchemaHitRate, Ratio
  <2>6. AtLeast95(DecisionTreeCompleteness(runs))
    <3> DEFINE paths == {"decision_tree_state", "support_resistance_map", "signal_assessment"}
    <3>1. paths \subseteq RequiredKeys("shared_pa_state_bar")
      BY DEF RequiredKeys, PaStateBarKeys
    <3>2. IsFiniteSet(paths) /\ "shared_pa_state_bar" \in Steps
      BY PairIsFinite, StepsNamed
    <3> QED BY <2>1, <2>2, <2>4, <3>1, <3>2, FullPathScore DEF DecisionTreeCompleteness
  <2>7. AtLeast95(KeyLevelCompleteness(runs))
    <3> DEFINE paths == {"key_support_levels", "key_resistance_levels"}
    <3>1. paths \subseteq RequiredKeys("shared_daily_context")
      BY DEF RequiredKeys, DailyContextKeys
    <3>2. IsFiniteSet(paths) /\ "shared_daily_context" \in Steps
      BY PairIsFinite, StepsNamed
    <3> QED BY <2>1, <2>2, <2>4, <3>1, <3>2, FullPathScore DEF KeyLevelCompleteness
  <2>8. AtLeast95(SignalBarCompleteness(runs))
    <3> DEFINE paths == {"signal_bars", "candle_pattern_map"}
    <3>1. paths \subseteq RequiredKeys("shared_daily_context")
      BY DEF RequiredKeys, DailyContextKeys
    <3>2. IsFiniteSet(paths) /\ "shared_daily_context" \in Steps
      BY PairIsFinite, StepsNamed
    <3> QED BY <2>1, <2>2, <2>4, <3>1, <3>2, FullPathScore DEF SignalBarCompleteness
  <2>9. AtLeast95(DualPathCompleteness(runs))
    <3> DEFINE paths == {"bullish_case", "bearish_case", "two_sided_balance"}
    <3>1. paths \subseteq RequiredKeys("shared_bar_analysis")
      BY DEF RequiredKeys, BarAnalysisKeys
    <3>2. IsFiniteSet(paths) /\ "shared_bar_analysis" \in Steps
      BY PairIsFinite, StepsNamed
    <3> QED BY <2>1, <2>2, <2>4, <3>1, <3>2, FullPathScore DEF DualPathCompleteness
  <2>10. AtLeast95(CrossStepConsistencyRate(runs))
    <3> DEFINE samples == {runs[i].sample : i \in DOMAIN runs}
               consistent == {id \in samples : Consistent(runs, id)}
    <3>1. ASSUME NEW id \in samples PROVE Consistent(runs, id)
      <4>1. \A s \in Steps : HasValidRun(id, s)
        BY <2>3
      <4>2. /\ {"decision_tree_state", "support_resistance_map"}
                 \subseteq RequiredKeys("shared_pa_state_bar")
            /\ {"bullish_case", "bearish_case"} \subseteq RequiredKeys("shared_bar_analysis")
            /\ {"decision_tree_nodes", "signal_bars"}
                 \subseteq RequiredKeys("shared_daily_context")
        BY DEF RequiredKeys, PaStateBarKeys, BarAnalysisKeys, DailyContextKeys
      <4> QED BY <2>1, <2>2, <4>1, <4>2, StepsNamed, LastRunComplete DEF Consistent
    <3>2. consistent = samples
      BY <3>1
    <3>3. IsFiniteSet(samples) /\ samples # {}
      <4> DEFINE f == [i \in DOMAIN runs |-> runs[i].sample]
      <4>1. f \in [DOMAIN runs -> samples] /\ \A x \in samples : \E i \in DOMAIN runs : f[i] = x
        OBVIOUS
      <4>2. samples # {}
        <5>1. 1 \in DOMAIN runs
          BY <2>1
        <5> QED BY <5>1
      <4> HIDE DEF f, samples
      <4>3. f \in Surjection(DOMAIN runs, samples)
        BY <4>1, Fun_IsSurj
      <4> QED BY <2>1, <4>2, <4>3, FS_Surjection
    <3>4. CrossStepConsistencyRate(runs) = Ratio(Cardinality(consistent), Cardinality(samples))
      BY DEF CrossStepConsistencyRate
    <3> HIDE DEF consistent, samples
    <3>5. Cardinality(samples) \in Nat /\ Cardinality(samples) # 0
      BY <3>3, FS_CardinalityType, FS_EmptySet
    <3> QED BY <3>2, <3>4, <3>5 DEF Ratio, AtLeast95
  <2> QED BY <2>5, <2>6, <2>7, <2>8, <2>9, <2>10 DEF PassesGate
<1> QED BY <1>1, Invariance, PTL

(* A replay that has not ended gets further with every step: to its end,   *)
(* to the next sample, phase, bar or step, or to the next of the retries   *)
(* the profile of the step allows.  None of these can go on for ever, and  *)
(* nothing is done twice but a call its profile lets be repeated.          *)
GetsFurther ==
  \/ phase \notin Ended /\ phase' \in Ended
  \/ /\ phase = "target" /\ phase' = "fetch"
     /\ at' = at + 1 /\ at' <= Len(dataset.samples)
  \/ /\ <<phase, phase'>> \in {<<"start", "fetch">>, <<"fetch", "warm">>, <<"fetch", "target">>}
     /\ at' = at
  \/ /\ phase = "warm" /\ phase' \in Calling
     /\ UNCHANGED <<at, rows>>
     /\ row' = row + 1 /\ row' <= Len(rows)
  \/ /\ phase \in Calling /\ UNCHANGED <<phase, at, row>>
     /\ step' = step + 1 /\ step' <= 4
  \/ /\ phase \in Calling /\ UNCHANGED <<phase, at, row, step>>
     /\ tries' = tries + 1
     /\ tries < Profile(config, TARGET_STEPS[step]).max_retries

THEOREM EveryStepGetsFurther == Spec => [][GetsFurther]_vars
<1>1. IInv /\ [Next]_vars => [GetsFurther]_vars
  <2> SUFFICES ASSUME IInv, Next PROVE GetsFurther
    BY Zenon
  <2> USE DEF GetsFurther
  <2>1. ASSUME NEW why, phase \notin Ended, Fail(why) PROVE GetsFurther
    BY <2>1 DEF Fail, Ended
  <2>2. CASE Start \/ RunFixtures
    BY <2>1, <2>2 DEF Start, RunFixtures, Ended
  <2>3. CASE FetchFails
    BY <2>1, <2>3 DEF FetchFails, Ended
  <2>4. ASSUME NEW answer \in Answers, FetchRows(answer) PROVE GetsFurther
    BY <2>1, <2>4 DEF FetchRows, Ended
  <2>5. ASSUME NEW reply \in Replies, Call(reply) PROVE GetsFurther
    <3> DEFINE outcome == ExecuteJson(config, TARGET_STEPS[step], reply)
    <3>0. phase \in Calling /\ phase \notin Ended /\ step \in 1..4
      BY <2>5 DEF Call, Calling, Ended, IInv, TypeOK
    <3>1. CASE Repeats(Visible) \/ ~Resolves(config, TARGET_STEPS[step])
      BY <2>1, <2>5, <3>0, <3>1 DEF Call
    <3>2. CASE ~Repeats(Visible) /\ Resolves(config, TARGET_STEPS[step]) /\ phase = "warm"
      <4>1. WarmCall(outcome)
        BY <2>5, <3>2 DEF Call
      <4> HIDE DEF outcome
      <4>2. CASE CanRetry(outcome)
        BY <3>0, <4>1, <4>2 DEF WarmCall, Retry, CanRetry
      <4>3. CASE ~CanRetry(outcome) /\ outcome.kind # "success"
        BY <2>1, <3>0, <4>1, <4>3 DEF WarmCall
      <4>4. CASE ~CanRetry(outcome) /\ outcome.kind = "success" /\ step = 1
        <5>1. /\ step' = step + 1 /\ UNCHANGED <<at, row>>
              /\ phase' = IF row' = Target THEN "target" ELSE "warm"
          BY <4>1, <4>4 DEF WarmCall, NextStep, Target
        <5>2. row < Target
          BY <3>0, <3>2, WindowFacts DEF IInv, CursorInv
        <5>3. phase' = "warm"
          BY <3>0, <5>1, <5>2, WindowFacts
        <5> QED BY <3>0, <3>2, <4>4, <5>1, <5>3
      <4>5. CASE ~CanRetry(outcome) /\ outcome.kind = "success" /\ step # 1
        <5>1. /\ row' = row + 1 /\ UNCHANGED <<at, rows>> /\ phase' \in {"target", "warm"}
          BY <4>1, <4>5 DEF WarmCall, NextBar
        <5>2. row < Target /\ Target <= Len(rows) /\ Target \in Nat /\ row \in Nat
          BY <3>0, <3>2, WindowFacts DEF IInv, CursorInv
        <5> QED BY <3>2, <5>1, <5>2 DEF Calling
      <4> QED BY <4>2, <4>3, <4>4, <4>5
    <3>3. CASE ~Repeats(Visible) /\ Resolves(config, TARGET_STEPS[step]) /\ phase = "target"
      <4>1. TargetCall(outcome)
        BY <2>5, <3>3 DEF Call
      <4> HIDE DEF outcome
      <4>2. CASE CanRetry(outcome)
        BY <3>0, <4>1, <4>2 DEF TargetCall, Retry, CanRetry
      <4>3. CASE ~CanRetry(outcome) /\ outcome.kind = "success" /\ step < 4
        BY <3>0, <4>1, <4>3 DEF TargetCall, NextStep
      <4>4. CASE ~CanRetry(outcome) /\ ~(outcome.kind = "success" /\ step < 4)
        <5>1. SampleOver
          BY <4>1, <4>4 DEF TargetCall
        <5>2. at \in 1..Len(dataset.samples) /\ Len(dataset.samples) \in Nat
          <6>1. dataset.samples \in Seq(Sample)
            BY DatasetsAssumption DEF IInv, TypeOK, Dataset
          <6> QED BY <3>0, <6>1 DEF IInv, BegunInv, Running
        <5> QED BY <3>0, <3>3, <5>1, <5>2 DEF SampleOver, Ended
      <4> QED BY <4>2, <4>3, <4>4
    <3> QED BY <3>0, <3>1, <3>2, <3>3 DEF Calling
  <2> QED BY <2>2, <2>3, <2>4, <2>5 DEF Next
<1> QED BY <1>1, Invariance, PTL DEF Spec
=============================================================================

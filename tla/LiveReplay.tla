------------------------------ MODULE LiveReplay ------------------------------
(***************************************************************************)
(* A replay of the pipeline (replay_live.rs and replay.rs of pa-app): the  *)
(* bars before each sample's target bar are fetched again and analysed     *)
(* one by one, the four steps are run on the target, and the report says   *)
(* how they went.  A fixture replay checks stored outputs instead.         *)
(*                                                                         *)
(* A bar is named by its open time, in units of fifteen minutes.           *)
(***************************************************************************)
EXTENDS ReplayReport, Integers

CONSTANTS Datasets,   \* what may be replayed
          Files,      \* what the configuration file may hold
          Answers,    \* the bars a provider may answer with, in its order
          Replies,    \* the answers of a model that are told apart
          MinWarmup   \* MIN_WARMUP_BAR_COUNT, which is 8

ASSUME MinWarmupAssumption == MinWarmup \in Nat \ {0}

Sample ==
  [id : Nat, open : Int, close : Int, lookback : Nat, warmup : Nat, wellformed : BOOLEAN,
   fixtures : Seq([step : STRING, json : STRING])]

Dataset ==
  [mode : {"live", "fixture"}, supported : BOOLEAN, variant : STRING, asked : STRING,
   samples : Seq(Sample)]

ASSUME DatasetsAssumption == Datasets \subseteq Dataset

ASSUME AnswersAssumption == Answers \subseteq Seq(Int)

VARIABLES dataset,
          file,
          phase,
          cause,    \* why a replay without report ended
          at,       \* the sample being replayed
          rows,     \* its bars, as fetched
          row,      \* the place in them of the bar being analysed
          step,     \* the step being executed, by its place in the pipeline
          tries,    \* how often it was executed before
          states,   \* the states of the warm-up bars
          analyses, \* their analyses
          runs      \* what the report is made of

vars == <<dataset, file, phase, cause, at, rows, row, step, tries, states, analyses, runs>>

Phase == {"start", "fetch", "warm", "target", "report", "failed"}
Calling == {"warm", "target"}
Ended == {"report", "failed"}

config == ConfigOf(file)
sample == dataset.samples[at]
bar == rows[row]

(* An output is known by what it was made of.                              *)
Output == [sample : Nat, step : Steps, bar : Int]
OutputOf(s, b) == [sample |-> sample.id, step |-> TARGET_STEPS[s], bar |-> b]

TypeOK ==
  /\ dataset \in Datasets
  /\ file \in Files
  /\ phase \in Phase
  /\ cause \in {"none", "dataset", "config", "fetch", "input", "warmup", "unresolved"}
  /\ at \in Nat
  /\ rows \in Seq(Int)
  /\ row \in Nat
  /\ step \in 1..4
  /\ tries \in Nat
  /\ states \in Seq(Output)
  /\ analyses \in Seq(Output)
  /\ runs \in Seq(StepRun)

Init ==
  /\ dataset \in Datasets
  /\ file \in Files
  /\ phase = "start"
  /\ cause = "none"
  /\ at = 1
  /\ rows = <<>>
  /\ row = 0
  /\ step = 1
  /\ tries = 0
  /\ states = <<>>
  /\ analyses = <<>>
  /\ runs = <<>>

(* A replay that cannot go on ends without report.                         *)
Fail(why) ==
  /\ phase' = "failed"
  /\ cause' = why
  /\ UNCHANGED <<dataset, file, at, rows, row, step, tries, states, analyses, runs>>

-----------------------------------------------------------------------------
(* Before the first call.                                                  *)

ValidSample(s) ==
  /\ s.close > s.open
  /\ s.warmup >= MinWarmup
  /\ s.lookback >= s.warmup + 1
  /\ s.wellformed

(* The market, the timeframe and the variant are the supported ones.  The  *)
(* targets are in strictly increasing order, so none occurs twice.         *)
ValidDataset(d) ==
  /\ d.supported
  /\ d.samples # <<>>
  /\ \A i \in DOMAIN d.samples : ValidSample(d.samples[i])
  /\ \A i, j \in DOMAIN d.samples :
       i < j => /\ d.samples[i].id # d.samples[j].id
                /\ d.samples[i].open < d.samples[j].open

Start ==
  /\ phase = "start" /\ dataset.mode = "live"
  /\ IF ~(ValidDataset(dataset) /\ dataset.variant = dataset.asked) THEN Fail("dataset")
     ELSE IF ~(Loads(file) /\ Registers(config)) THEN Fail("config")
     ELSE /\ phase' = "fetch"
          /\ UNCHANGED <<dataset, file, cause, at, rows, row, step, tries, states,
                         analyses, runs>>

(* The fixtures name no step twice, so each sample has four runs.          *)
RunFixtures ==
  /\ phase = "start" /\ dataset.mode = "fixture"
  /\ IF /\ dataset.supported
        /\ \A i \in DOMAIN dataset.samples : ValidVariantSteps(dataset.samples[i].fixtures)
     THEN /\ runs' = ExecuteVariant(dataset.samples)
          /\ phase' = "report"
          /\ UNCHANGED <<dataset, file, cause, at, rows, row, step, tries, states, analyses>>
     ELSE Fail("dataset")

-----------------------------------------------------------------------------
(* The bars of a sample.                                                   *)

(* Counted back from the target in steps of fifteen minutes, whether or    *)
(* not the market was open.                                                *)
StartOpen(s) == s.open - (s.lookback - 1)

(* The provider is asked for bars from the start to the close of the       *)
(* target.  Whatever it answers, only the end is checked: the bars that    *)
(* close in time are kept, by their places.                                *)

(* Mutant: the bars that close after the end asked for are kept.           *)
Retained_All(s, answer) == DOMAIN answer

Retained(s, answer) == {k \in DOMAIN answer : answer[k] + 1 <= s.close}

Least(S) == CHOOSE o \in S : \A p \in S : o <= p

(* Row i is the first bar by which i of those that were kept have opened.  *)
Sorted(answer, kept) ==
  [i \in 1..Cardinality(kept) |->
     Least({answer[k] : k \in
       {j \in kept : Cardinality({l \in kept : answer[l] <= answer[j]}) >= i}})]

(* There are as many rows as were asked for, wherever they lie and however *)
(* often one is repeated, and the target is among them.                    *)
Suffices(s, R) ==
  /\ Len(R) = s.lookback
  /\ s.open + 1 = s.close /\ \E i \in DOMAIN R : R[i] = s.open

Position(s, R) == Least({i \in DOMAIN R : R[i] = s.open})

(* The rows before the target that are analysed for warm-up start here.    *)
WarmupStart(s, R) ==
  IF Position(s, R) > s.warmup THEN Position(s, R) - s.warmup ELSE 1

(* The answer has bars in it that do not normalise, or there is none.      *)
FetchFails == phase = "fetch" /\ Fail("fetch")

FetchRows(answer) ==
  /\ phase = "fetch"
  /\ LET R == Sorted(answer, Retained(sample, answer))
     IN  IF ~Suffices(sample, R) THEN Fail("fetch")
         ELSE /\ rows' = R
              /\ row' = WarmupStart(sample, R)
              /\ step' = 1
              /\ tries' = 0
              /\ states' = <<>>
              /\ analyses' = <<>>
              /\ phase' = IF row' = Position(sample, R) THEN "target" ELSE "warm"
              /\ UNCHANGED <<dataset, file, cause, at, runs>>

-----------------------------------------------------------------------------
(* The calls.                                                              *)

(* The rows from which the larger timeframes shown to a step are made: the *)
(* first and the third are shown those up to their bar, the others none.   *)
Visible == IF step \in {1, 3} THEN [i \in 1..row |-> rows[i]] ELSE <<>>

(* None can be made of rows in which a bar is repeated.                    *)
Repeats(R) == \E i, j \in DOMAIN R : i # j /\ R[i] = R[j]

(* The states and analyses shown to the step about to be executed: to the  *)
(* second and third those of the warm-up bars and of its own bar           *)
(* (recent_context_with_target), to the fourth those of its own bar alone. *)
StatesShown ==
  CASE step = 1 -> <<>>
    [] step = 4 -> <<OutputOf(1, bar)>>
    [] OTHER -> Append(states, OutputOf(1, bar))

AnalysesShown ==
  CASE step \in {1, 2} -> <<>>
    [] step = 3 -> Append(analyses, OutputOf(2, bar))
    [] OTHER -> <<OutputOf(2, bar)>>

(* Answers that are not the JSON asked for are asked for again.            *)
CanRetry(outcome) ==
  /\ outcome.kind = "schema_failed" \/ outcome.error = "invalid_json"
  /\ tries < Profile(config, TARGET_STEPS[step]).max_retries

(* Mutant: a warm-up bar is started over, with its retries.                *)
Retry_StartsOver ==
  /\ tries' = IF phase = "warm" THEN 0 ELSE tries + 1
  /\ step' = IF phase = "warm" THEN 1 ELSE step
  /\ UNCHANGED <<dataset, file, phase, cause, at, rows, row, states, analyses, runs>>

Retry ==
  /\ tries' = tries + 1
  /\ UNCHANGED <<dataset, file, phase, cause, at, rows, row, step, states, analyses, runs>>

NextStep ==
  /\ step' = step + 1
  /\ UNCHANGED <<at, rows, row, states, analyses>>

(* After both steps of a warm-up bar their outputs join the history.       *)
NextBar ==
  /\ states' = Append(states, OutputOf(1, bar))
  /\ analyses' = Append(analyses, OutputOf(2, bar))
  /\ step' = 1
  /\ row' = row + 1
  /\ UNCHANGED <<at, rows>>

WarmCall(outcome) ==
  IF CanRetry(outcome) THEN Retry
  ELSE IF outcome.kind # "success" THEN Fail("warmup")
  ELSE /\ IF step = 1 THEN NextStep ELSE NextBar
       /\ phase' = IF row' = Position(sample, rows) THEN "target" ELSE "warm"
       /\ tries' = 0
       /\ UNCHANGED <<dataset, file, cause, runs>>

(* Mutant: only what went well is recorded.                                *)
Record_OnlyValid(outcome) ==
  runs' = IF outcome.kind = "success"
          THEN Append(runs, LiveRun(sample.id, TARGET_STEPS[step], outcome)) ELSE runs

Record(outcome) == runs' = Append(runs, LiveRun(sample.id, TARGET_STEPS[step], outcome))

(* The sample is over after its last step or the first that is not valid.  *)
SampleOver ==
  /\ phase' = IF at = Len(dataset.samples) THEN "report" ELSE "fetch"
  /\ at' = IF at = Len(dataset.samples) THEN at ELSE at + 1
  /\ UNCHANGED <<rows, row, step, states, analyses>>

TargetCall(outcome) ==
  IF CanRetry(outcome) THEN Retry
  ELSE /\ Record(outcome)
       /\ tries' = 0
       /\ IF outcome.kind = "success" /\ step < 4 THEN NextStep /\ UNCHANGED phase
          ELSE SampleOver
       /\ UNCHANGED <<dataset, file, cause>>

(* The input is made first, then the profile looked up, for its retries.   *)
Call(reply) ==
  /\ phase \in Calling
  /\ IF Repeats(Visible) THEN Fail("input")
     ELSE IF ~Resolves(config, TARGET_STEPS[step]) THEN Fail("unresolved")
     ELSE LET outcome == ExecuteJson(config, TARGET_STEPS[step], reply)
          IN  IF phase = "warm" THEN WarmCall(outcome) ELSE TargetCall(outcome)

Next ==
  \/ Start
  \/ RunFixtures
  \/ FetchFails
  \/ phase = "fetch" /\ \E answer \in Answers : FetchRows(answer)
  \/ \E reply \in Replies : Call(reply)

Spec == Init /\ [][Next]_vars

(* A call of a model ends, by its timeout if not with an answer; the       *)
(* client of the market data provider has none.                            *)
FairSpec ==
  /\ Spec
  /\ WF_vars(Start \/ RunFixtures)
  /\ WF_vars(\E reply \in Replies : Call(reply))

-----------------------------------------------------------------------------
(* The outputs of step s for the rows from the start of the warm-up to the *)
(* bar being analysed.                                                     *)
Past(s) ==
  LET first == WarmupStart(sample, rows)
  IN  [i \in 1..(row - first + 1) |-> OutputOf(s, rows[first + i - 1])]

(* The answer makes up for a missing bar with one it repeats or one from   *)
(* before the window.                                                      *)
Padded == Repeats(rows) \/ \E i \in DOMAIN rows : rows[i] < StartOpen(sample)

(* What a call knows of the bars before its own (fetch_sample_rows,        *)
(* run_sample_target_chain).  The chain that is reported is run on the      *)
(* target and on nothing else.  No bar of the future and none twice: the   *)
(* rows up to its own are in strictly ascending order.  The recent states  *)
(* shown to the second and third steps and the recent analyses shown to    *)
(* the third are of the same sample, one for each row from the start of    *)
(* the warm-up to its own.  And none is missing: the rows are all bars     *)
(* from the start of the window, and the warm-up starts the number of bars *)
(* before the target that the sample names, unless the answer was padded:  *)
(* the code counts rows, and a repeated or early bar makes up for a hole.  *)
HistoryIsThePast ==
  phase \in Calling /\ ~Repeats(Visible) =>
    /\ phase = "target" <=> bar = sample.open
    /\ \A i, j \in 1..row : i < j => rows[i] < rows[j]
    /\ step \in {2, 3} => StatesShown = Past(1)
    /\ step = 3 => AnalysesShown = Past(2)
    /\ ~Padded =>
         /\ \A i \in 1..row : rows[i] = StartOpen(sample) + i - 1
         /\ rows[WarmupStart(sample, rows)] = sample.open - sample.warmup

(* Two checks in two crates, one of the file when it is loaded and one of  *)
(* the catalogue when the registry is built, leave nothing for a call to   *)
(* miss: its profile and the provider of that are there, also when the     *)
(* file is a legacy one.                                                   *)
StartedReplayResolves ==
  phase \in {"fetch"} \union Calling =>
    \A s \in Steps :
      Resolves(config, s) /\ Profile(config, s).provider \in config.providers

(* The stop standard of the quality optimisation                           *)
(* (2026-04-23-live-replay-quality-optimization-design.md:294-308).        *)
AtLeast95(score) == 100 * score[1] >= 95 * score[2]

PassesGate ==
  /\ SchemaHitRate(runs)[1] = SchemaHitRate(runs)[2]
  /\ AtLeast95(CrossStepConsistencyRate(runs))
  /\ AtLeast95(DecisionTreeCompleteness(runs))
  /\ AtLeast95(KeyLevelCompleteness(runs))
  /\ AtLeast95(SignalBarCompleteness(runs))
  /\ AtLeast95(DualPathCompleteness(runs))

HasValidRun(id, s) ==
  \E i \in DOMAIN runs : runs[i].sample = id /\ runs[i].step = s /\ runs[i].schema_valid

WholeChains ==
  \A n \in DOMAIN dataset.samples : \A s \in Steps : HasValidRun(dataset.samples[n].id, s)

(* The summary names a run that failed, or counts one.                     *)
SummaryNamesFailure ==
  \/ FirstFailing(runs) # 0
  \/ FailureCount(runs, "schema_validation_failure") # 0
  \/ FailureCount(runs, "outbound_failure") # 0

(* A report passes the gate only if every sample of the dataset went       *)
(* through all four steps: rates are computed over the runs there are, so  *)
(* a chain that stopped early must still spoil one of them.  Its summary   *)
(* then names no failure.                                                  *)
GateMeansWholeChains ==
  phase = "report" /\ PassesGate => WholeChains /\ ~SummaryNamesFailure

(* And such a report passes it: what the scores look for in an output is   *)
(* what its schema makes a valid output have, under the same names.        *)
WholeChainsPassGate ==
  phase = "report" /\ runs # <<>> /\ WholeChains /\ ~SummaryNamesFailure
    => PassesGate

(* A replay ends whatever the models answer, with or without a report,     *)
(* unless the provider never answers a fetch.                              *)
EndsUnlessFetchHangs == <>(phase \in Ended) \/ <>[](phase = "fetch")
=============================================================================

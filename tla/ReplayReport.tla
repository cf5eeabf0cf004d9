----------------------------- MODULE ReplayReport -----------------------------
(***************************************************************************)
(* The report of a replay (replay.rs and replay_score.rs of pa-app): what  *)
(* is recorded of a step, and the scores and the summary computed from the *)
(* records.  Operators only, no state.                                     *)
(***************************************************************************)
EXTENDS StepExecution, Sequences

(* What the schemas of the shared steps require at the top level, each     *)
(* field an object: a valid output has at least these.                     *)
PaStateBarKeys ==
  {"bar_identity", "market_session_context", "bar_observation", "bar_shape",
   "location_context", "multi_timeframe_alignment", "support_resistance_map",
   "signal_assessment", "decision_tree_state", "evidence_log"}

BarAnalysisKeys ==
  {"bar_identity", "bar_summary", "market_story", "bullish_case",
   "bearish_case", "two_sided_balance", "key_levels", "signal_bar_verdict",
   "continuation_path", "reversal_path", "invalidation_map",
   "follow_through_checkpoints"}

DailyContextKeys ==
  {"context_identity", "market_background", "dominant_structure",
   "intraday_vs_higher_timeframe_state", "key_support_levels",
   "key_resistance_levels", "signal_bars", "candle_pattern_map",
   "decision_tree_nodes", "liquidity_context", "scenario_map", "risk_notes",
   "session_playbook"}

RequiredKeys(step) ==
  CASE step = "shared_pa_state_bar" -> PaStateBarKeys
    [] step = "shared_bar_analysis" -> BarAnalysisKeys
    [] step = "shared_daily_context" -> DailyContextKeys
    [] OTHER -> {}

(* A score is a fraction; nothing out of nothing is zero.                  *)
Ratio(n, d) == IF d = 0 THEN <<0, 1>> ELSE <<n, d>>

SchemaHitRate(runs) ==
  Ratio(Cardinality({i \in DOMAIN runs : runs[i].schema_valid}), Len(runs))

Holds(run, path) == run.schema_valid /\ path \in RequiredKeys(run.step)

(* The paths found in the valid runs of a step, out of all of all runs.    *)
RequiredPathScore(runs, step, paths) ==
  LET relevant == {i \in DOMAIN runs : runs[i].step = step}
      hits == {h \in relevant \X paths : Holds(runs[h[1]], h[2])}
  IN  Ratio(Cardinality(hits), Cardinality(relevant) * Cardinality(paths))

DecisionTreeCompleteness(runs) ==
  RequiredPathScore(runs, "shared_pa_state_bar",
    {"decision_tree_state", "support_resistance_map", "signal_assessment"})

KeyLevelCompleteness(runs) ==
  RequiredPathScore(runs, "shared_daily_context",
    {"key_support_levels", "key_resistance_levels"})

(* Mutant: the field has the name it had in version 1 of the step.         *)
SignalBarCompleteness_V1(runs) ==
  RequiredPathScore(runs, "shared_daily_context", {"signal_bars", "candle_patterns"})

SignalBarCompleteness(runs) ==
  RequiredPathScore(runs, "shared_daily_context", {"signal_bars", "candle_pattern_map"})

DualPathCompleteness(runs) ==
  RequiredPathScore(runs, "shared_bar_analysis",
    {"bullish_case", "bearish_case", "two_sided_balance"})

(* The run of a sample and a step that counts is the last one.             *)
Complete(runs, sample, step, paths) ==
  \E i \in DOMAIN runs :
    /\ runs[i].sample = sample /\ runs[i].step = step
    /\ \A j \in DOMAIN runs :
         runs[j].sample = sample /\ runs[j].step = step => j <= i
    /\ \A path \in paths : Holds(runs[i], path)

Consistent(runs, sample) ==
  /\ Complete(runs, sample, "shared_pa_state_bar",
              {"decision_tree_state", "support_resistance_map"})
  /\ Complete(runs, sample, "shared_bar_analysis", {"bullish_case", "bearish_case"})
  /\ Complete(runs, sample, "shared_daily_context",
              {"decision_tree_nodes", "signal_bars"})

CrossStepConsistencyRate(runs) ==
  LET samples == {runs[i].sample : i \in DOMAIN runs}
  IN  Ratio(Cardinality({s \in samples : Consistent(runs, s)}), Cardinality(samples))

(* A run without category of its own has one if it is not valid.           *)
FailureCategory(run) ==
  IF run.failure_category # "none" THEN run.failure_category
  ELSE IF run.schema_valid THEN "none" ELSE "schema_validation_failure"

(* The first run that failed, or 0.                                        *)
FirstFailing(runs) ==
  LET failing == {i \in DOMAIN runs : FailureCategory(runs[i]) # "none"}
  IN  IF failing = {} THEN 0 ELSE CHOOSE i \in failing : \A j \in failing : i <= j

FailureCount(runs, category) ==
  Cardinality({i \in DOMAIN runs : FailureCategory(runs[i]) = category})

(* What the live replay records of the outcome of a target step.           *)
LiveRun(sample, step, outcome) ==
  [sample |-> sample, step |-> step,
   schema_valid |-> outcome.kind = "success",
   failure_category |-> CASE outcome.kind = "success" -> "none"
                          [] outcome.kind = "schema_failed" -> "schema_validation_failure"
                          [] outcome.kind = "outbound_failed" -> "outbound_failure"]

(* What the fixture replay records of a stored output: it says nothing of  *)
(* a failure itself.                                                       *)
FixtureRun(sample, step, json) ==
  [sample |-> sample, step |-> step, schema_valid |-> json = "good",
   failure_category |-> "none"]

StepRun ==
  [sample : Nat, step : Steps, schema_valid : BOOLEAN,
   failure_category : {"none", "schema_validation_failure", "outbound_failure"}]

(* The fixtures of a variant are the steps of the pipeline, each once and  *)
(* in order.                                                               *)
ValidVariantSteps(fixtures) ==
  /\ Len(fixtures) = 4
  /\ \A i \in 1..4 : fixtures[i].step = TARGET_STEPS[i]

(* All runs of a fixture replay, sample after sample.                      *)
ExecuteVariant(samples) ==
  [k \in 1..(4 * Len(samples)) |->
     LET sample == samples[((k - 1) \div 4) + 1]
         fixture == sample.fixtures[((k - 1) % 4) + 1]
     IN  FixtureRun(sample.id, fixture.step, fixture.json)]
=============================================================================

----------------------------- MODULE MCLiveReplay -----------------------------
(* Instances of LiveReplay for TLC.                                        *)
EXTENDS LiveReplay, TLC

LOCAL INSTANCE SequencesExt

-----------------------------------------------------------------------------
(* Datasets: samples whose windows overlap, and what each check refuses.   *)

Target(id, open, lookback) ==
  [id |-> id, open |-> open, close |-> open + 1, lookback |-> lookback, warmup |-> 2,
   wellformed |-> TRUE, fixtures |-> <<>>]

Live(samples) ==
  [mode |-> "live", supported |-> TRUE, variant |-> "baseline_a",
   asked |-> "baseline_a", samples |-> samples]

TwoTargets == <<Target(1, 20, 4), Target(2, 21, 3)>>

LiveDatasets ==
  {Live(TwoTargets),
   Live(<<>>),
   Live(<<Target(1, 21, 3), Target(2, 20, 3)>>),
   Live(<<Target(1, 20, 3), Target(1, 21, 3)>>),
   Live(<<Target(1, 20, 2)>>),
   Live(<<[Target(1, 20, 3) EXCEPT !.close = 20]>>),
   Live(<<[Target(1, 20, 3) EXCEPT !.close = 22]>>),
   Live(<<[Target(1, 20, 3) EXCEPT !.warmup = 0]>>),
   Live(<<[Target(1, 20, 3) EXCEPT !.wellformed = FALSE]>>),
   [Live(TwoTargets) EXCEPT !.supported = FALSE],
   [Live(TwoTargets) EXCEPT !.asked = "baseline_b"]}

Stored(id, a, b, c, d) ==
  LET json == <<a, b, c, d>>
  IN  [Target(id, 20, 3) EXCEPT !.fixtures =
         [i \in 1..4 |-> [step |-> TARGET_STEPS[i], json |-> json[i]]]]

Fixture(samples) == [Live(samples) EXCEPT !.mode = "fixture"]

Swapped(f) == [f EXCEPT !.fixtures = <<@[2], @[1], @[3], @[4]>>]

FixtureDatasets ==
  LET whole == Stored(1, "good", "good", "good", "good")
  IN  {Fixture(<<>>), Fixture(<<whole>>), Fixture(<<Swapped(whole)>>),
       Fixture(<<[whole EXCEPT !.fixtures = SubSeq(@, 1, 3)]>>),
       [Fixture(<<whole>>) EXCEPT !.supported = FALSE]}
        \union {Fixture(<<whole, Stored(id, "good", b, c, d)>>) :
                  id \in {1, 2}, b \in Json, c \in Json, d \in Json}

Datasets_MC == LiveDatasets \union FixtureDatasets

-----------------------------------------------------------------------------
(* Answers to a request for bars: up to five of the bars from before the   *)
(* first window to after the second target, some missing and some repeated,*)
(* in ascending or descending order.                                       *)
Ascending ==
  UNION {{a \in [1..n -> 16..22] : \A i, j \in 1..n : i < j => a[i] <= a[j]} : n \in 0..5}

Answers_MC == Ascending \union {Reverse(a) : a \in Ascending}

-----------------------------------------------------------------------------
(* Configuration files: the current shape with what may be missing in it,  *)
(* the two legacy shapes, and neither.                                     *)

Profile_MC(provider, retries) == [provider |-> provider, max_retries |-> retries]

Current ==
  [shape |-> "current", providers |-> {"dashscope", "deepseek"},
   profiles |-> [p \in {"fast", "reasoner"} |->
                   IF p = "fast" THEN Profile_MC("dashscope", 1)
                   ELSE Profile_MC("deepseek", 0)],
   bindings |-> [s \in Steps |-> IF s = "shared_pa_state_bar" THEN "fast" ELSE "reasoner"]]

LegacyFile(shape, providers, retries) ==
  [shape |-> shape, providers |-> providers, max_retries |-> retries]

Files_MC ==
  {Current,
   [Current EXCEPT !.providers = {"dashscope"}],
   [Current EXCEPT !.bindings = [@ EXCEPT !["shared_bar_analysis"] = "absent"]],
   [Current EXCEPT !.bindings = [s \in Steps \ {"user_position_advice"} |-> @[s]]],
   LegacyFile("pa_analyze_server", {"dashscope"}, {1}),
   LegacyFile("pa_analyze_server", {"dashscope", "deepseek"}, {1}),
   LegacyFile("stock_everyday", {}, {}),
   LegacyFile("other", {}, {})}

-----------------------------------------------------------------------------
(* Answers of a model.                                                     *)

Text(whole, unfenced, object, array, first) ==
  [kind |-> "text",
   text |-> [whole |-> whole, unfenced |-> unfenced, object |-> object,
             array |-> array, first |-> first]]

(* JSON alone, in a fence, in prose, in prose that cites something in      *)
(* brackets first, cut off, another object, and none.                      *)
Texts ==
  {Text("good", Absent, "good", Absent, "object"),
   Text(NoJson, "good", "good", Absent, "object"),
   Text(NoJson, Absent, "good", Absent, "object"),
   Text(NoJson, Absent, "good", "bad", "array"),
   Text(NoJson, Absent, "good", NoJson, "array"),
   Text(NoJson, Absent, NoJson, NoJson, "object"),
   Text("bad", Absent, "bad", Absent, "object"),
   Text(NoJson, Absent, Absent, Absent, "object")}

Replies_MC ==
  Texts \union {[kind |-> "unreachable"], [kind |-> "malformed"],
                [kind |-> "json", value |-> "good"], [kind |-> "json", value |-> "bad"]}
=============================================================================

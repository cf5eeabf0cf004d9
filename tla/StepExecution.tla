---------------------------- MODULE StepExecution ----------------------------
(***************************************************************************)
(* How one analysis step is executed: the configuration that says which    *)
(* model runs it (config.rs of pa-core, replay_config.rs and lib.rs of     *)
(* pa-app), the executor, and what the model client reads in an answer     *)
(* (executor.rs, openai_client.rs).  Operators only, no state.             *)
(*                                                                         *)
(* Of a JSON value this matters: does it satisfy the schema of the step?   *)
(***************************************************************************)
EXTENDS Naturals, FiniteSets

(* The four steps of the pipeline, in order; each in its current version.  *)
TARGET_STEPS == <<"shared_pa_state_bar", "shared_bar_analysis",
                  "shared_daily_context", "user_position_advice">>

Steps == {TARGET_STEPS[i] : i \in 1..4}

-----------------------------------------------------------------------------
(* Configuration.  The providers it knows, its execution profiles and the  *)
(* profile each step is bound to.                                          *)

(* Mutant: profiles may name a provider nobody configured.                 *)
ValidBindings_NoProviders(c) ==
  \A s \in DOMAIN c.bindings : c.bindings[s] \in DOMAIN c.profiles

ValidBindings(c) ==
  /\ \A p \in DOMAIN c.profiles : c.profiles[p].provider \in c.providers
  /\ \A s \in DOMAIN c.bindings : c.bindings[s] \in DOMAIN c.profiles

DEFAULT_LEGACY_MAX_RETRIES == 2

(* The [llm.<provider>] blocks of one legacy shape; the other has a single *)
(* unnamed block.                                                          *)
LegacyProviders(f) ==
  CASE f.shape = "pa_analyze_server" -> f.providers
    [] f.shape = "stock_everyday" -> {"default"}
    [] OTHER -> {}

(* A legacy file becomes one profile to which every step is bound; its     *)
(* max_retries may be missing.                                             *)
Legacy(f) ==
  [providers |-> LegacyProviders(f),
   profiles |->
     [p \in {"baseline_a_default"} |->
        [provider |-> CHOOSE k \in LegacyProviders(f) : TRUE,
         max_retries |-> IF f.max_retries = {} THEN DEFAULT_LEGACY_MAX_RETRIES
                         ELSE CHOOSE n \in f.max_retries : TRUE]],
   bindings |-> [s \in Steps |-> "baseline_a_default"]]

(* A file of the current shape that does not validate is no legacy file.   *)
Loads(f) ==
  IF f.shape = "current" THEN ValidBindings(f)
  ELSE Cardinality(LegacyProviders(f)) = 1

ConfigOf(f) ==
  IF f.shape = "current"
  THEN [providers |-> f.providers, profiles |-> f.profiles, bindings |-> f.bindings]
  ELSE Legacy(f)

(* Is step s bound to a profile that exists?                               *)
Resolves(c, s) == s \in DOMAIN c.bindings /\ c.bindings[s] \in DOMAIN c.profiles

(* The registry is built only if every step of the catalogue is bound.     *)
Registers(c) == \A s \in Steps : Resolves(c, s)

Profile(c, s) == c.profiles[c.bindings[s]]

-----------------------------------------------------------------------------
(* The answer of the model.                                                *)

NoJson == "no"      \* text that is there and does not parse
Absent == "absent"  \* no such text

(* From the first brace to the last, or the same with brackets: whichever  *)
(* opens first in the text, whether or not that one parses.                *)
Candidate(t) ==
  CASE t.object = Absent -> t.array
    [] t.array = Absent -> t.object
    [] OTHER -> IF t.first = "object" THEN t.object ELSE t.array

Json == {"good", "bad"}

(* What parses first: the whole text, what is inside a code fence, the     *)
(* candidate.                                                              *)
ParseText(t) ==
  LET reads == <<t.whole, t.unfenced, Candidate(t)>>
      parsed == {i \in 1..3 : reads[i] \in Json}
  IN  IF parsed = {} THEN NoJson
      ELSE reads[CHOOSE i \in parsed : \A j \in parsed : i <= j]

Failure(error) == [json |-> NoJson, error |-> error]

(* The texts of an answer are what it says in prose; a provider may also   *)
(* put a JSON value there.  Nothing comes back from a provider without     *)
(* runtime.                                                                *)
GenerateJson(c, s, reply) ==
  IF Profile(c, s).provider \notin c.providers THEN Failure("validation")
  ELSE CASE reply.kind \in {"unreachable", "malformed"} -> Failure("provider")
         [] reply.kind = "json" -> [json |-> reply.value, error |-> "none"]
         [] reply.kind = "text" ->
              IF ParseText(reply.text) = NoJson THEN Failure("invalid_json")
              ELSE [json |-> ParseText(reply.text), error |-> "none"]

(* A step that does not resolve is an error; any other has an outcome.     *)
ExecuteJson(c, s, reply) ==
  LET call == GenerateJson(c, s, reply)
  IN  [kind |-> IF call.error # "none" THEN "outbound_failed"
                ELSE IF call.json = "good" THEN "success" ELSE "schema_failed",
       error |-> call.error]
=============================================================================

-------------------------- MODULE MCAnalysisPipeline --------------------------
(* Instances of AnalysisPipeline for TLC: which kinds of tasks are asked   *)
(* for, and how often.                                                     *)
EXTENDS AnalysisPipeline, TLC

CONSTANTS pa1, pa2, bar1, daily1, daily2, advice1, advice2

ByKind(pas, bars, dailies, advices) ==
  [r \in pas |-> "pa"] @@ [r \in bars |-> "bar"]
    @@ [r \in dailies |-> "daily"] @@ [r \in advices |-> "advice"]

(* Everything but the bar analysis is asked for twice.                     *)
Requests_server == {pa1, pa2, bar1, daily1, daily2, advice1, advice2}
KindOf_server == ByKind({pa1, pa2}, {bar1}, {daily1, daily2}, {advice1, advice2})
Symmetry_server ==
  Permutations({pa1, pa2}) \union Permutations({daily1, daily2})
    \union Permutations({advice1, advice2})

(* Some inputs come from clients.                                          *)
Requests_client == {pa1, pa2, bar1, advice1}
KindOf_client == ByKind({pa1, pa2}, {bar1}, {}, {advice1})
Symmetry_client == Permutations({pa1, pa2})
=============================================================================

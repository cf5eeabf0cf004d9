----------------------------- MODULE MCMarketBars -----------------------------
(* Instances of BarResolution for TLC: a stretch of time on each market    *)
(* that holds an end of a session.                                         *)
EXTENDS BarResolution, TLC

Hours(m, from, to) == {m + 15 * i : i \in from..to}
Friday == 4 * 1440
Sunday == 6 * 1440

(* Before and after lunch, the end of a week, and two plain hours and a    *)
(* quarter; the provider also knows bars at 11:30 and at 22:00 on Friday.  *)
Offered_MC ==
  [cn_a |-> Hours(630, 0, 4) \union Hours(780, 0, 1),
   fx |-> Hours(Friday + 1260, 0, 4) \union Hours(Sunday + 1320, 0, 1),
   continuous |-> Hours(0, 0, 8)]

Clock_MC ==
  [cn_a |-> {640, 685, 705, 790},
   fx |-> {Friday + 1270, Friday + 1310, Friday + 1320, Friday + 1335, Sunday + 1330},
   continuous |-> {10, 60, 140}]

Handlers_symmetry == Permutations(Handlers)
=============================================================================

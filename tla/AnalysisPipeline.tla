--------------------------- MODULE AnalysisPipeline ---------------------------
(***************************************************************************)
(* The layered analysis of one instrument on one timeframe for one user:   *)
(* a price-action state of a bar (pa), the bar analysis built on it (bar), *)
(* the daily context built on the states and analyses of a date (daily)    *)
(* and the position advice built on all three (advice).                    *)
(*                                                                         *)
(* A request handler resolves the input of its task in several awaited     *)
(* reads -- market data first, then the results table once for each input  *)
(* -- while the worker keeps adding results; then it submits the task.     *)
(* Submission is the atomic registry that TaskIntake implements, a task    *)
(* ends as TaskLedger says: in one result or in none.                      *)
(*                                                                         *)
(* A task, and its result, are named after the request that made it.       *)
(***************************************************************************)
EXTENDS Integers, FiniteSets

CONSTANTS Requests,      \* API requests, each handled once
          KindOf,        \* the kind of task each of them asks for
          LastBar,       \* bars are numbered 1..LastBar as time goes by
          BarsPerDay,    \* bars of a trading date
          RecentLimit,   \* how many recent results a handler collects (8)
          ClientSupplies,\* BOOLEAN: whether clients may pass inputs themselves
          Supplied,      \* an input passed by the client
          None           \* an input the task does not have, or not yet

Kind == {"pa", "bar", "daily", "advice"}

ASSUME RequestsAssumption == IsFiniteSet(Requests)
ASSUME KindAssumption == KindOf \in [Requests -> Kind]
ASSUME BarsAssumption == LastBar \in Nat \ {0} /\ BarsPerDay \in Nat \ {0}
ASSUME RecentLimitAssumption == RecentLimit \in Nat \ {0}
ASSUME ClientSuppliesAssumption == ClientSupplies \in BOOLEAN
ASSUME NoneAssumption == {Supplied, None} \cap Requests = {} /\ Supplied # None

VARIABLES clock,   \* the bar that is open now; the ones before it are closed
          stored,  \* closed bars in the canonical kline table
          step,    \* where each request is in its handler, then its task
          input,   \* what each request asks for and has resolved so far
          created  \* created_at of the result of its task; 0 without one

vars == <<clock, stored, step, input, created>>

Bars == 1..LastBar
Date(b) == (b - 1) \div BarsPerDay
Dates == {Date(b) : b \in Bars}

Step == {"new", "collect_states", "collect_bars", "find_analysis", "find_daily",
         "find_pa", "collect_recent", "submit", "rejected", "duplicate",
         "queued", "done", "failed"}
Cited == Requests \union {Supplied, None}

(* recent is the set of results cited as history; date stands for the bar  *)
(* in the input of a daily context, which has none.                        *)
Input == [kind : Kind, state : {"open", "closed"}, bar : Bars \union {0},
          date : Dates, pa : Cited, analysis : Cited, daily : Cited,
          recent : SUBSET Requests]

NoInput(r) ==
  [kind |-> KindOf[r], state |-> "open", bar |-> 1, date |-> Date(1),
   pa |-> None, analysis |-> None, daily |-> None, recent |-> {}]

Tasks == {r \in Requests : step[r] \in {"queued", "done", "failed"}}
Results == {r \in Requests : step[r] = "done"}

TypeOK ==
  /\ clock \in 1..(LastBar + 1)
  /\ stored \subseteq Bars
  /\ step \in [Requests -> Step]
  /\ input \in [Requests -> Input]
  /\ created \in [Requests -> Nat]

Init ==
  /\ clock = 1
  /\ stored = {}
  /\ step = [r \in Requests |-> "new"]
  /\ input = [r \in Requests |-> NoInput(r)]
  /\ created = [r \in Requests |-> 0]

Goto(r, s) == step' = [step EXCEPT ![r] = s]

Fill(r, field, v) == input' = [input EXCEPT ![r][field] = v]

-----------------------------------------------------------------------------
(* Reads of the results table.                                             *)

(* The n results of S created last: sort_by_key(created_at), reverse,      *)
(* truncate; max_by_key(created_at) when n is 1.                           *)
Newest(S, n) ==
  {q \in S : Cardinality({p \in S : created[p] > created[q]}) < n}

(* Mutant: results of open bars answer for closed bars too.                *)
Matching_AnyState(k, i) ==
  {q \in Results : input[q].kind = k /\ input[q].bar = i.bar}

(* Results of kind k for exactly the bar and bar state of input i.         *)
Matching(k, i) ==
  {q \in Results :
     input[q].kind = k /\ input[q].state = i.state /\ input[q].bar = i.bar}

OfDate(k, d) == {q \in Results : input[q].kind = k /\ input[q].date = d}

(* Mutant: the filter on the bar is missing.                               *)
AtOrBefore_All(b) == {q \in Results : input[q].kind = "pa"}

(* States of bars up to and including bar b.                               *)
AtOrBefore(b) == {q \in Results : input[q].kind = "pa" /\ input[q].bar <= b}

-----------------------------------------------------------------------------
(* The handlers.  Each action ends at the next await.                      *)

(* What the market data resolves to: a closed bar of the canonical table,  *)
(* the newest or the one asked for, or for an open bar the bar of the      *)
(* latest tick, which the market may have left behind.                     *)
Resolved(s) == IF s = "closed" THEN stored ELSE {b \in Bars : b <= clock}

(* Mutant: advice looks the state up before the analysis.                  *)
After_StateFirst(k) ==
  CASE k = "pa" -> [new |-> "submit"]
    [] k = "bar" -> [new |-> "find_pa", find_pa |-> "collect_recent",
                     collect_recent |-> "submit"]
    [] k = "daily" -> [new |-> "collect_states", collect_states |-> "collect_bars",
                       collect_bars |-> "submit"]
    [] k = "advice" -> [new |-> "find_pa", find_pa |-> "find_analysis",
                        find_analysis |-> "find_daily", find_daily |-> "submit"]

(* The order in which the handler of each kind reads the results table.    *)
After(k) ==
  CASE k = "pa" -> [new |-> "submit"]
    [] k = "bar" -> [new |-> "find_pa", find_pa |-> "collect_recent",
                     collect_recent |-> "submit"]
    [] k = "daily" -> [new |-> "collect_states", collect_states |-> "collect_bars",
                       collect_bars |-> "submit"]
    [] k = "advice" -> [new |-> "find_analysis", find_analysis |-> "find_daily",
                        find_daily |-> "find_pa", find_pa |-> "submit"]

Proceed(r) == Goto(r, After(KindOf[r])[step[r]])

(* The trading date of a bar, unless the client asks advice for another.   *)
TradingDates(r, b) ==
  IF ClientSupplies /\ KindOf[r] = "advice" THEN Dates ELSE {Date(b)}

AskBar(r, s, b) ==
  /\ step[r] = "new" /\ KindOf[r] # "daily"
  /\ b \in Resolved(s)
  /\ \E d \in TradingDates(r, b) :
       input' = [input EXCEPT ![r] =
         [NoInput(r) EXCEPT !.state = s, !.bar = b, !.date = d]]
  /\ Proceed(r)
  /\ UNCHANGED <<clock, stored, created>>

(* The date asked for, or else the one of the latest canonical or open bar.*)
AskDaily(r, d) ==
  /\ step[r] = "new" /\ KindOf[r] = "daily"
  /\ input' = [input EXCEPT ![r] = [NoInput(r) EXCEPT !.bar = 0, !.date = d]]
  /\ Proceed(r)
  /\ UNCHANGED <<clock, stored, created>>

IfNeededBy(r, kinds) == IF KindOf[r] \in kinds THEN Supplied ELSE None

(* The request carries the whole input: nothing is resolved or verified,   *)
(* not even that a bar it calls closed has closed.                         *)
AskSupplied(r, s, b) ==
  /\ ClientSupplies
  /\ step[r] = "new"
  /\ \E d \in TradingDates(r, b) :
       input' = [input EXCEPT ![r] =
         [NoInput(r) EXCEPT !.state = s, !.date = d,
            !.bar = IF KindOf[r] = "daily" THEN 0 ELSE b,
            !.pa = IfNeededBy(r, {"bar", "advice"}),
            !.analysis = IfNeededBy(r, {"advice"}),
            !.daily = IfNeededBy(r, {"advice"})]]
  /\ Goto(r, "submit")
  /\ UNCHANGED <<clock, stored, created>>

(* A read of the results table for one field of the input, and an error    *)
(* response if there is no such result.                                    *)
Find(r, field, S) ==
  /\ \/ \E q \in Newest(S, 1) : Fill(r, field, q) /\ Proceed(r)
     \/ S = {} /\ Goto(r, "rejected") /\ UNCHANGED input
     \/ ClientSupplies /\ Fill(r, field, Supplied) /\ Proceed(r)
  /\ UNCHANGED <<clock, stored, created>>

FindAnalysis(r) ==
  step[r] = "find_analysis" /\ Find(r, "analysis", Matching("bar", input[r]))

FindDaily(r) ==
  step[r] = "find_daily" /\ Find(r, "daily", OfDate("daily", input[r].date))

FindPa(r) ==
  step[r] = "find_pa" /\ Find(r, "pa", Matching("pa", input[r]))

(* A read of several results; what a client passes instead is no result.   *)
Collect(r, S) ==
  /\ \/ Fill(r, "recent", input[r].recent \union Newest(S, RecentLimit))
     \/ ClientSupplies /\ UNCHANGED input
  /\ Proceed(r)
  /\ UNCHANGED <<clock, stored, created>>

(* States of the bar itself and of bars before it.                         *)
CollectRecent(r) ==
  step[r] = "collect_recent" /\ Collect(r, AtOrBefore(input[r].bar))

(* No daily context without the state of a bar of the date.                *)
CollectStates(r) ==
  /\ step[r] = "collect_states"
  /\ LET states == OfDate("pa", input[r].date)
     IN  \/ (states # {} \/ ClientSupplies) /\ Collect(r, states)
         \/ /\ states = {}
            /\ Goto(r, "rejected")
            /\ UNCHANGED <<clock, stored, input, created>>

CollectBars(r) ==
  step[r] = "collect_bars" /\ Collect(r, OfDate("bar", input[r].date))

(* The tasks among which a key makes unique: those of closed bars, and     *)
(* daily contexts; tasks of open bars have no key.                         *)
Keyed(i) == i.kind = "daily" \/ i.state = "closed"

(* Mutant: the key of a state holds more than its bar.                     *)
SameKey_NoStates(i, j) ==
  /\ Keyed(i) /\ Keyed(j)
  /\ i.kind # "pa" /\ i.kind = j.kind /\ i.bar = j.bar /\ i.date = j.date
  /\ i.kind = "advice" =>
       i.pa = j.pa /\ i.analysis = j.analysis /\ i.daily = j.daily

(* Mutant: daily contexts have no key.                                     *)
SameKey_NoDaily(i, j) ==
  /\ Keyed(i) /\ Keyed(j)
  /\ i.kind # "daily" /\ i.kind = j.kind /\ i.bar = j.bar /\ i.date = j.date
  /\ i.kind = "advice" =>
       i.pa = j.pa /\ i.analysis = j.analysis /\ i.daily = j.daily

(* Equal dedupe keys: the bar (and so its date) for a state or an          *)
(* analysis, whatever it is built from; the date for a daily context; for  *)
(* advice bar, date and the hash of what it is built from.                 *)
SameKey(i, j) ==
  /\ Keyed(i) /\ Keyed(j)
  /\ i.kind = j.kind /\ i.bar = j.bar /\ i.date = j.date
  /\ i.kind = "advice" =>
       i.pa = j.pa /\ i.analysis = j.analysis /\ i.daily = j.daily

Submit(r) ==
  /\ step[r] = "submit"
  /\ Goto(r, IF \E q \in Tasks : SameKey(input[q], input[r])
             THEN "duplicate" ELSE "queued")
  /\ UNCHANGED <<clock, stored, input, created>>

-----------------------------------------------------------------------------
(* The worker and the market.                                              *)

Complete(r) ==
  /\ step[r] = "queued"
  /\ Goto(r, "done")
  /\ created' = [created EXCEPT ![r] = Cardinality(Results) + 1]
  /\ UNCHANGED <<clock, stored, input>>

(* Failed or dead-lettered for good: the task stays in the table.          *)
GiveUp(r) ==
  /\ step[r] = "queued"
  /\ Goto(r, "failed")
  /\ UNCHANGED <<clock, stored, input, created>>

CloseBar ==
  /\ clock <= LastBar
  /\ clock' = clock + 1
  /\ UNCHANGED <<stored, step, input, created>>

(* Backfill takes closed bars only, and may leave gaps.                    *)
Backfill(b) ==
  /\ b < clock
  /\ b \notin stored
  /\ stored' = stored \union {b}
  /\ UNCHANGED <<clock, step, input, created>>

Handle(r) ==
  \/ FindAnalysis(r) \/ FindDaily(r) \/ FindPa(r)
  \/ CollectRecent(r) \/ CollectStates(r) \/ CollectBars(r)
  \/ Submit(r)

Next ==
  \/ CloseBar
  \/ \E b \in Bars : Backfill(b)
  \/ \E r \in Requests :
       \/ \E s \in {"open", "closed"}, b \in Bars :
            AskBar(r, s, b) \/ AskSupplied(r, s, b)
       \/ \E d \in Dates : AskDaily(r, d)
       \/ Handle(r)
       \/ Complete(r)
       \/ GiveUp(r)

Spec == Init /\ [][Next]_vars

-----------------------------------------------------------------------------
AdviceTasks == {r \in Tasks : input[r].kind = "advice"}

(* Advice on a closed bar is of one piece: the state it cites is the one   *)
(* its bar analysis was built on, although the handler reads the results   *)
(* three times and other requests for the bar keep coming in.              *)
ClosedAdviceIsCoherent ==
  \A r \in AdviceTasks :
    LET i == input[r]
    IN  i.state = "closed" /\ i.pa \in Requests /\ i.analysis \in Requests
          => input[i.analysis].pa \in {i.pa, Supplied}

(* On any bar the state cited is at least as new as the one under the      *)
(* analysis: an open bar may have been read again in between, but the      *)
(* analysis never knows more than the state beside it.                     *)
AdviceSeesNoOlderState ==
  \A r \in AdviceTasks :
    LET i == input[r]
    IN  i.pa \in Requests /\ i.analysis \in Requests
          => \/ input[i.analysis].pa = Supplied
             \/ created[input[i.analysis].pa] <= created[i.pa]

(* The hash of the context in the key cannot make two tasks of one: a      *)
(* user with unchanged positions gets one advice per closed bar and date.  *)
OneAdvicePerClosedBar ==
  \A q, r \in AdviceTasks :
    /\ input[q].state = "closed" /\ input[r].state = "closed"
    /\ input[q].bar = input[r].bar /\ input[q].date = input[r].date
    /\ Supplied \notin {input[q].pa, input[q].analysis, input[q].daily,
                        input[r].pa, input[r].analysis, input[r].daily}
    => q = r

(* All advice of a trading date rests on the same daily context, the first *)
(* one asked for, however the date went on.                                *)
AdviceSharesDaily ==
  \A q, r \in AdviceTasks :
    input[q].date = input[r].date
      /\ Supplied \notin {input[q].daily, input[r].daily}
    => input[q].daily = input[r].daily

(* A bar analysis is never built on a state of a later bar, also when the  *)
(* bar is analysed long after it closed.                                   *)
NoHindsight ==
  \A r \in Tasks : input[r].kind = "bar" =>
    \A q \in input[r].recent \union ({input[r].pa} \cap Requests) :
      input[q].bar <= input[r].bar
=============================================================================

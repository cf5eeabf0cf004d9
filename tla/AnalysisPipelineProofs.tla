------------------------ MODULE AnalysisPipelineProofs ------------------------
(***************************************************************************)
(* The pipeline for any number of requests, bars and dates.                *)
(*                                                                         *)
(* The argument: what a request has cited is a result, results never       *)
(* change, and no two tasks share a dedupe key.  For a closed bar or a     *)
(* date there is therefore one result to cite, whenever a handler looks.   *)
(***************************************************************************)
EXTENDS AnalysisPipeline, FiniteSetTheorems, TLAPS

(* Handlers that still resolve, and what they have resolved so far.        *)
InPlace(r) ==
  /\ step[r] \in {"collect_states", "collect_bars"} => KindOf[r] = "daily"
  /\ step[r] \in {"find_analysis", "find_daily"} => KindOf[r] = "advice"
  /\ step[r] = "find_pa" => KindOf[r] \in {"bar", "advice"}
  /\ step[r] = "collect_recent" => KindOf[r] = "bar"

(* The inputs a task of each kind cannot do without.                       *)
HasInputs(r) ==
  /\ KindOf[r] = "bar" /\ step[r] \notin {"new", "find_pa", "rejected"}
       => input[r].pa # None
  /\ KindOf[r] = "advice" /\ step[r] \notin {"new", "find_analysis", "rejected"}
       => input[r].analysis # None
  /\ KindOf[r] = "advice"
       /\ step[r] \notin {"new", "find_analysis", "find_daily", "rejected"}
       => input[r].daily # None
  /\ KindOf[r] = "advice"
       /\ step[r] \notin {"new", "find_analysis", "find_daily", "find_pa", "rejected"}
       => input[r].pa # None

(* Every citation is of a result of the right kind, bar and date.          *)
CitesResults(r) ==
  /\ input[r].kind = KindOf[r]
  /\ KindOf[r] = "daily" /\ step[r] # "new" => input[r].bar = 0
  /\ input[r].pa \in Requests => input[r].pa \in Matching("pa", input[r])
  /\ input[r].analysis \in Requests
       => input[r].analysis \in Matching("bar", input[r])
  /\ input[r].daily \in Requests
       => input[r].daily \in OfDate("daily", input[r].date)
  /\ KindOf[r] = "bar" => input[r].recent \subseteq AtOrBefore(input[r].bar)
  /\ KindOf[r] \in {"pa", "bar"} => input[r].date = Date(input[r].bar)
  /\ step[r] = "find_analysis" => input[r].pa = None
  /\ step[r] = "find_daily" => input[r].pa = None

(* The state an advice cites is no older than the one its analysis cites.  *)
NoOlder(r) ==
  KindOf[r] = "advice" /\ input[r].pa \in Requests /\ input[r].analysis \in Requests
    => \/ input[input[r].analysis].pa = Supplied
       \/ created[input[input[r].analysis].pa] <= created[input[r].pa]

Sound == \A r \in Requests :
           InPlace(r) /\ HasInputs(r) /\ CitesResults(r) /\ NoOlder(r)

(* The unique dedupe key.                                                  *)
KeysUnique == \A q, r \in Tasks : SameKey(input[q], input[r]) => q = r

(* The inductive invariant.                                                *)
IInv == TypeOK /\ Sound /\ KeysUnique

-----------------------------------------------------------------------------
(* The newest of a set are among it.                                       *)
LEMMA NewestIn == ASSUME NEW S, NEW n PROVE Newest(S, n) \subseteq S
BY DEF Newest

(* Nothing in a set of results is newer than the one created last.         *)
LEMMA NewestIsLast ==
  ASSUME NEW S, S \subseteq Requests, NEW q \in Newest(S, 1),
         created \in [Requests -> Nat]
  PROVE  \A p \in S : created[p] <= created[q]
<1> DEFINE newer == {p \in S : created[p] > created[q]}
<1>1. Cardinality(newer) < 1
  BY DEF Newest
<1>2. IsFiniteSet(newer)
  BY RequestsAssumption, FS_Subset
<1>3. newer = {}
  <2>1. Cardinality(newer) \in Nat
    BY <1>2, FS_CardinalityType
  <2>2. Cardinality(newer) = 0
    BY <1>1, <2>1
  <2> QED BY <1>2, <2>2, FS_EmptySet
<1>4. q \in Requests
  BY NewestIn
<1>5. \A p \in S : ~ (created[p] > created[q])
  BY <1>3
<1>6. \A p \in S : created[p] \in Nat /\ created[q] \in Nat
  BY <1>4
<1> QED BY <1>5, <1>6

(* The initial state satisfies the invariant.                              *)
LEMMA InitIInv == Init => IInv
<1> SUFFICES ASSUME Init PROVE IInv
  OBVIOUS
<1>1. Date(1) \in Dates /\ 1 \in Bars
  BY BarsAssumption DEF Dates, Bars
<1>2. \A r \in Requests : NoInput(r) \in Input
  BY <1>1, KindAssumption DEF NoInput, Input, Cited
<1>3. TypeOK
  <2>1. clock \in 1..(LastBar + 1) /\ stored \subseteq Bars
    BY BarsAssumption DEF Init
  <2>2. step \in [Requests -> Step] /\ created \in [Requests -> Nat]
    BY DEF Init, Step
  <2>3. input \in [Requests -> Input]
    BY <1>2 DEF Init
  <2> QED BY <2>1, <2>2, <2>3 DEF TypeOK
<1>4. Sound
  <2> SUFFICES ASSUME NEW r \in Requests
               PROVE  InPlace(r) /\ HasInputs(r) /\ CitesResults(r) /\ NoOlder(r)
    BY DEF Sound
  <2>1. /\ step[r] = "new" /\ input[r].kind = KindOf[r] /\ input[r].recent = {}
        /\ input[r].date = Date(input[r].bar)
        /\ input[r].pa = None /\ input[r].analysis = None /\ input[r].daily = None
    BY DEF Init, NoInput
  <2>2. None \notin Requests
    BY NoneAssumption
  <2>3. InPlace(r) /\ HasInputs(r)
    BY <2>1 DEF InPlace, HasInputs
  <2>4. CitesResults(r) /\ NoOlder(r)
    BY <2>1, <2>2 DEF CitesResults, NoOlder
  <2> QED BY <2>3, <2>4
<1>5. KeysUnique
  BY DEF Init, KeysUnique, Tasks
<1> QED BY <1>3, <1>4, <1>5 DEF IInv

(* A handler that still resolves does not touch tasks and results.         *)
LEMMA ResolvingKeeps ==
  ASSUME TypeOK, NEW r \in Requests, r \notin Tasks,
         step'[r] \notin {"queued", "done", "failed"},
         \A q \in Requests \ {r} : step'[q] = step[q] /\ input'[q] = input[q]
  PROVE  /\ Tasks' = Tasks /\ Results' = Results
         /\ \A q \in Tasks \union Results : input'[q] = input[q]
BY DEF Tasks, Results

(* Then what it is about is its own input alone.                           *)
LEMMA OthersKeep ==
  ASSUME IInv, TypeOK', created' = created,
         NEW r \in Requests, r \notin Tasks,
         step'[r] \notin {"queued", "done", "failed"},
         \A q \in Requests \ {r} : step'[q] = step[q] /\ input'[q] = input[q],
         (InPlace(r) /\ HasInputs(r) /\ CitesResults(r) /\ NoOlder(r))'
  PROVE  IInv'
<1>1. /\ Tasks' = Tasks /\ Results' = Results
      /\ \A q \in Tasks \union Results : input'[q] = input[q]
  BY ResolvingKeeps DEF IInv
<1>2. KeysUnique'
  BY <1>1 DEF IInv, KeysUnique, SameKey, Keyed
<1>3. ASSUME NEW q \in Requests \ {r}
      PROVE  (InPlace(q) /\ HasInputs(q) /\ CitesResults(q) /\ NoOlder(q))'
  <2>1. InPlace(q) /\ HasInputs(q) /\ CitesResults(q) /\ NoOlder(q)
    BY DEF IInv, Sound
  <2>2. step'[q] = step[q] /\ input'[q] = input[q]
    OBVIOUS
  <2>3. InPlace(q)' /\ HasInputs(q)'
    BY <2>1, <2>2 DEF InPlace, HasInputs
  <2>4. CitesResults(q)'
    BY <1>1, <2>1, <2>2 DEF CitesResults, Matching, OfDate, AtOrBefore
  <2>5. NoOlder(q)'
    BY <1>1, <2>1, <2>2 DEF NoOlder, CitesResults, Matching
  <2> QED BY <2>3, <2>4, <2>5
<1> QED BY <1>2, <1>3 DEF IInv, Sound

(* A new request.                                                          *)
LEMMA AskIInv ==
  ASSUME IInv, NEW r \in Requests,
         \/ \E s \in {"open", "closed"}, b \in Bars :
              AskBar(r, s, b) \/ AskSupplied(r, s, b)
         \/ \E d \in Dates : AskDaily(r, d)
  PROVE  IInv'
<1> USE NoneAssumption, KindAssumption
<1>0. TypeOK /\ step[r] = "new" /\ r \notin Tasks /\ created' = created
  BY DEF IInv, AskBar, AskSupplied, AskDaily, Tasks
<1>1. CASE \E s \in {"open", "closed"}, b \in Bars : AskBar(r, s, b)
  <2>1. PICK s \in {"open", "closed"} : \E b \in Bars : AskBar(r, s, b)
    BY <1>1
  <2>2. PICK b \in Bars : AskBar(r, s, b)
    BY <2>1
  <2>3. PICK d \in TradingDates(r, b) :
          input' = [input EXCEPT ![r] =
            [NoInput(r) EXCEPT !.state = s, !.bar = b, !.date = d]]
    BY <2>2 DEF AskBar
  <2>4. /\ d \in Dates /\ KindOf[r] \in {"pa", "bar", "advice"}
        /\ KindOf[r] \in {"pa", "bar"} => d = Date(b)
    BY <2>2 DEF TradingDates, Dates, AskBar, Kind
  <2>5. /\ input'[r] = [kind |-> KindOf[r], state |-> s, bar |-> b, date |-> d,
                        pa |-> None, analysis |-> None, daily |-> None,
                        recent |-> {}]
        /\ \A q \in Requests \ {r} : input'[q] = input[q]
    BY <1>0, <2>3 DEF TypeOK, NoInput
  <2>6. step' = [step EXCEPT ![r] = After(KindOf[r])["new"]]
    BY <1>0, <2>2 DEF AskBar, Proceed, Goto
  <2>7. /\ KindOf[r] = "pa" => step'[r] = "submit"
        /\ KindOf[r] = "bar" => step'[r] = "find_pa"
        /\ KindOf[r] = "advice" => step'[r] = "find_analysis"
        /\ \A q \in Requests \ {r} : step'[q] = step[q]
    BY <1>0, <2>6 DEF After, TypeOK
  <2>8. TypeOK'
    <3>1. input'[r] \in Input
      BY <2>4, <2>5 DEF Input, Cited, Kind
    <3>2. input' \in [Requests -> Input]
      BY <1>0, <2>3, <3>1 DEF TypeOK
    <3>3. step' \in [Requests -> Step]
      BY <1>0, <2>4, <2>6, <2>7 DEF TypeOK, Step
    <3> QED BY <1>0, <2>2, <3>2, <3>3 DEF TypeOK, AskBar
  <2>9. (InPlace(r) /\ HasInputs(r) /\ CitesResults(r) /\ NoOlder(r))'
    BY <2>4, <2>5, <2>7 DEF InPlace, HasInputs, CitesResults, NoOlder
  <2> QED BY <1>0, <2>4, <2>5, <2>7, <2>8, <2>9, OthersKeep
<1>2. CASE \E s \in {"open", "closed"}, b \in Bars : AskSupplied(r, s, b)
  <2>1. PICK s \in {"open", "closed"} : \E b \in Bars : AskSupplied(r, s, b)
    BY <1>2
  <2>2. PICK b \in Bars : AskSupplied(r, s, b)
    BY <2>1
  <2>3. PICK d \in TradingDates(r, b) :
          input' = [input EXCEPT ![r] =
            [NoInput(r) EXCEPT !.state = s, !.date = d,
               !.bar = IF KindOf[r] = "daily" THEN 0 ELSE b,
               !.pa = IfNeededBy(r, {"bar", "advice"}),
               !.analysis = IfNeededBy(r, {"advice"}),
               !.daily = IfNeededBy(r, {"advice"})]]
    BY <2>2 DEF AskSupplied
  <2>4. /\ d \in Dates /\ KindOf[r] \in Kind
        /\ KindOf[r] \in {"pa", "bar"} => d = Date(b)
    BY <2>2 DEF TradingDates, Dates
  <2>5. /\ input'[r] = [kind |-> KindOf[r], state |-> s,
                        bar |-> IF KindOf[r] = "daily" THEN 0 ELSE b, date |-> d,
                        pa |-> IfNeededBy(r, {"bar", "advice"}),
                        analysis |-> IfNeededBy(r, {"advice"}),
                        daily |-> IfNeededBy(r, {"advice"}), recent |-> {}]
        /\ \A q \in Requests \ {r} : input'[q] = input[q]
    BY <1>0, <2>3 DEF TypeOK, NoInput
  <2>6. step' = [step EXCEPT ![r] = "submit"]
    BY <2>2 DEF AskSupplied, Goto
  <2>7. step'[r] = "submit" /\ \A q \in Requests \ {r} : step'[q] = step[q]
    BY <1>0, <2>6 DEF TypeOK
  <2>8. TypeOK'
    <3>1. input'[r] \in Input
      BY <2>4, <2>5 DEF Input, Cited, IfNeededBy
    <3>2. input' \in [Requests -> Input]
      BY <1>0, <2>3, <3>1 DEF TypeOK
    <3>3. step' \in [Requests -> Step]
      BY <1>0, <2>6 DEF TypeOK, Step
    <3> QED BY <1>0, <2>2, <3>2, <3>3 DEF TypeOK, AskSupplied
  <2>9. (InPlace(r) /\ HasInputs(r) /\ CitesResults(r) /\ NoOlder(r))'
    BY <2>4, <2>5, <2>7
       DEF InPlace, HasInputs, CitesResults, NoOlder, IfNeededBy, Kind
  <2> QED BY <1>0, <2>5, <2>7, <2>8, <2>9, OthersKeep
<1>3. CASE \E d \in Dates : AskDaily(r, d)
  <2>1. PICK d \in Dates : AskDaily(r, d)
    BY <1>3
  <2>2. KindOf[r] = "daily"
    BY <2>1 DEF AskDaily
  <2>3. input' = [input EXCEPT ![r] = [NoInput(r) EXCEPT !.bar = 0, !.date = d]]
    BY <2>1 DEF AskDaily
  <2>4. /\ input'[r] = [kind |-> "daily", state |-> "open", bar |-> 0, date |-> d,
                        pa |-> None, analysis |-> None, daily |-> None,
                        recent |-> {}]
        /\ \A q \in Requests \ {r} : input'[q] = input[q]
    BY <1>0, <2>2, <2>3 DEF TypeOK, NoInput
  <2>5. step' = [step EXCEPT ![r] = "collect_states"]
    <3>1. After("daily")["new"] = "collect_states"
      BY DEF After
    <3> QED BY <1>0, <2>1, <2>2, <3>1 DEF AskDaily, Proceed, Goto
  <2>6. /\ step'[r] = "collect_states"
        /\ \A q \in Requests \ {r} : step'[q] = step[q]
    BY <1>0, <2>5 DEF TypeOK
  <2>7. TypeOK'
    <3>1. input'[r] \in Input
      BY <2>4 DEF Input, Cited, Kind
    <3>2. input' \in [Requests -> Input]
      BY <1>0, <2>3, <3>1 DEF TypeOK
    <3>3. step' \in [Requests -> Step]
      BY <1>0, <2>5 DEF TypeOK, Step
    <3> QED BY <1>0, <2>1, <3>2, <3>3 DEF TypeOK, AskDaily
  <2>8. (InPlace(r) /\ HasInputs(r) /\ CitesResults(r) /\ NoOlder(r))'
    BY <2>2, <2>4, <2>6 DEF InPlace, HasInputs, CitesResults, NoOlder
  <2> QED BY <1>0, <2>4, <2>6, <2>7, <2>8, OthersKeep
<1> QED BY <1>1, <1>2, <1>3

(* What a step that reads one result does to the request.                  *)
LEMMA FindMoves ==
  ASSUME TypeOK, NEW r \in Requests, NEW S, S \subseteq Requests,
         NEW next \in {"find_daily", "find_pa", "collect_recent", "submit"},
         NEW f \in {"pa", "analysis", "daily"},
         After(KindOf[r])[step[r]] = next, Find(r, f, S)
  PROVE  /\ TypeOK' /\ created' = created
         /\ \A q \in Requests \ {r} : step'[q] = step[q] /\ input'[q] = input[q]
         /\ \/ step'[r] = "rejected" /\ input'[r] = input[r]
            \/ \E v \in Newest(S, 1) \union {Supplied} :
                 step'[r] = next /\ input'[r] = [input[r] EXCEPT ![f] = v]
<1>1. CASE S = {} /\ Goto(r, "rejected") /\ UNCHANGED input
  BY <1>1 DEF Find, Goto, TypeOK, Step
<1>2. ASSUME NEW v \in Newest(S, 1) \union {Supplied}, Fill(r, f, v), Proceed(r)
      PROVE  /\ TypeOK'
             /\ \A q \in Requests \ {r} : step'[q] = step[q] /\ input'[q] = input[q]
             /\ step'[r] = next /\ input'[r] = [input[r] EXCEPT ![f] = v]
  <2>1. v \in Cited
    BY NewestIn DEF Cited
  <2>2. step' = [step EXCEPT ![r] = next]
    BY <1>2 DEF Proceed, Goto
  <2>3. input' = [input EXCEPT ![r] = [input[r] EXCEPT ![f] = v]]
    BY <1>2 DEF Fill
  <2>4. [input[r] EXCEPT ![f] = v] \in Input
    <3>1. input[r] \in Input
      BY DEF TypeOK
    <3>2. CASE f = "pa"
      BY <2>1, <3>1, <3>2 DEF Input
    <3>3. CASE f = "analysis"
      BY <2>1, <3>1, <3>3 DEF Input
    <3>4. CASE f = "daily"
      BY <2>1, <3>1, <3>4 DEF Input
    <3> QED BY <3>2, <3>3, <3>4
  <2>5. step' \in [Requests -> Step] /\ input' \in [Requests -> Input]
    BY <2>2, <2>3, <2>4 DEF TypeOK, Step
  <2>6. TypeOK'
    BY <2>5 DEF TypeOK, Find
  <2> QED BY <2>2, <2>3, <2>6 DEF TypeOK
<1> QED BY <1>1, <1>2 DEF Find

(* Reading one result keeps the invariant.                                 *)
LEMMA FindIInv ==
  ASSUME IInv, NEW r \in Requests, FindAnalysis(r) \/ FindDaily(r) \/ FindPa(r)
  PROVE  IInv'
<1> USE NoneAssumption
<1>0. /\ TypeOK /\ r \notin Tasks
      /\ InPlace(r) /\ HasInputs(r) /\ CitesResults(r) /\ NoOlder(r)
  BY DEF IInv, Sound, FindAnalysis, FindDaily, FindPa, Tasks
<1>1. Results \subseteq Requests /\ input[r] \in Input
  BY <1>0 DEF Results, TypeOK
<1> DEFINE Kept == /\ Results' = Results
                   /\ \A q \in Results : input'[q] = input[q]
<1>2. CASE FindAnalysis(r)
  <2> DEFINE S == Matching("bar", input[r])
  <2>1. KindOf[r] = "advice" /\ step[r] = "find_analysis" /\ input[r].pa = None
    BY <1>0, <1>2 DEF FindAnalysis, InPlace, CitesResults
  <2>2. S \subseteq Requests /\ Find(r, "analysis", S)
    BY <1>1, <1>2 DEF FindAnalysis, Matching
  <2>3. After(KindOf[r])[step[r]] = "find_daily"
    BY <2>1 DEF After
  <2>4. /\ TypeOK' /\ created' = created
        /\ \A q \in Requests \ {r} : step'[q] = step[q] /\ input'[q] = input[q]
        /\ \/ step'[r] = "rejected" /\ input'[r] = input[r]
           \/ \E v \in Newest(S, 1) \union {Supplied} :
                /\ step'[r] = "find_daily"
                /\ input'[r] = [input[r] EXCEPT !["analysis"] = v]
    BY <1>0, <2>2, <2>3, FindMoves
  <2>5. Kept
    BY <1>0, <2>4, ResolvingKeeps
  <2>6. CASE step'[r] = "rejected" /\ input'[r] = input[r]
    <3>1. (InPlace(r) /\ HasInputs(r) /\ CitesResults(r) /\ NoOlder(r))'
      BY <1>0, <2>1, <2>4, <2>5, <2>6
         DEF InPlace, HasInputs, CitesResults, NoOlder, Matching, OfDate
    <3> QED BY <1>0, <2>4, <2>6, <3>1, OthersKeep
  <2>7. ASSUME NEW v \in Newest(S, 1) \union {Supplied},
               step'[r] = "find_daily",
               input'[r] = [input[r] EXCEPT !["analysis"] = v]
        PROVE  IInv'
    <3>1. v \in S \union {Supplied}
      BY NewestIn
    <3>2. /\ input'[r].analysis = v /\ input'[r].kind = input[r].kind
          /\ input'[r].state = input[r].state /\ input'[r].bar = input[r].bar
          /\ input'[r].date = input[r].date /\ input'[r].pa = input[r].pa
          /\ input'[r].daily = input[r].daily
      BY <1>1, <2>7 DEF Input
    <3>3. InPlace(r)' /\ HasInputs(r)' /\ NoOlder(r)'
      BY <1>0, <2>1, <2>2, <2>7, <3>1, <3>2 DEF InPlace, HasInputs, NoOlder
    <3>4. CitesResults(r)'
      BY <1>0, <2>1, <2>5, <2>7, <3>1, <3>2
         DEF CitesResults, Matching, OfDate
    <3> QED BY <1>0, <2>4, <2>7, <3>3, <3>4, OthersKeep
  <2> QED BY <2>4, <2>6, <2>7
<1>3. CASE FindDaily(r)
  <2> DEFINE S == OfDate("daily", input[r].date)
  <2>1. KindOf[r] = "advice" /\ step[r] = "find_daily" /\ input[r].pa = None
    BY <1>0, <1>3 DEF FindDaily, InPlace, CitesResults
  <2>2. S \subseteq Requests /\ Find(r, "daily", S)
    BY <1>1, <1>3 DEF FindDaily, OfDate
  <2>3. After(KindOf[r])[step[r]] = "find_pa"
    BY <2>1 DEF After
  <2>4. /\ TypeOK' /\ created' = created
        /\ \A q \in Requests \ {r} : step'[q] = step[q] /\ input'[q] = input[q]
        /\ \/ step'[r] = "rejected" /\ input'[r] = input[r]
           \/ \E v \in Newest(S, 1) \union {Supplied} :
                /\ step'[r] = "find_pa"
                /\ input'[r] = [input[r] EXCEPT !["daily"] = v]
    BY <1>0, <2>2, <2>3, FindMoves
  <2>5. Kept
    BY <1>0, <2>4, ResolvingKeeps
  <2>6. CASE step'[r] = "rejected" /\ input'[r] = input[r]
    <3>1. (InPlace(r) /\ HasInputs(r) /\ CitesResults(r) /\ NoOlder(r))'
      BY <1>0, <2>1, <2>4, <2>5, <2>6
         DEF InPlace, HasInputs, CitesResults, NoOlder, Matching, OfDate
    <3> QED BY <1>0, <2>4, <2>6, <3>1, OthersKeep
  <2>7. ASSUME NEW v \in Newest(S, 1) \union {Supplied},
               step'[r] = "find_pa",
               input'[r] = [input[r] EXCEPT !["daily"] = v]
        PROVE  IInv'
    <3>1. v \in S \union {Supplied}
      BY NewestIn
    <3>2. /\ input'[r].daily = v /\ input'[r].kind = input[r].kind
          /\ input'[r].state = input[r].state /\ input'[r].bar = input[r].bar
          /\ input'[r].date = input[r].date /\ input'[r].pa = input[r].pa
          /\ input'[r].analysis = input[r].analysis
      BY <1>1, <2>7 DEF Input
    <3>3. InPlace(r)' /\ HasInputs(r)' /\ NoOlder(r)'
      BY <1>0, <2>1, <2>2, <2>7, <3>1, <3>2 DEF InPlace, HasInputs, NoOlder
    <3>4. CitesResults(r)'
      BY <1>0, <2>1, <2>5, <2>7, <3>1, <3>2
         DEF CitesResults, Matching, OfDate
    <3> QED BY <1>0, <2>4, <2>7, <3>3, <3>4, OthersKeep
  <2> QED BY <2>4, <2>6, <2>7
<1>4. CASE FindPa(r)
  <2> DEFINE S == Matching("pa", input[r])
             n == IF KindOf[r] = "bar" THEN "collect_recent" ELSE "submit"
  <2>1. KindOf[r] \in {"bar", "advice"} /\ step[r] = "find_pa"
    BY <1>0, <1>4 DEF FindPa, InPlace
  <2>2. S \subseteq Requests /\ Find(r, "pa", S)
    BY <1>1, <1>4 DEF FindPa, Matching
  <2>3. After(KindOf[r])[step[r]] = n
    BY <2>1 DEF After
  <2>4. /\ TypeOK' /\ created' = created
        /\ \A q \in Requests \ {r} : step'[q] = step[q] /\ input'[q] = input[q]
        /\ \/ step'[r] = "rejected" /\ input'[r] = input[r]
           \/ \E v \in Newest(S, 1) \union {Supplied} :
                step'[r] = n /\ input'[r] = [input[r] EXCEPT !["pa"] = v]
    <3>1. n \in {"find_daily", "find_pa", "collect_recent", "submit"}
      OBVIOUS
    <3> HIDE DEF n
    <3> QED BY <1>0, <2>2, <2>3, <3>1, FindMoves
  <2>5. /\ Kept /\ step'[r] \notin {"queued", "done", "failed"}
    BY <1>0, <2>4, ResolvingKeeps
  <2>6. CASE step'[r] = "rejected" /\ input'[r] = input[r]
    <3>1. (InPlace(r) /\ HasInputs(r) /\ CitesResults(r) /\ NoOlder(r))'
      BY <1>0, <2>1, <2>4, <2>5, <2>6
         DEF InPlace, HasInputs, CitesResults, NoOlder, Matching, OfDate,
             AtOrBefore
    <3> QED BY <1>0, <2>4, <2>6, <3>1, OthersKeep
  <2>7. ASSUME NEW v \in Newest(S, 1) \union {Supplied},
               step'[r] = n, input'[r] = [input[r] EXCEPT !["pa"] = v]
        PROVE  IInv'
    <3>1. v \in S \union {Supplied}
      BY NewestIn
    <3>2. /\ input'[r].pa = v /\ input'[r].kind = input[r].kind
          /\ input'[r].state = input[r].state /\ input'[r].bar = input[r].bar
          /\ input'[r].date = input[r].date /\ input'[r].daily = input[r].daily
          /\ input'[r].analysis = input[r].analysis
          /\ input'[r].recent = input[r].recent
      BY <1>1, <2>7 DEF Input
    <3>3. InPlace(r)' /\ HasInputs(r)'
      BY <1>0, <2>1, <2>2, <2>7, <3>1, <3>2 DEF InPlace, HasInputs
    <3>4. CitesResults(r)'
      BY <1>0, <2>1, <2>5, <2>7, <3>1, <3>2
         DEF CitesResults, Matching, OfDate, AtOrBefore
    <3>5. NoOlder(r)'
      <4> SUFFICES ASSUME KindOf[r] = "advice", v \in Requests,
                          input[r].analysis \in Requests
                   PROVE  \/ input'[input[r].analysis].pa = Supplied
                          \/ created[input'[input[r].analysis].pa] <= created[v]
        BY <2>4, <3>2 DEF NoOlder
      <4> DEFINE q == input[r].analysis
                 p == input[q].pa
      <4>1. q \in Matching("bar", input[r])
        BY <1>0 DEF CitesResults
      <4>2. /\ q \in Results /\ input'[q] = input[q] /\ KindOf[q] = "bar"
            /\ input[q].state = input[r].state /\ input[q].bar = input[r].bar
            /\ CitesResults(q) /\ HasInputs(q)
        BY <1>1, <2>5, <4>1 DEF Matching, IInv, Sound, CitesResults
      <4>3. p # None /\ p \in Cited
        BY <1>0, <1>1, <4>2 DEF HasInputs, Results, TypeOK, Input
      <4>4. CASE p \in Requests
        <5>1. p \in S
          BY <1>1, <4>2, <4>4 DEF CitesResults, Matching
        <5>2. v \in Newest(S, 1)
          BY <2>7
        <5>3. created[p] <= created[v]
          BY <1>0, <2>2, <5>1, <5>2, NewestIsLast DEF TypeOK
        <5> QED BY <4>2, <5>3
      <4> QED BY <4>2, <4>3, <4>4 DEF Cited
    <3> QED BY <1>0, <2>4, <2>5, <2>7, <3>3, <3>4, <3>5, OthersKeep
  <2> QED BY <2>4, <2>6, <2>7
<1> QED BY <1>2, <1>3, <1>4

(* Reading several results keeps the invariant.                            *)
LEMMA CollectIInv ==
  ASSUME IInv, NEW r \in Requests,
         CollectRecent(r) \/ CollectStates(r) \/ CollectBars(r)
  PROVE  IInv'
<1>0. /\ TypeOK /\ r \notin Tasks
      /\ InPlace(r) /\ HasInputs(r) /\ CitesResults(r) /\ NoOlder(r)
  BY DEF IInv, Sound, CollectRecent, CollectStates, CollectBars, Tasks
<1>1. /\ Results \subseteq Requests /\ input[r] \in Input
      /\ step[r] \in {"collect_recent", "collect_states", "collect_bars"}
      /\ step[r] = "collect_recent" <=> KindOf[r] = "bar"
      /\ KindOf[r] \in {"bar", "daily"}
  BY <1>0 DEF Results, TypeOK, InPlace, CollectRecent, CollectStates, CollectBars
<1>2. \/ step' = [step EXCEPT ![r] = "rejected"] /\ UNCHANGED input
      \/ \E S \in SUBSET Requests :
           /\ Collect(r, S)
           /\ KindOf[r] = "bar" => S = AtOrBefore(input[r].bar)
  <2>1. CASE CollectRecent(r)
    BY <1>1, <2>1 DEF CollectRecent, AtOrBefore
  <2>2. CASE CollectStates(r)
    BY <1>1, <2>2 DEF CollectStates, OfDate, Goto
  <2>3. CASE CollectBars(r)
    BY <1>1, <2>3 DEF CollectBars, OfDate
  <2> QED BY <2>1, <2>2, <2>3
<1>3. UNCHANGED <<clock, stored, created>>
  BY DEF CollectRecent, CollectStates, CollectBars, Collect
<1>4. CASE step' = [step EXCEPT ![r] = "rejected"] /\ UNCHANGED input
  <2>1. TypeOK'
    BY <1>0, <1>3, <1>4 DEF TypeOK, Step
  <2>2. /\ \A q \in Requests \ {r} : step'[q] = step[q] /\ input'[q] = input[q]
        /\ step'[r] = "rejected" /\ input'[r] = input[r]
    BY <1>0, <1>4 DEF TypeOK
  <2>3. Results' = Results
    BY <1>0, <2>2, ResolvingKeeps
  <2>4. (InPlace(r) /\ HasInputs(r) /\ CitesResults(r) /\ NoOlder(r))'
    BY <1>0, <1>1, <1>3, <1>4, <2>2, <2>3
       DEF InPlace, HasInputs, CitesResults, NoOlder, Matching, OfDate, AtOrBefore
  <2> QED BY <1>0, <1>3, <2>1, <2>2, <2>4, OthersKeep
<1>5. ASSUME NEW S \in SUBSET Requests, Collect(r, S),
             KindOf[r] = "bar" => S = AtOrBefore(input[r].bar)
      PROVE  IInv'
  <2>1. After(KindOf[r])[step[r]] \in {"collect_bars", "submit"}
    <3>1. CASE KindOf[r] = "bar"
      BY <1>1, <3>1 DEF After
    <3>2. CASE KindOf[r] = "daily"
      BY <1>1, <3>2 DEF After
    <3> QED BY <1>1, <3>1, <3>2
  <2>2. KindOf[r] = "bar" => After(KindOf[r])[step[r]] = "submit"
    BY <1>1 DEF After
  <2>3. PICK n \in {"collect_bars", "submit"} :
          step' = [step EXCEPT ![r] = n] /\ (KindOf[r] = "bar" => n = "submit")
    BY <1>5, <2>1, <2>2 DEF Collect, Proceed, Goto
  <2>4. PICK h \in SUBSET (input[r].recent \union S) :
          input' = [input EXCEPT ![r] = [input[r] EXCEPT !.recent = h]]
    <3>1. CASE Fill(r, "recent", input[r].recent \union Newest(S, RecentLimit))
      BY <3>1, NewestIn DEF Fill
    <3>2. CASE UNCHANGED input
      <4>1. input = [input EXCEPT ![r] = [input[r] EXCEPT !.recent = input[r].recent]]
        BY <1>0, <1>1 DEF TypeOK, Input
      <4> QED BY <3>2, <4>1
    <3> QED BY <1>5, <3>1, <3>2 DEF Collect
  <2>5. [input[r] EXCEPT !.recent = h] \in Input
    BY <1>1, <2>4 DEF Input
  <2>6. /\ step'[r] = n /\ input'[r] = [input[r] EXCEPT !.recent = h]
        /\ \A q \in Requests \ {r} : step'[q] = step[q] /\ input'[q] = input[q]
    BY <1>0, <2>3, <2>4 DEF TypeOK
  <2>7. /\ input'[r].recent = h /\ input'[r].pa = input[r].pa
        /\ input'[r].kind = input[r].kind /\ input'[r].state = input[r].state
        /\ input'[r].bar = input[r].bar /\ input'[r].date = input[r].date
        /\ input'[r].analysis = input[r].analysis
        /\ input'[r].daily = input[r].daily
    BY <1>1, <2>6 DEF Input
  <2>8. TypeOK'
    BY <1>0, <1>3, <2>3, <2>4, <2>5 DEF TypeOK, Step
  <2>9. Results' = Results /\ \A q \in Results : input'[q] = input[q]
    BY <1>0, <2>3, <2>6, ResolvingKeeps
  <2>10. InPlace(r)' /\ HasInputs(r)' /\ NoOlder(r)'
    BY <1>0, <1>1, <2>3, <2>6, <2>7 DEF InPlace, HasInputs, NoOlder
  <2>11. CitesResults(r)'
    <3>1. KindOf[r] = "bar" => h \subseteq AtOrBefore(input[r].bar)
      BY <1>0, <1>5 DEF CitesResults
    <3> QED BY <1>0, <1>1, <2>3, <2>6, <2>7, <2>9, <3>1
            DEF CitesResults, Matching, OfDate, AtOrBefore
  <2> QED BY <1>0, <1>3, <2>3, <2>6, <2>8, <2>10, <2>11, OthersKeep
<1> QED BY <1>2, <1>4, <1>5

(* Submitting, completing and giving up leave all inputs alone.            *)
LEMMA TaskIInv ==
  ASSUME IInv, NEW r \in Requests, Submit(r) \/ Complete(r) \/ GiveUp(r)
  PROVE  IInv'
<1>0. TypeOK /\ Sound /\ KeysUnique /\ UNCHANGED <<clock, stored, input>>
  BY DEF IInv, Submit, Complete, GiveUp
<1>1. /\ step[r] \in {"submit", "queued"}
      /\ step' = [step EXCEPT ![r] = step'[r]]
      /\ step'[r] \in {"duplicate", "queued", "done", "failed"}
  BY <1>0 DEF Submit, Complete, GiveUp, Goto, TypeOK
<1>2. /\ \A q \in Requests \ {r} : step'[q] = step[q]
      /\ r \notin Results /\ Results \subseteq Results'
  BY <1>0, <1>1 DEF TypeOK, Results
<1>3. created' \in [Requests -> Nat] /\ \A q \in Results : created'[q] = created[q]
  <2>1. CASE Submit(r) \/ GiveUp(r)
    BY <1>0, <2>1 DEF Submit, GiveUp, TypeOK
  <2>2. CASE Complete(r)
    <3>1. Cardinality(Results) + 1 \in Nat
      BY RequestsAssumption, FS_Subset, FS_CardinalityType DEF Results
    <3> QED BY <1>0, <1>2, <2>2, <3>1 DEF Complete, TypeOK, Results
  <2> QED BY <2>1, <2>2
<1>4. TypeOK'
  BY <1>0, <1>1, <1>3 DEF TypeOK, Step
<1>5. KeysUnique'
  <2>1. CASE step'[r] = "duplicate"
    BY <1>0, <1>1, <1>2, <2>1 DEF KeysUnique, Tasks
  <2>2. CASE Submit(r) /\ step'[r] = "queued"
    <3>1. \A q \in Tasks : ~ SameKey(input[q], input[r])
      BY <1>0, <2>2 DEF Submit, Goto, TypeOK
    <3>2. \A q \in Tasks : ~ SameKey(input[r], input[q])
      BY <3>1 DEF SameKey
    <3>3. Tasks' = Tasks \union {r}
      BY <1>0, <1>2, <2>2 DEF Tasks
    <3> QED BY <1>0, <3>1, <3>2, <3>3 DEF KeysUnique
  <2>3. CASE Complete(r) \/ GiveUp(r)
    <3>1. Tasks' = Tasks
      BY <1>0, <1>2, <2>3 DEF Complete, GiveUp, Goto, TypeOK, Tasks
    <3> QED BY <1>0, <3>1 DEF KeysUnique
  <2> QED BY <1>0, <1>1, <2>1, <2>2, <2>3 DEF Submit, Goto, TypeOK
<1>6. Sound'
  <2> SUFFICES ASSUME NEW q \in Requests
               PROVE  (InPlace(q) /\ HasInputs(q) /\ CitesResults(q) /\ NoOlder(q))'
    BY DEF Sound
  <2>1. InPlace(q) /\ HasInputs(q) /\ CitesResults(q) /\ NoOlder(q)
    BY <1>0 DEF Sound
  <2>2. InPlace(q)' /\ HasInputs(q)'
    BY <1>0, <1>1, <1>2, <2>1 DEF InPlace, HasInputs
  <2>3. CitesResults(q)'
    BY <1>0, <1>1, <1>2, <2>1 DEF CitesResults, Matching, OfDate, AtOrBefore
  <2>4. NoOlder(q)'
    <3> SUFFICES ASSUME KindOf[q] = "advice", input[q].pa \in Requests,
                        input[q].analysis \in Requests,
                        input[input[q].analysis].pa # Supplied
                 PROVE  created'[input[input[q].analysis].pa] <= created'[input[q].pa]
      BY <1>0 DEF NoOlder
    <3> DEFINE a == input[q].analysis
    <3>1. a \in Results /\ KindOf[a] = "bar" /\ input[q].pa \in Results
      BY <1>0, <2>1 DEF CitesResults, Matching, Sound
    <3>2. input[a].pa \in Results
      <4>1. CitesResults(a) /\ HasInputs(a)
        BY <1>0 DEF Sound
      <4>2. input[a].pa \in Cited /\ input[a].pa # None
        BY <1>0, <3>1, <4>1 DEF TypeOK, Input, HasInputs, Results
      <4> QED BY <4>1, <4>2 DEF Cited, CitesResults, Matching
    <3> QED BY <1>3, <2>1, <3>1, <3>2 DEF NoOlder
  <2> QED BY <2>2, <2>3, <2>4
<1> QED BY <1>4, <1>5, <1>6 DEF IInv

(* The market and steps that change nothing.                               *)
LEMMA MarketIInv ==
  ASSUME IInv, CloseBar \/ (\E b \in Bars : Backfill(b)) \/ UNCHANGED vars
  PROVE  IInv'
<1>1. UNCHANGED <<step, input, created>> /\ TypeOK
  BY DEF CloseBar, Backfill, vars, IInv
<1>2. TypeOK'
  <2>1. CASE CloseBar
    BY <1>1, <2>1, BarsAssumption DEF TypeOK, CloseBar
  <2>2. CASE \E b \in Bars : Backfill(b)
    BY <1>1, <2>2 DEF TypeOK, Backfill
  <2>3. CASE UNCHANGED vars
    BY <1>1, <2>3 DEF TypeOK, vars
  <2> QED BY <2>1, <2>2, <2>3
<1>3. Sound'
  BY <1>1 DEF IInv, Sound, InPlace, HasInputs, CitesResults, NoOlder, Matching,
              OfDate, AtOrBefore, Results
<1>4. KeysUnique'
  BY <1>1 DEF IInv, KeysUnique, Tasks
<1> QED BY <1>2, <1>3, <1>4 DEF IInv

(* The invariant holds in every reachable state.                           *)
THEOREM Invariant == Spec => []IInv
<1>1. Init => IInv
  BY InitIInv
<1>2. IInv /\ [Next]_vars => IInv'
  <2> SUFFICES ASSUME IInv, [Next]_vars PROVE IInv'
    OBVIOUS
  <2>1. CASE CloseBar \/ (\E b \in Bars : Backfill(b)) \/ UNCHANGED vars
    BY <2>1, MarketIInv
  <2>2. ASSUME NEW r \in Requests,
               \/ \E s \in {"open", "closed"}, b \in Bars :
                    AskBar(r, s, b) \/ AskSupplied(r, s, b)
               \/ \E d \in Dates : AskDaily(r, d)
        PROVE  IInv'
    BY <2>2, AskIInv
  <2>3. ASSUME NEW r \in Requests, Handle(r) \/ Complete(r) \/ GiveUp(r)
        PROVE  IInv'
    BY <2>3, FindIInv, CollectIInv, TaskIInv DEF Handle
  <2> QED BY <2>1, <2>2, <2>3 DEF Next
<1> QED BY <1>1, <1>2, PTL DEF Spec

(* Types of the pipeline's state.                                          *)
THEOREM TypeCorrect == Spec => []TypeOK
<1>1. IInv => TypeOK
  BY DEF IInv
<1> QED BY <1>1, Invariant, PTL

(* What the citations of an advice task are, whatever its bar state.       *)
LEMMA AdviceCites ==
  ASSUME IInv, NEW r \in AdviceTasks
  PROVE  /\ r \in Requests /\ KindOf[r] = "advice"
         /\ input[r].pa # None /\ input[r].pa \in Cited
         /\ input[r].analysis # None /\ input[r].analysis \in Cited
         /\ input[r].daily # None /\ input[r].daily \in Cited
         /\ CitesResults(r) /\ NoOlder(r)
BY DEF IInv, Sound, AdviceTasks, Tasks, HasInputs, CitesResults, TypeOK, Input

(* There is one result to cite for a closed bar.                           *)
LEMMA OneMatch ==
  ASSUME IInv, NEW k \in {"pa", "bar"}, NEW i, i.state = "closed",
         NEW q \in Matching(k, i), NEW p \in Matching(k, i)
  PROVE  q = p
<1>1. input[q].date = input[p].date
  BY DEF IInv, Sound, CitesResults, Matching, Results
<1> QED BY <1>1 DEF IInv, KeysUnique, Matching, SameKey, Keyed, Results, Tasks

(* And one daily context to cite for a date.                               *)
LEMMA OneDaily ==
  ASSUME IInv, NEW d, NEW q \in OfDate("daily", d), NEW p \in OfDate("daily", d)
  PROVE  q = p
<1>1. input[q].bar = 0 /\ input[p].bar = 0
  BY DEF IInv, Sound, CitesResults, OfDate, Results
<1> QED BY <1>1 DEF IInv, KeysUnique, OfDate, SameKey, Keyed, Results, Tasks

(* Advice on a closed bar cites the state its bar analysis was built on.   *)
THEOREM ClosedAdviceOfOnePiece == Spec => []ClosedAdviceIsCoherent
<1>1. IInv => ClosedAdviceIsCoherent
  <2> SUFFICES ASSUME IInv, NEW r \in AdviceTasks, input[r].state = "closed",
                      input[r].pa \in Requests, input[r].analysis \in Requests
               PROVE  input[input[r].analysis].pa \in {input[r].pa, Supplied}
    BY DEF ClosedAdviceIsCoherent
  <2> DEFINE a == input[r].analysis
  <2>1. a \in Matching("bar", input[r]) /\ input[r].pa \in Matching("pa", input[r])
    BY AdviceCites DEF CitesResults
  <2>2. /\ a \in Requests /\ step[a] = "done" /\ KindOf[a] = "bar"
        /\ CitesResults(a) /\ HasInputs(a) /\ input[a].pa \in Cited
        /\ input[a].state = input[r].state /\ input[a].bar = input[r].bar
    BY <2>1 DEF IInv, Sound, CitesResults, Matching, Results, TypeOK, Input
  <2>3. CASE input[a].pa \in Requests
    <3>1. input[a].pa \in Matching("pa", input[r])
      BY <2>2, <2>3 DEF CitesResults, Matching
    <3> QED BY <2>1, <3>1, OneMatch
  <2>4. input[a].pa # None
    BY <2>2 DEF HasInputs
  <2> QED BY <2>2, <2>3, <2>4 DEF Cited
<1> QED BY <1>1, Invariant, PTL

(* Advice never cites a state older than the one under its analysis.       *)
THEOREM AdviceStateNotOlder == Spec => []AdviceSeesNoOlderState
<1>1. IInv => AdviceSeesNoOlderState
  BY AdviceCites DEF AdviceSeesNoOlderState, NoOlder
<1> QED BY <1>1, Invariant, PTL

(* All advice of a date rests on one daily context.                        *)
THEOREM DailyIsShared == Spec => []AdviceSharesDaily
<1>1. IInv => AdviceSharesDaily
  <2> SUFFICES ASSUME IInv, NEW q \in AdviceTasks, NEW r \in AdviceTasks,
                      input[q].date = input[r].date,
                      input[q].daily # Supplied, input[r].daily # Supplied
               PROVE  input[q].daily = input[r].daily
    BY DEF AdviceSharesDaily
  <2>1. /\ input[q].daily \in OfDate("daily", input[q].date)
        /\ input[r].daily \in OfDate("daily", input[r].date)
    BY AdviceCites DEF CitesResults, Cited
  <2> QED BY <2>1, OneDaily
<1> QED BY <1>1, Invariant, PTL

(* A user gets one advice per closed bar and date.                         *)
THEOREM ClosedAdviceIsUnique == Spec => []OneAdvicePerClosedBar
<1>1. IInv => OneAdvicePerClosedBar
  <2> SUFFICES ASSUME IInv, NEW q \in AdviceTasks, NEW r \in AdviceTasks,
                      input[q].state = "closed", input[r].state = "closed",
                      input[q].bar = input[r].bar, input[q].date = input[r].date,
                      Supplied \notin {input[q].pa, input[q].analysis,
                                       input[q].daily, input[r].pa,
                                       input[r].analysis, input[r].daily}
               PROVE  q = r
    BY DEF OneAdvicePerClosedBar
  <2>1. /\ input[q].daily \in OfDate("daily", input[r].date)
        /\ input[r].daily \in OfDate("daily", input[r].date)
    BY AdviceCites DEF CitesResults, Cited
  <2>2. /\ input[q].pa \in Matching("pa", input[r])
        /\ input[r].pa \in Matching("pa", input[r])
        /\ input[q].analysis \in Matching("bar", input[r])
        /\ input[r].analysis \in Matching("bar", input[r])
    BY AdviceCites DEF CitesResults, Cited, Matching
  <2>3. /\ input[q].daily = input[r].daily /\ input[q].pa = input[r].pa
        /\ input[q].analysis = input[r].analysis
    BY <2>1, <2>2, OneDaily, OneMatch
  <2>4. SameKey(input[q], input[r])
    BY <2>3, AdviceCites DEF SameKey, Keyed, CitesResults
  <2> QED BY <2>4 DEF IInv, KeysUnique, AdviceTasks
<1> QED BY <1>1, Invariant, PTL

(* A bar analysis is never built on the state of a later bar.              *)
THEOREM BarsWithoutHindsight == Spec => []NoHindsight
<1>1. IInv => NoHindsight
  <2> SUFFICES ASSUME IInv, NEW r \in Tasks, input[r].kind = "bar",
                      NEW q \in input[r].recent \union ({input[r].pa} \cap Requests)
               PROVE  input[q].bar <= input[r].bar
    BY DEF NoHindsight
  <2>1. r \in Requests /\ CitesResults(r) /\ KindOf[r] = "bar"
    BY DEF IInv, Sound, Tasks, CitesResults
  <2>2. CASE q \in input[r].recent
    BY <2>1, <2>2 DEF CitesResults, AtOrBefore
  <2>3. CASE q = input[r].pa /\ q \in Requests
    <3>1. input[q].bar = input[r].bar /\ input[r].bar \in Int
      BY <2>1, <2>3 DEF CitesResults, Matching, IInv, TypeOK, Input, Bars
    <3> QED BY <3>1
  <2> QED BY <2>2, <2>3
<1> QED BY <1>1, Invariant, PTL
-----------------------------------------------------------------------------
(* Requests move one way.                                                  *)

Resolving == {"new", "collect_states", "collect_bars", "find_analysis",
              "find_daily", "find_pa", "collect_recent"}
Submitted == {"submit", "duplicate", "queued", "done", "failed"}

(* How far a request has come.                                             *)
Rank ==
  [new |-> 0, find_analysis |-> 1, find_daily |-> 2, find_pa |-> 3,
   collect_states |-> 4, collect_bars |-> 5, collect_recent |-> 5, submit |-> 6,
   rejected |-> 7, duplicate |-> 7, queued |-> 7, done |-> 8, failed |-> 8]

(* Only the request of the step is disturbed.                              *)
Alone(r) == \A q \in Requests \ {r} : step'[q] = step[q] /\ input'[q] = input[q]

(* The next read of a handler comes after the one it has made.             *)
LEMMA AfterIsLater ==
  ASSUME NEW k \in Kind, NEW s \in DOMAIN After(k)
  PROVE  /\ After(k)[s] \in (Resolving \ {"new"}) \union {"submit"}
         /\ Rank[After(k)[s]] > Rank[s]
<1>1. CASE k = "pa"
  BY <1>1 DEF After, Rank, Resolving
<1>2. CASE k = "bar"
  BY <1>2 DEF After, Rank, Resolving
<1>3. CASE k = "daily"
  BY <1>3 DEF After, Rank, Resolving
<1>4. CASE k = "advice"
  BY <1>4 DEF After, Rank, Resolving
<1> QED BY <1>1, <1>2, <1>3, <1>4 DEF Kind

(* A handler that still resolves has a next read.                          *)
LEMMA InOrder ==
  ASSUME IInv, NEW r \in Requests, step[r] \in Resolving
  PROVE  step[r] \in DOMAIN After(KindOf[r])
<1>1. InPlace(r) /\ KindOf[r] \in Kind
  BY KindAssumption DEF IInv, Sound
<1>2. CASE KindOf[r] = "pa"
  BY <1>1, <1>2 DEF InPlace, After, Resolving
<1>3. CASE KindOf[r] = "bar"
  BY <1>1, <1>3 DEF InPlace, After, Resolving
<1>4. CASE KindOf[r] = "daily"
  BY <1>1, <1>4 DEF InPlace, After, Resolving
<1>5. CASE KindOf[r] = "advice"
  BY <1>1, <1>5 DEF InPlace, After, Resolving
<1> QED BY <1>1, <1>2, <1>3, <1>4, <1>5 DEF Kind

(* What a step of a handler before the submission does.                    *)
LEMMA ResolvingMoves ==
  ASSUME IInv, NEW r \in Requests,
         \/ \E s \in {"open", "closed"}, b \in Bars :
              AskBar(r, s, b) \/ AskSupplied(r, s, b)
         \/ \E d \in Dates : AskDaily(r, d)
         \/ FindAnalysis(r) \/ FindDaily(r) \/ FindPa(r)
         \/ CollectRecent(r) \/ CollectStates(r) \/ CollectBars(r)
  PROVE  /\ Alone(r) /\ step[r] \in Resolving
         /\ step'[r] \in Resolving \union {"submit", "rejected"}
         /\ Rank[step'[r]] > Rank[step[r]]
<1>0. TypeOK /\ KindOf[r] \in Kind
  BY KindAssumption DEF IInv
<1>1. step[r] \in Resolving
  BY DEF Resolving, AskBar, AskSupplied, AskDaily, FindAnalysis, FindDaily, FindPa,
         CollectRecent, CollectStates, CollectBars
<1>2. /\ \/ Proceed(r) \/ Goto(r, "rejected") \/ Goto(r, "submit")
      /\ \/ \E v : input' = [input EXCEPT ![r] = v]
         \/ UNCHANGED input
  BY DEF AskBar, AskSupplied, AskDaily, FindAnalysis, FindDaily, FindPa,
         CollectRecent, CollectStates, CollectBars, Find, Collect, Fill
<1>3. \E s \in Resolving \union {"submit", "rejected"} :
        Rank[s] > Rank[step[r]] /\ Goto(r, s)
  <2>1. CASE Proceed(r)
    <3>1. step[r] \in DOMAIN After(KindOf[r])
      BY <1>1, InOrder
    <3> QED BY <1>0, <2>1, <3>1, AfterIsLater DEF Proceed
  <2>2. CASE Goto(r, "rejected") \/ Goto(r, "submit")
    BY <1>1, <2>2 DEF Resolving, Rank
  <2> QED BY <1>2, <2>1, <2>2
<1>4. \A q \in Requests \ {r} : input'[q] = input[q]
  BY <1>0, <1>2 DEF TypeOK
<1> QED BY <1>0, <1>1, <1>3, <1>4 DEF TypeOK, Goto, Alone
(* What a step on a submitted request does.                                *)
LEMMA TaskMoves ==
  ASSUME IInv, NEW r \in Requests, Submit(r) \/ Complete(r) \/ GiveUp(r)
  PROVE  /\ Alone(r) /\ input' = input
         /\ step[r] \in {"submit", "queued"}
         /\ step'[r] \in Submitted \ {"submit"}
         /\ Rank[step'[r]] > Rank[step[r]]
<1>0. TypeOK
  BY DEF IInv
<1>1. CASE Submit(r)
  BY <1>0, <1>1 DEF Submit, Goto, Alone, Submitted, Rank, TypeOK
<1>2. CASE Complete(r) \/ GiveUp(r)
  BY <1>0, <1>2 DEF Complete, GiveUp, Goto, Alone, Submitted, Rank, TypeOK
<1> QED BY <1>1, <1>2

(* Every step is of the market, of one handler or of one task.             *)
LEMMA StepKinds ==
  ASSUME IInv, [Next]_vars
  PROVE  \/ UNCHANGED <<step, input>>
         \/ \E r \in Requests :
              /\ Alone(r) /\ step[r] \in Resolving
              /\ step'[r] \in Resolving \union {"submit", "rejected"}
              /\ Rank[step'[r]] > Rank[step[r]]
         \/ \E r \in Requests : Submit(r) \/ Complete(r) \/ GiveUp(r)
<1>1. CASE CloseBar \/ (\E b \in Bars : Backfill(b)) \/ UNCHANGED vars
  BY <1>1 DEF CloseBar, Backfill, vars
<1>2. ASSUME NEW r \in Requests,
             \/ \E s \in {"open", "closed"}, b \in Bars :
                  AskBar(r, s, b) \/ AskSupplied(r, s, b)
             \/ \E d \in Dates : AskDaily(r, d)
             \/ FindAnalysis(r) \/ FindDaily(r) \/ FindPa(r)
             \/ CollectRecent(r) \/ CollectStates(r) \/ CollectBars(r)
      PROVE  \E q \in Requests :
               /\ Alone(q) /\ step[q] \in Resolving
               /\ step'[q] \in Resolving \union {"submit", "rejected"}
               /\ Rank[step'[q]] > Rank[step[q]]
  BY <1>2, ResolvingMoves
<1> QED BY <1>1, <1>2 DEF Next, Handle

(* A request never goes back and its handler never reads twice in one      *)
(* place, so a request is over after at most eight steps of its own,       *)
(* however many results appear meanwhile; and what is submitted stays as   *)
(* it was submitted.                                                       *)
OneWay ==
  \A r \in Requests :
    /\ step'[r] # step[r] => Rank[step'[r]] > Rank[step[r]]
    /\ input'[r] # input[r] => step'[r] # step[r] /\ step[r] \notin Submitted

THEOREM RequestsMoveOneWay == Spec => [][OneWay]_vars
<1>1. IInv /\ [Next]_vars => OneWay
  <2> SUFFICES ASSUME IInv, [Next]_vars PROVE OneWay
    OBVIOUS
  <2>1. ASSUME NEW r \in Requests, Alone(r), step[r] \in Resolving,
               Rank[step'[r]] > Rank[step[r]]
        PROVE  OneWay
    <3>1. step'[r] # step[r]
      <4>1. Rank[step[r]] \in Int
        BY <2>1 DEF Rank, Resolving
      <4> QED BY <2>1, <4>1
    <3>2. step[r] \notin Submitted
      BY <2>1 DEF Resolving, Submitted
    <3> QED BY <2>1, <3>1, <3>2 DEF OneWay, Alone
  <2>2. ASSUME NEW r \in Requests, Submit(r) \/ Complete(r) \/ GiveUp(r)
        PROVE  OneWay
    BY <2>2, TaskMoves DEF OneWay, Alone
  <2> QED BY <2>1, <2>2, StepKinds DEF OneWay
<1> QED BY <1>1, Invariant, PTL DEF Spec

-----------------------------------------------------------------------------
(* The pipeline as a registry: what its requests submit, which tasks come  *)
(* of it and what they are told.                                           *)

NoKey ==
  [kind |-> "none", bar |-> 0, date |-> 0, pa |-> None, analysis |-> None,
   daily |-> None]

Keys == [kind : Kind, bar : Bars \union {0}, date : Dates,
         pa : Cited, analysis : Cited, daily : Cited]

(* The dedupe key of an input.                                             *)
KeyOf(i) ==
  LET Part(v) == IF i.kind = "advice" THEN v ELSE None
  IN  IF Keyed(i) THEN [kind |-> i.kind, bar |-> i.bar, date |-> i.date,
                        pa |-> Part(i.pa), analysis |-> Part(i.analysis),
                        daily |-> Part(i.daily)]
      ELSE NoKey

Identities ==
  [r \in Requests |-> IF step[r] \in Submitted THEN KeyOf(input[r]) ELSE NoKey]

(* The task that has the key of a request.                                 *)
Holder(r) == CHOOSE q \in Tasks : SameKey(input[q], input[r])

Answers ==
  [r \in Requests |-> IF r \in Tasks THEN r
                      ELSE IF step[r] = "duplicate" THEN Holder(r) ELSE None]

Registry == INSTANCE TaskRegistry
            WITH NoTask <- None, identity <- Identities, tasks <- Tasks,
                 answer <- Answers

(* A request answered as a duplicate is one of a task there is.            *)
DuplicatesHaveTask ==
  \A r \in Requests :
    step[r] = "duplicate" => \E q \in Tasks : SameKey(input[q], input[r])

(* Keys are equal as the dedupe keys are.                                  *)
LEMMA KeysCompare ==
  ASSUME NEW i \in Input, NEW j \in Input
  PROVE  /\ Keyed(i) <=> KeyOf(i) \in Keys
         /\ ~ Keyed(i) <=> KeyOf(i) = NoKey
         /\ SameKey(i, j) <=> Keyed(i) /\ KeyOf(i) = KeyOf(j)
<1> DEFINE PartOf(x, v) == IF x.kind = "advice" THEN v ELSE None
<1>1. NoKey \notin Keys
  BY DEF NoKey, Keys, Kind
<1>2. ASSUME NEW x \in Input, Keyed(x)
      PROVE  /\ KeyOf(x) \in Keys
             /\ KeyOf(x) = [kind |-> x.kind, bar |-> x.bar, date |-> x.date,
                            pa |-> PartOf(x, x.pa),
                            analysis |-> PartOf(x, x.analysis),
                            daily |-> PartOf(x, x.daily)]
  BY <1>2 DEF KeyOf, Keys, Input, Cited
<1>3. ASSUME NEW x \in Input, ~ Keyed(x) PROVE KeyOf(x) = NoKey
  BY <1>3 DEF KeyOf
<1>4. Keyed(i) <=> KeyOf(i) \in Keys
  BY <1>1, <1>2, <1>3
<1>5. ~ Keyed(i) <=> KeyOf(i) = NoKey
  BY <1>1, <1>2, <1>3
<1>6. CASE Keyed(i) /\ Keyed(j)
  <2>1. /\ KeyOf(i).kind = i.kind /\ KeyOf(i).bar = i.bar /\ KeyOf(i).date = i.date
        /\ KeyOf(i).pa = PartOf(i, i.pa) /\ KeyOf(i).analysis = PartOf(i, i.analysis)
        /\ KeyOf(i).daily = PartOf(i, i.daily)
    BY <1>2, <1>6
  <2>2. /\ KeyOf(j).kind = j.kind /\ KeyOf(j).bar = j.bar /\ KeyOf(j).date = j.date
        /\ KeyOf(j).pa = PartOf(j, j.pa) /\ KeyOf(j).analysis = PartOf(j, j.analysis)
        /\ KeyOf(j).daily = PartOf(j, j.daily)
    BY <1>2, <1>6
  <2>3. ASSUME KeyOf(i) = KeyOf(j) PROVE SameKey(i, j)
    BY <1>6, <2>1, <2>2, <2>3 DEF SameKey
  <2>4. ASSUME SameKey(i, j) PROVE KeyOf(i) = KeyOf(j)
    BY <1>2, <1>6, <2>4 DEF SameKey
  <2> QED BY <1>4, <1>5, <1>6, <2>3, <2>4
<1>7. CASE ~ Keyed(i)
  BY <1>4, <1>5, <1>7 DEF SameKey
<1>8. CASE Keyed(i) /\ ~ Keyed(j)
  <2>1. KeyOf(j) = NoKey /\ KeyOf(i) \in Keys
    BY <1>2, <1>3, <1>8
  <2> QED BY <1>1, <1>4, <1>5, <1>8, <2>1 DEF SameKey
<1> QED BY <1>6, <1>7, <1>8

(* The holder of a key is the only task that has it.                       *)
LEMMA HolderIsTheOne ==
  ASSUME IInv, DuplicatesHaveTask, NEW r \in Requests, step[r] = "duplicate"
  PROVE  /\ Holder(r) \in Tasks /\ SameKey(input[Holder(r)], input[r])
         /\ \A p \in Tasks : SameKey(input[p], input[r]) => p = Holder(r)
<1>1. Holder(r) \in Tasks /\ SameKey(input[Holder(r)], input[r])
  BY DEF DuplicatesHaveTask, Holder
<1>2. ASSUME NEW p \in Tasks, SameKey(input[p], input[r]) PROVE p = Holder(r)
  <2>1. SameKey(input[p], input[Holder(r)])
    BY <1>1, <1>2 DEF SameKey
  <2> QED BY <1>1, <2>1 DEF IInv, KeysUnique
<1> QED BY <1>1, <1>2
(* Whoever is told of a task goes on being told of the same one.           *)
LEMMA DuplicatesKeep ==
  ASSUME IInv, IInv', DuplicatesHaveTask, Tasks \subseteq Tasks',
         \A q \in Tasks : input'[q] = input[q],
         NEW D, D \subseteq {q \in Requests : step[q] = "duplicate"},
         \A q \in D : step'[q] = "duplicate" /\ input'[q] = input[q]
  PROVE  /\ \A q \in D : \E p \in Tasks' : SameKey(input'[p], input'[q])
         /\ DuplicatesHaveTask' => \A q \in D : Holder(q)' = Holder(q)
<1>1. ASSUME NEW q \in D
      PROVE  /\ q \in Requests /\ Holder(q) \in Tasks'
             /\ SameKey(input'[Holder(q)], input'[q])
  BY HolderIsTheOne
<1>2. ASSUME DuplicatesHaveTask', NEW q \in D PROVE Holder(q)' = Holder(q)
  <2>1. \E p \in Tasks' : SameKey(input'[p], input'[q])
    BY <1>1
  <2>2. Holder(q)' \in Tasks' /\ SameKey(input'[Holder(q)'], input'[q])
    BY <2>1 DEF Holder
  <2>3. SameKey(input'[Holder(q)], input'[Holder(q)'])
    BY <1>1, <2>2 DEF SameKey
  <2> QED BY <1>1, <2>2, <2>3 DEF IInv, KeysUnique
<1> QED BY <1>1, <1>2

(* A duplicate stays one and keeps its task.                               *)
LEMMA StepDuplicates ==
  ASSUME IInv, IInv', DuplicatesHaveTask, [Next]_vars
  PROVE  /\ DuplicatesHaveTask'
         /\ \A q \in Requests :
              step[q] = "duplicate" => step'[q] = "duplicate" /\ Holder(q)' = Holder(q)
         /\ Tasks \subseteq Tasks' /\ \A q \in Tasks : input'[q] = input[q]
<1> DEFINE D == {q \in Requests : step[q] = "duplicate"}
<1>1. /\ Tasks \subseteq Tasks' /\ \A q \in Tasks : input'[q] = input[q]
      /\ \A q \in D : step'[q] = "duplicate" /\ input'[q] = input[q]
  <2>1. CASE UNCHANGED <<step, input>>
    BY <2>1 DEF Tasks
  <2>2. ASSUME NEW r \in Requests, Alone(r), step[r] \in Resolving
        PROVE  <1>1!:
    BY <2>2 DEF Alone, Resolving, Tasks
  <2>3. ASSUME NEW r \in Requests, Submit(r) \/ Complete(r) \/ GiveUp(r)
        PROVE  <1>1!:
    <3>1. step[r] = "queued" => step'[r] \in {"done", "failed"}
      BY <2>3 DEF Submit, Complete, GiveUp, Goto, IInv, TypeOK
    <3> QED BY <2>3, <3>1, TaskMoves DEF Alone, Tasks
  <2> QED BY <2>1, <2>2, <2>3, StepKinds
<1>2. \A q \in D : \E p \in Tasks' : SameKey(input'[p], input'[q])
  BY <1>1, DuplicatesKeep
<1>3. ASSUME NEW q \in Requests, step'[q] = "duplicate", step[q] # "duplicate"
      PROVE  \E p \in Tasks' : SameKey(input'[p], input'[q])
  <2>1. ASSUME NEW r \in Requests, Alone(r), step[r] \in Resolving,
               step'[r] \in Resolving \union {"submit", "rejected"}
        PROVE  FALSE
    BY <1>3, <2>1 DEF Alone, Resolving
  <2>2. ASSUME NEW r \in Requests, Submit(r) \/ Complete(r) \/ GiveUp(r)
        PROVE  q = r /\ Submit(r) /\ input' = input
    BY <1>3, <2>2, TaskMoves DEF Alone, Complete, GiveUp, Goto, IInv, TypeOK
  <2>3. Submit(q) /\ input' = input
    BY <1>3, <2>1, <2>2, StepKinds
  <2>4. \E p \in Tasks : SameKey(input[p], input[q])
    BY <1>3, <2>3 DEF Submit, Goto, IInv, TypeOK
  <2> QED BY <1>1, <2>3, <2>4
<1>4. DuplicatesHaveTask'
  BY <1>2, <1>3 DEF DuplicatesHaveTask
<1>5. \A q \in D : Holder(q)' = Holder(q)
  BY <1>1, <1>4, DuplicatesKeep
<1> QED BY <1>1, <1>4, <1>5
(* Every step of the pipeline is a step of the registry, or none.          *)
LEMMA StepRegistry ==
  ASSUME IInv, IInv', DuplicatesHaveTask, [Next]_vars
  PROVE  [Registry!Next]_(Registry!registry)
<1> USE NoneAssumption DEF Registry!registry
<1>0. /\ TypeOK /\ TypeOK' /\ DuplicatesHaveTask'
      /\ \A q \in Requests :
           step[q] = "duplicate" => step'[q] = "duplicate" /\ Holder(q)' = Holder(q)
      /\ Tasks \subseteq Tasks' /\ \A q \in Tasks : input'[q] = input[q]
  BY StepDuplicates DEF IInv
<1>1. \A q \in Requests : input[q] \in Input /\ input'[q] \in Input
  BY <1>0 DEF TypeOK
<1>2. CASE UNCHANGED <<step, input>>
  <2>1. Identities' = Identities /\ Tasks' = Tasks
    BY <1>2 DEF Identities, Tasks
  <2>2. Answers' = Answers
    BY <1>0, <1>2, <2>1 DEF Answers
  <2> QED BY <2>1, <2>2
<1>3. ASSUME NEW r \in Requests, Alone(r), step[r] \in Resolving,
             step'[r] \in Resolving \union {"submit", "rejected"}
      PROVE  [Registry!Next]_(Registry!registry)
  <2>1. Tasks' = Tasks /\ r \notin Tasks
    BY <1>3 DEF Alone, Tasks, Resolving
  <2>2. Answers' = Answers
    <3>1. \A q \in Requests : step'[q] = "duplicate" => step[q] = "duplicate"
      BY <1>3 DEF Alone, Resolving
    <3> QED BY <1>0, <2>1, <3>1 DEF Answers
  <2>3. Identities[r] = NoKey
    BY <1>3 DEF Identities, Resolving, Submitted
  <2>4. Identities' = [Identities EXCEPT ![r] = Identities'[r]]
    BY <1>3 DEF Identities, Alone
  <2>5. CASE Identities'[r] = NoKey
    BY <2>1, <2>2, <2>3, <2>4, <2>5 DEF Identities
  <2>6. CASE Identities'[r] # NoKey
    <3>1. Identities'[r] \in Keys
      BY <1>1, <2>6, KeysCompare DEF Identities
    <3>2. Registry!Ask(r, Identities'[r])
      BY <2>1, <2>2, <2>3, <2>4 DEF Registry!Ask
    <3> QED BY <3>1, <3>2 DEF Registry!Next
  <2> QED BY <2>5, <2>6
<1>4. ASSUME NEW r \in Requests, Submit(r) PROVE Registry!Next
  <2>1. /\ Alone(r) /\ input' = input /\ step[r] = "submit"
        /\ step'[r] \in {"duplicate", "queued"}
    BY <1>0, <1>4, TaskMoves DEF Submit, Goto, TypeOK
  <2>2. Identities' = Identities
    <3>1. \A q \in Requests : step[q] \in Submitted <=> step'[q] \in Submitted
      BY <2>1 DEF Alone, Submitted
    <3> QED BY <2>1, <3>1 DEF Identities
  <2>3. Identities[r] = KeyOf(input[r]) /\ \A q \in Tasks : Identities[q] = KeyOf(input[q])
    BY <2>1 DEF Identities, Submitted, Tasks
  <2>4. \A q \in Tasks : SameKey(input[q], input[r])
                           <=> Identities[r] \in Keys /\ Identities[q] = Identities[r]
    <3>1. ASSUME NEW q \in Tasks
          PROVE  SameKey(input[q], input[r])
                   <=> Identities[r] \in Keys /\ Identities[q] = Identities[r]
      <4>1. q \in Requests
        BY DEF Tasks
      <4> QED BY <1>1, <2>3, <4>1, KeysCompare
    <3> QED BY <3>1
  <2>5. Answers[r] = None
    BY <2>1 DEF Answers, Tasks
  <2>6. ASSUME NEW q \in Requests \ {r}
        PROVE  Answers'[q] = Answers[q]
    <3>1. /\ q \in Tasks' <=> q \in Tasks
          /\ step'[q] = "duplicate" <=> step[q] = "duplicate"
      BY <2>1 DEF Alone, Tasks
    <3> QED BY <1>0, <3>1 DEF Answers
  <2>7. Answers' = [Answers EXCEPT ![r] = Answers'[r]]
    BY <2>6 DEF Answers
  <2>8. CASE step'[r] = "queued"
    <3>1. Tasks' = Tasks \union {r} /\ r \notin Tasks
      BY <2>1, <2>8 DEF Alone, Tasks
    <3>2. \A q \in Tasks : ~ SameKey(input[q], input[r])
      BY <1>0, <1>4, <2>8 DEF Submit, Goto, TypeOK
    <3>3. Registry!Register(r)
      BY <2>4, <3>1, <3>2 DEF Registry!Register
    <3>4. Answers'[r] = r
      BY <3>1 DEF Answers
    <3>5. Registry!Tell(r, r)
      BY <2>2, <2>5, <2>7, <3>1, <3>4 DEF Registry!Tell
    <3> QED BY <3>3, <3>5 DEF Registry!Next
  <2>9. CASE step'[r] = "duplicate"
    <3> DEFINE q == Holder(r)'
    <3>1. Tasks' = Tasks /\ r \notin Tasks'
      BY <2>1, <2>9 DEF Alone, Tasks
    <3>2. q \in Tasks' /\ SameKey(input'[q], input'[r])
      BY <1>0, <2>9 DEF DuplicatesHaveTask, Holder
    <3>3. Answers'[r] = q
      BY <2>9, <3>1 DEF Answers
    <3> HIDE DEF q
    <3>4. q \in Tasks /\ Identities[r] \in Keys /\ Identities[q] = Identities[r]
      BY <2>1, <2>4, <3>1, <3>2
    <3>5. Registry!Tell(r, q)
      BY <2>2, <2>5, <2>7, <3>1, <3>3, <3>4 DEF Registry!Tell
    <3> QED BY <3>1, <3>4, <3>5 DEF Registry!Next
  <2> QED BY <2>1, <2>8, <2>9
<1>5. ASSUME NEW r \in Requests, Complete(r) \/ GiveUp(r)
      PROVE  UNCHANGED Registry!registry
  <2>1. /\ Alone(r) /\ input' = input /\ step[r] = "queued"
        /\ step'[r] \in {"done", "failed"}
    BY <1>0, <1>5, TaskMoves DEF Complete, GiveUp, Goto, TypeOK
  <2>2. Tasks' = Tasks
    BY <2>1 DEF Alone, Tasks
  <2>3. Identities' = Identities
    BY <2>1 DEF Alone, Identities, Submitted
  <2>4. Answers' = Answers
    <3>1. \A q \in Requests : step'[q] = "duplicate" <=> step[q] = "duplicate"
      BY <2>1 DEF Alone
    <3> QED BY <1>0, <2>2, <3>1 DEF Answers
  <2> QED BY <2>2, <2>3, <2>4
<1> QED BY <1>2, <1>3, <1>4, <1>5, StepKinds

(* The handlers, the worker and the market together implement the registry *)
(* that a submission is: whatever a request has resolved by the time it    *)
(* submits, one task per dedupe key comes of it for good, also when that   *)
(* task fails, and every later request of the key is told that task.       *)
THEOREM PipelineImplementsRegistry == Spec => Registry!Spec
<1>1. Init => Registry!Init /\ DuplicatesHaveTask
  BY DEF Init, Registry!Init, Identities, Answers, Tasks, Submitted, DuplicatesHaveTask
<1>2. IInv /\ IInv' /\ DuplicatesHaveTask /\ [Next]_vars
        => DuplicatesHaveTask' /\ [Registry!Next]_(Registry!registry)
  BY StepRegistry, StepDuplicates
<1> QED BY <1>1, <1>2, Invariant, PTL DEF Spec, Registry!Spec
=============================================================================

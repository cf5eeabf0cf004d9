-------------------------- MODULE MarketGatewayProofs --------------------------
(* Proofs about MarketGateway, for all reference data, all responses and   *)
(* any number of calls.                                                    *)
EXTENDS MarketGateway, FiniteSetTheorems, TLAPS

-----------------------------------------------------------------------------
(* Lemmas about the results of the providers and about the policy.         *)

(* A provider never reports a bad request: its error is its own.           *)
LEMMA TranslateBlamesProvider ==
  ASSUME NEW p, NEW o, NEW raw
  PROVE  /\ Translate(p, o, raw).ok \in BOOLEAN
         /\ Translate(p, o, raw).error # "validation"
<1>1. ASSUME NEW value
      PROVE  Delivered(value).ok = TRUE /\ Delivered(value).error = "none"
  BY DEF Delivered, Result
<1>2. Failed.ok = FALSE /\ Failed.error = "provider"
  BY DEF Failed, Result
<1> DEFINE Sound(r) == r.ok \in BOOLEAN /\ r.error # "validation"
<1>3. (\A value : Sound(Delivered(value))) /\ Sound(Failed)
  BY <1>1, <1>2
<1> HIDE DEF Sound
<1>4. ASSUME NEW offset
      PROVE  Sound(EnsureSuccess(raw, ParseRows(raw, offset)))
  BY <1>3, Zenon DEF EnsureSuccess, ParseRows
<1>5. ASSUME NEW stamps
      PROVE  Sound(EnsureSuccess(raw, ParseTick(raw, stamps)))
  BY <1>3, Zenon DEF EnsureSuccess, ParseTick, TickTime
<1>6. Sound(EastmoneyKlines(raw, Limit))
  BY <1>3, <1>4, Zenon DEF EastmoneyKlines
<1>7. ASSUME NEW end
      PROVE  Sound(TwelvedataKlines(raw, end))
  BY <1>3, <1>4, Zenon DEF TwelvedataKlines
<1>8. Sound(EastmoneyTick(raw)) /\ Sound(TwelvedataTick(raw))
  BY <1>5 DEF EastmoneyTick, TwelvedataTick
<1>9. Sound(Translate(p, o, raw))
  BY <1>6, <1>7, <1>8 DEF Translate
<1> QED BY <1>9 DEF Sound

(* Whoever the policy names is among the names, and there is at most one   *)
(* fallback.                                                               *)
LEMMA PolicyNames ==
  ASSUME world \in Worlds, HasPolicy, NEW o \in Operation
  PROVE  Primary(o) \in Names /\ Fallback(o) \subseteq Names /\ AtMostOne(Fallback(o))
<1>1. Policy \in Policies(world)
  BY DEF Policy, HasPolicy, Policies
<1>2. /\ Policy.kline_primary \in Names /\ Policy.tick_primary \in Names
      /\ Policy.kline_fallback \subseteq Names /\ Policy.tick_fallback \subseteq Names
  BY <1>1 DEF Names
<1>3. AtMostOne(Policy.kline_fallback) /\ AtMostOne(Policy.tick_fallback)
  BY <1>1, WorldsAssumption
<1>4. AtMostOne({})
  BY DEF AtMostOne
<1> QED BY <1>2, <1>3, <1>4 DEF Primary, Fallback, Operation

LEMMA AppendIs ==
  ASSUME NEW a, NEW b
  PROVE  Append(<<>>, a) = <<a>> /\ Append(<<a>>, b) = <<a, b>>
<1>1. /\ Append(<<>>, a) \in Seq({a, b}) /\ Len(Append(<<>>, a)) = 1
      /\ Append(<<>>, a)[1] = a
  <2>1. <<>> \in Seq({a, b}) /\ Len(<<>>) = 0
    OBVIOUS
  <2> QED BY <2>1
<1>2. /\ Append(<<a>>, b) \in Seq({a, b}) /\ Len(Append(<<a>>, b)) = 2
      /\ Append(<<a>>, b)[1] = a /\ Append(<<a>>, b)[2] = b
  <2>1. <<a>> \in Seq({a, b}) /\ Len(<<a>>) = 1 /\ <<a>>[1] = a
    OBVIOUS
  <2> QED BY <2>1
<1>3. Append(<<>>, a) = <<a>>
  <2>1. <<a>> \in Seq({a, b}) /\ Len(<<a>>) = 1 /\ <<a>>[1] = a
    OBVIOUS
  <2> QED BY <1>1, <2>1
<1>4. Append(<<a>>, b) = <<a, b>>
  <2>1. <<a, b>> \in Seq({a, b}) /\ Len(<<a, b>>) = 2 /\ <<a, b>>[1] = a /\ <<a, b>>[2] = b
    OBVIOUS
  <2>2. \A i \in 1..2 : Append(<<a>>, b)[i] = <<a, b>>[i]
    BY <1>2, <2>1
  <2>3. \A s, t \in Seq({a, b}) :
          Len(s) = Len(t) /\ (\A i \in 1..Len(s) : s[i] = t[i]) => s = t
    OBVIOUS
  <2> QED BY <1>2, <2>1, <2>2, <2>3, Zenon
<1> QED BY <1>3, <1>4

-----------------------------------------------------------------------------
(* What a call has done so far, told by its stage.                         *)
AskedPrimary(c) == asked[c] = <<Source(Primary(op[c]))>>

AskedBoth(c) ==
  \E f \in Fallback(op[c]) : asked[c] = <<Source(Primary(op[c])), Source(f)>>

HeardOne(c) == heard[c] = <<heard[c][1]>> /\ ~Suffices(op[c], heard[c][1])

(* The one that delivered is the last one asked.                           *)
Won(c) ==
  \/ /\ AskedPrimary(c)
     /\ heard[c] = <<answer[c].result>>
     /\ answer[c].provider = Primary(op[c])
  \/ \E f \in Fallback(op[c]) : \E first :
       /\ asked[c] = <<Source(Primary(op[c])), Source(f)>>
       /\ heard[c] = <<first, answer[c].result>>
       /\ ~Suffices(op[c], first)
       /\ answer[c].provider = f

(* Nobody delivered.                                                       *)
Lost(c) ==
  \/ asked[c] = <<>> /\ heard[c] = <<>> /\ ~Configured(op[c])
  \/ /\ AskedPrimary(c) /\ HeardOne(c)
     /\ Fallback(op[c]) = {} \/ ~Configured(op[c])
  \/ /\ AskedBoth(c)
     /\ \E first, second :
          /\ heard[c] = <<first, second>>
          /\ ~Suffices(op[c], first) /\ ~Suffices(op[c], second)

Progress(c) ==
  /\ answer[c] = [provider |-> answer[c].provider, result |-> answer[c].result]
  /\ stage[c] = "idle" => asked[c] = <<>> /\ heard[c] = <<>>
  /\ stage[c] # "idle" /\ ~(stage[c] = "done" /\ ~answer[c].result.ok) => HasPolicy
  /\ stage[c] = "primary" => AskedPrimary(c) /\ heard[c] = <<>>
  /\ stage[c] = "fallback" => AskedBoth(c) /\ HeardOne(c)
  /\ stage[c] \in {"ingested", "told"} => answer[c].result.ok /\ op[c] # "tick"
  /\ Answered(c) => IF answer[c].result.ok THEN Won(c) ELSE Lost(c)

(* A call tells of a fallback only if there was one.                       *)
Reported(c) == stage[c] = "told" => IsFallback(c)

IInv ==
  /\ TypeOK
  /\ \A c \in Callers : Progress(c) /\ Reported(c)
  /\ FallbackIsTold

-----------------------------------------------------------------------------
(* The result of the invariant for the policy.                             *)
LEMMA ProgressIsPolicy ==
  ASSUME TypeOK, \A c \in Callers : Progress(c)
  PROVE  ServedByPolicy
<1> SUFFICES ASSUME NEW c \in Callers
             PROVE  LET n == Len(asked[c])
                    IN  /\ n >= 1 => asked[c][1] = Source(Primary(op[c]))
                        /\ n = 2 => /\ asked[c][2].provider \in Fallback(op[c])
                                    /\ asked[c][2] = Source(asked[c][2].provider)
                                    /\ ~Suffices(op[c], heard[c][1])
                        /\ Answered(c) /\ answer[c].result.ok =>
                             /\ n >= 1
                             /\ answer[c] = [provider |-> asked[c][n].provider,
                                             result |-> heard[c][n]]
                        /\ Answered(c) /\ ~answer[c].result.ok /\ Configured(op[c]) =>
                             /\ \A p \in Named(op[c]) : \E i \in 1..n : asked[c][i].provider = p
                             /\ \A i \in 1..n : ~Suffices(op[c], heard[c][i])
  BY DEF ServedByPolicy
<1>0. Progress(c) /\ op[c] \in Operation
  BY DEF TypeOK
<1>1. \A p : Source(p).provider = p
  BY DEF Source
<1>2. CASE stage[c] = "idle"
  BY <1>0, <1>2 DEF Progress, Answered
<1>3. CASE stage[c] = "primary"
  BY <1>0, <1>3 DEF Progress, Answered, AskedPrimary
<1>4. CASE stage[c] = "fallback"
  BY <1>0, <1>1, <1>4 DEF Progress, Answered, AskedBoth, HeardOne
<1>5. CASE Answered(c) /\ answer[c].result.ok
  BY <1>0, <1>1, <1>5 DEF Progress, Won, AskedPrimary
<1>6. CASE Answered(c) /\ ~answer[c].result.ok
  <2>1. Lost(c)
    BY <1>0, <1>6 DEF Progress
  <2>2. CASE asked[c] = <<>> /\ heard[c] = <<>> /\ ~Configured(op[c])
    BY <1>6, <2>2
  <2>3. CASE AskedPrimary(c) /\ HeardOne(c) /\ (Fallback(op[c]) = {} \/ ~Configured(op[c]))
    BY <1>1, <1>6, <2>3 DEF AskedPrimary, HeardOne, Named
  <2>4. CASE AskedBoth(c) /\ \E first, second :
               /\ heard[c] = <<first, second>>
               /\ ~Suffices(op[c], first) /\ ~Suffices(op[c], second)
    <3>1. PICK f \in Fallback(op[c]) : asked[c] = <<Source(Primary(op[c])), Source(f)>>
      BY <2>4 DEF AskedBoth
    <3>2. Configured(op[c]) => Named(op[c]) = {Primary(op[c]), f}
      BY <1>0, <3>1, PolicyNames DEF Named, Configured, AtMostOne, TypeOK
    <3> QED BY <1>1, <1>6, <2>4, <3>1, <3>2
  <2> QED BY <2>1, <2>2, <2>3, <2>4 DEF Lost
<1> QED BY <1>0, <1>2, <1>3, <1>4, <1>5, <1>6 DEF TypeOK, Stage, Answered

-----------------------------------------------------------------------------
(* What is fixed during a behaviour.                                       *)
LEMMA SameWorld ==
  ASSUME UNCHANGED <<world, op>>
  PROVE  /\ HasPolicy' = HasPolicy
         /\ \A o : /\ Primary(o)' = Primary(o) /\ Fallback(o)' = Fallback(o)
                  /\ Configured(o)' = Configured(o)
         /\ \A p : Source(p)' = Source(p)
<1>1. HasPolicy' = HasPolicy
  BY DEF HasPolicy
<1>2. Policy' = Policy
  BY DEF Policy
<1>3. \A o : Primary(o)' = Primary(o) /\ Fallback(o)' = Fallback(o)
  BY <1>2 DEF Primary, Fallback
<1>4. \A p : Source(p)' = Source(p)
  BY DEF Source
<1>5. \A o : Configured(o)' = Configured(o)
  BY <1>1, <1>3 DEF Configured, HasBindings, Named
<1> QED BY <1>1, <1>3, <1>4, <1>5

Act(c) ==
  \/ Call(c)
  \/ \E raw \in Replies(op[c]) : PrimaryReplies(c, raw)
  \/ \E raw \in Replies(op[c]) : FallbackReplies(c, raw)
  \/ EmitIngested(c)
  \/ EmitFallback(c)

(* A step of one call changes nothing of another.                          *)
LEMMA StepFrame ==
  ASSUME TypeOK, NEW c \in Callers, Act(c)
  PROVE  /\ UNCHANGED <<world, op>>
         /\ \A d \in Callers \ {c} :
              /\ stage'[d] = stage[d] /\ asked'[d] = asked[d]
              /\ heard'[d] = heard[d] /\ answer'[d] = answer[d]
<1> USE DEF TypeOK, Goto, Answer, EndWith, Ask, Succeed
<1>1. CASE Call(c)
  BY <1>1 DEF Call
<1>2. ASSUME NEW raw, PrimaryReplies(c, raw)
      PROVE  /\ UNCHANGED <<world, op>>
             /\ \A d \in Callers \ {c} :
                  /\ stage'[d] = stage[d] /\ asked'[d] = asked[d]
                  /\ heard'[d] = heard[d] /\ answer'[d] = answer[d]
  BY <1>2 DEF PrimaryReplies
<1>3. ASSUME NEW raw, FallbackReplies(c, raw)
      PROVE  /\ UNCHANGED <<world, op>>
             /\ \A d \in Callers \ {c} :
                  /\ stage'[d] = stage[d] /\ asked'[d] = asked[d]
                  /\ heard'[d] = heard[d] /\ answer'[d] = answer[d]
  BY <1>3 DEF FallbackReplies
<1>4. CASE EmitIngested(c)
  BY <1>4 DEF EmitIngested, Emit
<1>5. CASE EmitFallback(c)
  BY <1>5 DEF EmitFallback, Emit
<1> QED BY <1>1, <1>2, <1>3, <1>4, <1>5 DEF Act

-----------------------------------------------------------------------------
(* One more event is heard once more, and no other is.                     *)
LEMMA EmitCounts ==
  ASSUME TypeOK, NEW event, Emit(event), NEW e
  PROVE  /\ Times(e) \in Nat
         /\ Times(e)' = Times(e) + IF e = event THEN 1 ELSE 0
<1> DEFINE n == Len(events) + 1
           At(x) == {i \in DOMAIN events : events[i] = x}
<1>1. /\ events \in Seq(Event) /\ Len(events) \in Nat
      /\ DOMAIN events = 1..Len(events)
  BY DEF TypeOK
<1>2. /\ DOMAIN events' = 1..n /\ events'[n] = event
      /\ \A i \in DOMAIN events : events'[i] = events[i]
  BY <1>1 DEF Emit
<1>3. DOMAIN events' = DOMAIN events \union {n} /\ n \notin DOMAIN events
  BY <1>1, <1>2
<1>4. {i \in DOMAIN events' : events'[i] = e} = At(e) \union IF e = event THEN {n} ELSE {}
  BY <1>2, <1>3
<1>5. IsFiniteSet(At(e)) /\ n \notin At(e)
  <2>1. IsFiniteSet(1..Len(events))
    BY <1>1, FS_Interval
  <2>2. At(e) \in SUBSET (1..Len(events))
    BY <1>1
  <2> QED BY <1>1, <1>3, <2>1, <2>2, FS_Subset
<1>6. Cardinality(At(e)) \in Nat
  BY <1>5, FS_CardinalityType
<1>7. Cardinality(At(e) \union {n}) = Cardinality(At(e)) + 1
  BY <1>5, FS_AddElement
<1>8. At(e) \union {} = At(e)
  OBVIOUS
<1> HIDE DEF At, n
<1>9. CASE e = event
  <2>1. {i \in DOMAIN events' : events'[i] = e} = At(e) \union {n}
    BY <1>4, <1>9
  <2> QED BY <1>6, <1>7, <1>9, <2>1 DEF Times, At
<1>10. CASE e # event
  <2>1. {i \in DOMAIN events' : events'[i] = e} = At(e)
    BY <1>4, <1>8, <1>10
  <2>2. Times(e)' = Times(e) /\ Times(e) \in Nat
    BY <1>6, <2>1 DEF Times, At
  <2> QED BY <1>10, <2>2
<1> QED BY <1>9, <1>10

(* One more call in a set of calls.                                        *)
LEMMA OneMoreCall ==
  ASSUME NEW S \in SUBSET Callers, NEW c \in Callers, c \notin S
  PROVE  Cardinality(S \union {c}) = Cardinality(S) + 1
BY CallersAssumption, FS_Subset, FS_AddElement

-----------------------------------------------------------------------------
(* Progress of a call that does not act.                                   *)
LEMMA ProgressFrame ==
  ASSUME NEW d \in Callers, Progress(d), UNCHANGED <<world, op>>,
         stage'[d] = stage[d], asked'[d] = asked[d],
         heard'[d] = heard[d], answer'[d] = answer[d]
  PROVE  Progress(d)'
<1>1. AskedPrimary(d)' = AskedPrimary(d) /\ AskedBoth(d)' = AskedBoth(d)
  BY SameWorld DEF AskedPrimary, AskedBoth
<1>2. HeardOne(d)' = HeardOne(d)
  BY DEF HeardOne, Suffices
<1>3. Won(d)' = Won(d)
  BY <1>1, SameWorld DEF Won, Suffices
<1>4. Lost(d)' = Lost(d)
  BY <1>1, <1>2, SameWorld DEF Lost, Suffices
<1>5. HasPolicy' = HasPolicy
  BY SameWorld
<1> QED BY <1>1, <1>2, <1>3, <1>4, <1>5 DEF Progress, Answered

(* An ended call that did not deliver.                                     *)
LEMMA LostIsProgress ==
  ASSUME NEW c \in Callers, stage[c] = "done", ~answer[c].result.ok, Lost(c),
         answer[c] = [provider |-> answer[c].provider, result |-> answer[c].result]
  PROVE  Progress(c)
BY DEF Progress, Answered

LEMMA CallProgress ==
  ASSUME TypeOK, NEW c \in Callers, Progress(c), Call(c)
  PROVE  Progress(c)'
<1> USE DEF TypeOK
<1>0. /\ stage[c] = "idle" /\ asked[c] = <<>> /\ heard'[c] = <<>>
      /\ UNCHANGED <<world, op>> /\ op[c] \in Operation
  BY DEF Call, Progress
<1>1. Invalid.ok = FALSE
  BY DEF Invalid, Result
<1>2. CASE HasPolicy /\ HasBindings(op[c]) /\ CanAsk(Primary(op[c]), op[c])
  <2>1. stage'[c] = "primary" /\ answer'[c] = answer[c]
    BY <1>2 DEF Call, Ask, Goto, Stage
  <2>2. asked'[c] = <<Source(Primary(op[c]))>>
    BY <1>0, <1>2, AppendIs DEF Call, Ask
  <2>3. AskedPrimary(c)' /\ HasPolicy'
    BY <1>0, <1>2, <2>2, SameWorld DEF AskedPrimary
  <2> QED BY <1>0, <2>1, <2>3 DEF Progress, Answered
<1>3. CASE ~(HasPolicy /\ HasBindings(op[c]) /\ CanAsk(Primary(op[c]), op[c]))
  <2>1. \E p : EndWith(c, p, Invalid)
    BY <1>3 DEF Call, Ask
  <2>2. /\ stage'[c] = "done" /\ asked'[c] = <<>>
        /\ answer'[c] = [provider |-> answer'[c].provider, result |-> Invalid]
    BY <1>0, <2>1 DEF EndWith, Goto, Answer
  <2>3. ~Configured(op[c])
    BY <1>3 DEF Configured, Named
  <2>4. Lost(c)'
    BY <1>0, <2>2, <2>3, SameWorld DEF Lost
  <2>5. answer'[c].result = Invalid
    BY <2>2
  <2> QED BY <1>1, <2>2, <2>4, <2>5 DEF Progress, Answered
<1> QED BY <1>2, <1>3

LEMMA PrimaryProgress ==
  ASSUME TypeOK, NEW c \in Callers, Progress(c), NEW raw, PrimaryReplies(c, raw)
  PROVE  Progress(c)'
<1> USE DEF TypeOK
<1> DEFINE P == Primary(op[c])
           r == Translate(P, op[c], raw)
<1>0. /\ stage[c] = "primary" /\ asked[c] = <<Source(P)>> /\ heard[c] = <<>>
      /\ UNCHANGED <<world, op>> /\ op[c] \in Operation /\ HasPolicy
  BY DEF PrimaryReplies, Progress, AskedPrimary
<1>1. heard'[c] = <<r>> /\ heard'[c][1] = r
  BY <1>0, AppendIs DEF PrimaryReplies
<1>2. r.ok \in BOOLEAN /\ r.error # "validation"
  BY TranslateBlamesProvider
<1>3. /\ HasPolicy' /\ Primary(op[c])' = P /\ Fallback(op[c])' = Fallback(op[c])
      /\ Configured(op[c])' = Configured(op[c]) /\ \A p : Source(p)' = Source(p)
  BY <1>0, SameWorld
<1>4. \A q : Suffices(op[c], q)' = Suffices(op[c], q)
  BY <1>0 DEF Suffices
<1>5. Invalid.ok = FALSE
  BY DEF Invalid, Result
<1>6. CASE Suffices(op[c], r) \/ (Fallback(op[c]) = {} /\ r.ok)
  <2>1. Succeed(c, P, r)
    BY <1>6 DEF PrimaryReplies
  <2>2. /\ stage'[c] = IF op[c] = "tick" THEN "done" ELSE "ingested"
        /\ answer'[c] = [provider |-> P, result |-> r] /\ asked'[c] = <<Source(P)>>
    BY <1>0, <2>1 DEF Succeed, Goto, Answer
  <2>3. answer'[c].result = r /\ answer'[c].provider = P
    BY <2>2
  <2>4. r.ok = TRUE
    BY <1>2, <1>6 DEF Suffices
  <2>5. Won(c)'
    BY <1>0, <1>1, <1>3, <2>2, <2>3 DEF Won, AskedPrimary
  <2> QED BY <1>0, <1>3, <2>2, <2>3, <2>4, <2>5 DEF Progress, Answered
<1>7. CASE ~Suffices(op[c], r) /\ Fallback(op[c]) = {} /\ ~r.ok
  <2>1. EndWith(c, P, r)
    BY <1>7 DEF PrimaryReplies
  <2>2. /\ stage'[c] = "done" /\ asked'[c] = <<Source(P)>>
        /\ answer'[c] = [provider |-> P, result |-> r]
    BY <1>0, <2>1 DEF EndWith, Goto, Answer
  <2>3. answer'[c].result = r /\ answer'[c].provider = P
    BY <2>2
  <2>4. Lost(c)'
    BY <1>1, <1>3, <1>4, <1>7, <2>2 DEF Lost, AskedPrimary, HeardOne
  <2> QED BY <1>7, <2>2, <2>3, <2>4 DEF Progress, Answered
<1>8. CASE ~Suffices(op[c], r) /\ Fallback(op[c]) # {}
  <2>1. PICK f \in Fallback(op[c]) : Ask(c, f, "fallback")
    BY <1>2, <1>8 DEF PrimaryReplies
  <2>2. HeardOne(c)'
    BY <1>1, <1>4, <1>8 DEF HeardOne
  <2>3. CASE CanAsk(f, op[c])
    <3>1. stage'[c] = "fallback" /\ answer'[c] = answer[c]
      BY <2>1, <2>3 DEF Ask, Goto
    <3>2. asked'[c] = <<Source(P), Source(f)>>
      BY <1>0, <2>1, <2>3, AppendIs DEF Ask
    <3>3. AskedBoth(c)'
      BY <1>3, <3>2 DEF AskedBoth
    <3> QED BY <1>3, <2>2, <3>1, <3>3 DEF Progress, Answered
  <2>4. CASE ~CanAsk(f, op[c])
    <3>1. EndWith(c, f, Invalid)
      BY <2>1, <2>4 DEF Ask
    <3>2. /\ stage'[c] = "done" /\ asked'[c] = <<Source(P)>>
          /\ answer'[c] = [provider |-> f, result |-> Invalid]
      BY <1>0, <3>1 DEF EndWith, Goto, Answer
    <3>3. answer'[c].result = Invalid /\ answer'[c].provider = f
      BY <3>2
    <3>4. ~Configured(op[c])
      BY <2>1, <2>4 DEF Configured, Named
    <3>5. Lost(c)'
      BY <1>3, <2>2, <3>2, <3>4 DEF Lost, AskedPrimary
    <3> QED BY <1>5, <3>2, <3>3, <3>5 DEF Progress, Answered
  <2> QED BY <2>3, <2>4
<1> QED BY <1>2, <1>6, <1>7, <1>8

LEMMA FallbackProgress ==
  ASSUME TypeOK, NEW c \in Callers, Progress(c), NEW raw, FallbackReplies(c, raw)
  PROVE  Progress(c)'
<1> USE DEF TypeOK
<1> DEFINE p == asked[c][2].provider
           r == Translate(p, op[c], raw)
<1>0. /\ stage[c] = "fallback" /\ AskedBoth(c) /\ HeardOne(c)
      /\ UNCHANGED <<world, op>> /\ HasPolicy
  BY DEF FallbackReplies, Progress
<1>1. PICK f \in Fallback(op[c]) : asked[c] = <<Source(Primary(op[c])), Source(f)>>
  BY <1>0 DEF AskedBoth
<1>2. p = f
  BY <1>1 DEF Source
<1>3. PICK first : heard[c] = <<first>> /\ ~Suffices(op[c], first)
  BY <1>0 DEF HeardOne
<1>4. heard'[c] = <<first, r>>
  BY <1>3, AppendIs DEF FallbackReplies
<1>5. r.ok \in BOOLEAN
  BY TranslateBlamesProvider
<1>6. /\ HasPolicy' /\ Primary(op[c])' = Primary(op[c])
      /\ Fallback(op[c])' = Fallback(op[c]) /\ \A q : Source(q)' = Source(q)
  BY <1>0, SameWorld
<1>7. \A q : Suffices(op[c], q)' = Suffices(op[c], q)
  BY <1>0 DEF Suffices
<1>8. CASE r.ok
  <2>1. Succeed(c, p, r)
    BY <1>8 DEF FallbackReplies
  <2>2. /\ stage'[c] = IF op[c] = "tick" THEN "done" ELSE "ingested"
        /\ answer'[c] = [provider |-> p, result |-> r] /\ asked'[c] = asked[c]
    BY <2>1 DEF Succeed, Goto, Answer
  <2>3. answer'[c].result = r /\ answer'[c].provider = f
    BY <1>2, <2>2
  <2>4. Won(c)'
    BY <1>1, <1>3, <1>4, <1>6, <1>7, <2>2, <2>3 DEF Won
  <2> QED BY <1>0, <1>6, <1>8, <2>2, <2>3, <2>4 DEF Progress, Answered
<1>9. CASE ~r.ok
  <2>1. EndWith(c, p, r)
    BY <1>9 DEF FallbackReplies
  <2>2. /\ stage'[c] = "done" /\ answer'[c] = [provider |-> p, result |-> r]
        /\ asked'[c] = asked[c]
    BY <2>1 DEF EndWith, Goto, Answer
  <2>3. answer'[c].result = r /\ answer'[c].provider = p
    BY <2>2
  <2>4. ~Suffices(op[c], r)
    BY <1>9 DEF Suffices
  <2>5. Lost(c)'
    BY <1>1, <1>3, <1>4, <1>6, <1>7, <2>2, <2>4 DEF Lost, AskedBoth
  <2> QED BY <1>9, <2>2, <2>3, <2>5 DEF Progress, Answered
<1> QED BY <1>8, <1>9

LEMMA EmitProgress ==
  ASSUME TypeOK, NEW c \in Callers, Progress(c), EmitIngested(c) \/ EmitFallback(c)
  PROVE  Progress(c)'
<1> USE DEF TypeOK
<1>1. /\ UNCHANGED <<world, op>>
      /\ asked'[c] = asked[c] /\ heard'[c] = heard[c] /\ answer'[c] = answer[c]
      /\ stage[c] \in {"ingested", "told"} /\ stage'[c] \in {"told", "done"}
  BY DEF EmitIngested, EmitFallback, Goto, Stage
<1>2. answer[c].result.ok /\ op[c] # "tick" /\ HasPolicy /\ Won(c)
  BY <1>1 DEF Progress, Answered
<1>3. Won(c)'
  BY <1>1, <1>2, SameWorld DEF Won, AskedPrimary, Suffices
<1>4. HasPolicy'
  BY <1>1, <1>2, SameWorld
<1> QED BY <1>1, <1>2, <1>3, <1>4 DEF Progress, Answered

-----------------------------------------------------------------------------
(* Types.                                                                  *)
LEMMA AskTypes ==
  ASSUME TypeOK, NEW c \in Callers, NEW p \in Names, NEW result,
         NEW s \in {"primary", "fallback"},
         Ask(c, p, s) \/ EndWith(c, p, result) \/ Succeed(c, p, result),
         UNCHANGED <<world, op, events>>, DOMAIN heard' = Callers
  PROVE  TypeOK'
<1> USE DEF TypeOK, Goto, Answer, Stage
<1>1. ASSUME NEW r, EndWith(c, p, r)
      PROVE  TypeOK'
  BY <1>1 DEF EndWith
<1>2. ASSUME Succeed(c, p, result)
      PROVE  TypeOK'
  BY <1>2 DEF Succeed
<1>3. ASSUME Ask(c, p, s), CanAsk(p, op[c])
      PROVE  TypeOK'
  BY <1>3 DEF Ask
<1> QED BY <1>1, <1>2, <1>3 DEF Ask

LEMMA TypeInvariant == TypeOK /\ (\A c \in Callers : Progress(c)) /\ [Next]_vars => TypeOK'
<1> SUFFICES ASSUME TypeOK, \A c \in Callers : Progress(c), [Next]_vars
             PROVE  TypeOK'
  OBVIOUS
<1> USE DEF TypeOK, Goto, Answer, EndWith, Ask, Succeed, Stage
<1>0. "none" \in Names
  BY DEF Names
<1>1. CASE UNCHANGED vars
  BY <1>1 DEF vars
<1>2. ASSUME NEW c \in Callers, Call(c)
      PROVE  TypeOK'
  <2>1. UNCHANGED <<world, op, events>> /\ DOMAIN heard' = Callers
    BY <1>2 DEF Call
  <2>2. CASE HasPolicy /\ HasBindings(op[c])
    <3>1. Primary(op[c]) \in Names
      BY <2>2, PolicyNames
    <3>2. Ask(c, Primary(op[c]), "primary")
      BY <1>2, <2>2 DEF Call
    <3> QED BY <2>1, <3>1, <3>2, AskTypes
  <2>3. CASE ~(HasPolicy /\ HasBindings(op[c]))
    <3>1. EndWith(c, "none", Invalid)
      BY <1>2, <2>3 DEF Call
    <3> QED BY <1>0, <2>1, <3>1, AskTypes
  <2> QED BY <2>2, <2>3
<1>3. ASSUME NEW c \in Callers, NEW raw, PrimaryReplies(c, raw)
      PROVE  TypeOK'
  <2>1. HasPolicy
    BY <1>3 DEF Progress, PrimaryReplies
  <2>2. Primary(op[c]) \in Names /\ Fallback(op[c]) \subseteq Names
    BY <2>1, PolicyNames
  <2>3. UNCHANGED <<world, op, events>> /\ DOMAIN heard' = Callers
    BY <1>3 DEF PrimaryReplies
  <2>4. PICK p, result :
          /\ p \in Names
          /\ Ask(c, p, "fallback") \/ EndWith(c, p, result) \/ Succeed(c, p, result)
    BY <1>3, <2>2 DEF PrimaryReplies
  <2> QED BY <2>3, <2>4, AskTypes
<1>4. ASSUME NEW c \in Callers, NEW raw, FallbackReplies(c, raw)
      PROVE  TypeOK'
  <2>1. HasPolicy /\ AskedBoth(c)
    BY <1>4 DEF Progress, FallbackReplies
  <2>2. Fallback(op[c]) \subseteq Names
    BY <2>1, PolicyNames
  <2>3. asked[c][2].provider \in Names
    BY <2>1, <2>2 DEF AskedBoth, Source
  <2>4. UNCHANGED <<world, op, events>> /\ DOMAIN heard' = Callers
    BY <1>4 DEF FallbackReplies
  <2>5. PICK p, result :
          /\ p \in Names
          /\ EndWith(c, p, result) \/ Succeed(c, p, result)
    BY <1>4, <2>3 DEF FallbackReplies
  <2> QED BY <2>4, <2>5, AskTypes
<1>5. ASSUME NEW c \in Callers, EmitIngested(c)
      PROVE  TypeOK'
  <2>1. KlineIngested(answer[c].provider) \in Event
    BY DEF Event
  <2> QED BY <1>5, <2>1 DEF EmitIngested, Emit
<1>6. ASSUME NEW c \in Callers, EmitFallback(c)
      PROVE  TypeOK'
  <2>1. HasPolicy
    BY <1>6 DEF Progress, EmitFallback
  <2>2. Primary(op[c]) \in Names
    BY <2>1, PolicyNames
  <2>3. ProviderFallback(Primary(op[c]), answer[c].provider) \in Event
    BY <2>2 DEF Event
  <2> QED BY <1>6, <2>3 DEF EmitFallback, Emit
<1> QED BY <1>1, <1>2, <1>3, <1>4, <1>5, <1>6 DEF Next

-----------------------------------------------------------------------------
(* The events and the calls they are about.                                *)

(* Who was asked last, and who before, of a call that delivered.           *)
LEMMA WonIs ==
  ASSUME NEW c \in Callers, Won(c)
  PROVE  /\ asked[c][Len(asked[c])].provider = answer[c].provider
         /\ \A p, f : p # f =>
              (Asked(c, p, f) <=> /\ IsFallback(c)
                                  /\ p = Primary(op[c]) /\ f = answer[c].provider)
<1>1. \A p : Source(p).provider = p
  BY DEF Source
<1>2. CASE AskedPrimary(c) /\ answer[c].provider = Primary(op[c])
  <2>1. Len(asked[c]) = 1 /\ asked[c][1] = Source(Primary(op[c]))
    BY <1>2 DEF AskedPrimary
  <2> QED BY <1>1, <1>2, <2>1 DEF Asked, IsFallback
<1>3. ASSUME NEW f \in Fallback(op[c]), answer[c].provider = f,
             asked[c] = <<Source(Primary(op[c])), Source(f)>>
      PROVE  /\ asked[c][Len(asked[c])].provider = answer[c].provider
             /\ \A p, g : p # g =>
                  (Asked(c, p, g) <=> /\ IsFallback(c)
                                      /\ p = Primary(op[c]) /\ g = answer[c].provider)
  <2>1. /\ Len(asked[c]) = 2 /\ asked[c][1] = Source(Primary(op[c]))
        /\ asked[c][2] = Source(f)
    BY <1>3
  <2> QED BY <1>1, <1>3, <2>1 DEF Asked, IsFallback
<1> QED BY <1>2, <1>3 DEF Won

(* A call that neither sends an event nor has sent one is in no set.       *)
LEMMA SilentStep ==
  ASSUME TypeOK, NEW c \in Callers, Act(c), UNCHANGED events
  PROVE  /\ stage[c] \in {"idle", "primary", "fallback"}
         /\ stage'[c] # "told" /\ ~DeliversBars(c)'
<1> USE DEF TypeOK
<1>1. stage[c] \in {"idle", "primary", "fallback"}
  BY DEF Act, Call, PrimaryReplies, FallbackReplies, EmitIngested, EmitFallback, Emit
<1>2. op' = op
  BY StepFrame
<1>3. /\ stage'[c] # "told"
      /\ stage'[c] = "done" => op[c] = "tick" \/ ~answer'[c].result.ok
  <2> USE DEF Goto, Answer, EndWith, Ask, Succeed
  <2>1. CASE Call(c)
    BY <2>1 DEF Call, Invalid, Result
  <2>2. ASSUME NEW raw, PrimaryReplies(c, raw)
        PROVE  /\ stage'[c] # "told"
               /\ stage'[c] = "done" => op[c] = "tick" \/ ~answer'[c].result.ok
    BY <2>2, TranslateBlamesProvider DEF PrimaryReplies, Invalid, Result, Suffices
  <2>3. ASSUME NEW raw, FallbackReplies(c, raw)
        PROVE  /\ stage'[c] # "told"
               /\ stage'[c] = "done" => op[c] = "tick" \/ ~answer'[c].result.ok
    BY <2>3 DEF FallbackReplies
  <2> QED BY <1>1, <2>1, <2>2, <2>3 DEF Act, EmitIngested, EmitFallback
<1> QED BY <1>1, <1>2, <1>3 DEF DeliversBars

(* A call that does not act stays in its sets.                             *)
LEMMA OthersStay ==
  ASSUME NEW d \in Callers, UNCHANGED <<world, op>>,
         stage'[d] = stage[d], asked'[d] = asked[d], answer'[d] = answer[d]
  PROVE  /\ DeliversBars(d)' = DeliversBars(d)
         /\ \A p, f : Asked(d, p, f)' = Asked(d, p, f)
         /\ Reported(d)' = Reported(d)
<1>1. Primary(op[d])' = Primary(op[d])
  BY SameWorld
<1> QED BY <1>1 DEF DeliversBars, Asked, Reported, IsFallback

LEMMA ReportStep ==
  ASSUME TypeOK, NEW c \in Callers, Act(c),
         \A d \in Callers : Progress(d) /\ Reported(d), FallbackIsTold
  PROVE  (\A d \in Callers : Reported(d)') /\ FallbackIsTold'
<1>0. /\ UNCHANGED <<world, op>>
      /\ \A d \in Callers \ {c} :
           /\ stage'[d] = stage[d] /\ asked'[d] = asked[d] /\ answer'[d] = answer[d]
  BY StepFrame
<1>1. \A d \in Callers \ {c} : /\ DeliversBars(d)' = DeliversBars(d)
                               /\ \A p, f : Asked(d, p, f)' = Asked(d, p, f)
                               /\ Reported(d)' = Reported(d)
  BY <1>0, OthersStay
<1>2. CASE UNCHANGED events
  <2>1. ~DeliversBars(c) /\ ~DeliversBars(c)' /\ Reported(c)'
    BY <1>2, SilentStep DEF DeliversBars, Reported
  <2>2. ASSUME NEW p, NEW f
        PROVE  /\ ServedBy(f)' = ServedBy(f) /\ Switched(p, f)' = Switched(p, f)
               /\ \A e : Times(e)' = Times(e)
    <3>1. \A e : Times(e)' = Times(e)
      BY <1>2 DEF Times
    <3>2. ServedBy(f)' = ServedBy(f)
      BY <1>0, <1>1, <2>1 DEF ServedBy
    <3>3. Switched(p, f)' = Switched(p, f)
      BY <1>0, <1>1, <2>1 DEF Switched
    <3> QED BY <3>1, <3>2, <3>3
  <2>3. FallbackIsTold'
    BY <2>2 DEF FallbackIsTold, Names
  <2> QED BY <1>1, <2>1, <2>3
<1>3. CASE EmitIngested(c)
  <2> DEFINE a == answer[c].provider
  <2>1. /\ stage[c] = "ingested" /\ Emit(KlineIngested(a))
        /\ asked' = asked /\ answer' = answer
        /\ stage'[c] = IF IsFallback(c) THEN "told" ELSE "done"
    BY <1>3 DEF EmitIngested, Goto, TypeOK
  <2>2. answer[c].result.ok /\ op[c] # "tick" /\ Won(c)
    BY <2>1 DEF Progress, Answered
  <2>3. ~DeliversBars(c) /\ DeliversBars(c)'
    BY <1>0, <2>1, <2>2 DEF DeliversBars
  <2>4. asked[c][Len(asked[c])].provider = a
    BY <2>2, WonIs
  <2>5. Reported(c)'
    BY <1>0, <2>1, SameWorld DEF Reported, IsFallback
  <2>6. ASSUME NEW f \in Names
        PROVE  Times(KlineIngested(f))' = Cardinality(ServedBy(f))'
    <3>1. Times(KlineIngested(f)) = Cardinality(ServedBy(f))
      BY DEF FallbackIsTold
    <3>2. CASE f = a
      <4>1. ServedBy(f)' = ServedBy(f) \union {c} /\ c \notin ServedBy(f)
        BY <1>0, <1>1, <2>1, <2>3, <2>4, <3>2 DEF ServedBy
      <4>2. Cardinality(ServedBy(f) \union {c}) = Cardinality(ServedBy(f)) + 1
        BY <4>1, OneMoreCall DEF ServedBy
      <4>3. Times(KlineIngested(f))' = Times(KlineIngested(f)) + 1
        BY <2>1, <3>2, EmitCounts
      <4> QED BY <3>1, <4>1, <4>2, <4>3
    <3>3. CASE f # a
      <4>1. ServedBy(f)' = ServedBy(f)
        BY <1>0, <1>1, <2>1, <2>3, <2>4, <3>3 DEF ServedBy
      <4>2. KlineIngested(f) # KlineIngested(a)
        BY <3>3 DEF KlineIngested
      <4>3. /\ Times(KlineIngested(f)) \in Nat
            /\ Times(KlineIngested(f))' = Times(KlineIngested(f)) + 0
        BY <2>1, <4>2, EmitCounts
      <4> QED BY <3>1, <4>1, <4>3
    <3> QED BY <3>2, <3>3
  <2>7. ASSUME NEW p \in Names, NEW f \in Names, p # f
        PROVE  Times(ProviderFallback(p, f))' = Cardinality(Switched(p, f))'
    <3>1. ~(stage'[c] = "done" /\ Asked(c, p, f)')
      <4>1. Asked(c, p, f)' = Asked(c, p, f)
        BY <2>1 DEF Asked
      <4> QED BY <2>1, <2>2, <2>7, <4>1, WonIs
    <3>2. Switched(p, f)' = Switched(p, f)
      BY <1>0, <1>1, <2>3, <3>1 DEF Switched
    <3>3. ProviderFallback(p, f) # KlineIngested(a)
      <4>1. ProviderFallback(p, f).type # KlineIngested(a).type
        BY DEF ProviderFallback, KlineIngested
      <4> QED BY <4>1
    <3>4. /\ Times(ProviderFallback(p, f)) \in Nat
          /\ Times(ProviderFallback(p, f))' = Times(ProviderFallback(p, f)) + 0
      BY <2>1, <3>3, EmitCounts
    <3>5. Times(ProviderFallback(p, f)) = Cardinality(Switched(p, f))
      BY <2>7 DEF FallbackIsTold
    <3> QED BY <3>2, <3>4, <3>5
  <2>8. FallbackIsTold'
    BY <1>0, <2>6, <2>7 DEF FallbackIsTold, Names
  <2> QED BY <1>1, <2>5, <2>8
<1>4. CASE EmitFallback(c)
  <2> DEFINE a == answer[c].provider
             q == Primary(op[c])
  <2>1. /\ stage[c] = "told" /\ Emit(ProviderFallback(q, a))
        /\ asked' = asked /\ answer' = answer /\ stage'[c] = "done"
    BY <1>4 DEF EmitFallback, Goto, TypeOK
  <2>2. answer[c].result.ok /\ op[c] # "tick" /\ Won(c) /\ IsFallback(c)
    BY <2>1 DEF Progress, Answered, Reported
  <2>3. DeliversBars(c) /\ DeliversBars(c)'
    BY <1>0, <2>1, <2>2 DEF DeliversBars
  <2>4. Reported(c)'
    BY <2>1 DEF Reported
  <2>5. ASSUME NEW f \in Names
        PROVE  Times(KlineIngested(f))' = Cardinality(ServedBy(f))'
    <3>1. ServedBy(f)' = ServedBy(f)
      BY <1>0, <1>1, <2>1, <2>3 DEF ServedBy
    <3>2. KlineIngested(f) # ProviderFallback(q, a)
      <4>1. KlineIngested(f).type # ProviderFallback(q, a).type
        BY DEF ProviderFallback, KlineIngested
      <4> QED BY <4>1
    <3>3. /\ Times(KlineIngested(f)) \in Nat
          /\ Times(KlineIngested(f))' = Times(KlineIngested(f)) + 0
      BY <2>1, <3>2, EmitCounts
    <3>4. Times(KlineIngested(f)) = Cardinality(ServedBy(f))
      BY DEF FallbackIsTold
    <3> QED BY <3>1, <3>3, <3>4
  <2>6. ASSUME NEW p \in Names, NEW f \in Names, p # f
        PROVE  Times(ProviderFallback(p, f))' = Cardinality(Switched(p, f))'
    <3>1. Times(ProviderFallback(p, f)) = Cardinality(Switched(p, f))
      BY <2>6 DEF FallbackIsTold
    <3>2. Asked(c, p, f)' = Asked(c, p, f) /\ (Asked(c, p, f) <=> p = q /\ f = a)
      <4>1. Asked(c, p, f)' = Asked(c, p, f)
        BY <2>1 DEF Asked
      <4> QED BY <2>2, <2>6, <4>1, WonIs
    <3>3. CASE p = q /\ f = a
      <4>1. Switched(p, f)' = Switched(p, f) \union {c} /\ c \notin Switched(p, f)
        BY <1>0, <1>1, <2>1, <2>3, <3>2, <3>3 DEF Switched
      <4>2. Cardinality(Switched(p, f) \union {c}) = Cardinality(Switched(p, f)) + 1
        BY <4>1, OneMoreCall DEF Switched
      <4>3. Times(ProviderFallback(p, f))' = Times(ProviderFallback(p, f)) + 1
        BY <2>1, <3>3, EmitCounts
      <4> QED BY <3>1, <4>1, <4>2, <4>3
    <3>4. CASE ~(p = q /\ f = a)
      <4>1. Switched(p, f)' = Switched(p, f)
        BY <1>0, <1>1, <2>1, <3>2, <3>4 DEF Switched
      <4>2. ProviderFallback(p, f) # ProviderFallback(q, a)
        BY <3>4 DEF ProviderFallback
      <4>3. /\ Times(ProviderFallback(p, f)) \in Nat
            /\ Times(ProviderFallback(p, f))' = Times(ProviderFallback(p, f)) + 0
        BY <2>1, <4>2, EmitCounts
      <4> QED BY <3>1, <4>1, <4>3
    <3> QED BY <3>3, <3>4
  <2>7. FallbackIsTold'
    BY <1>0, <2>5, <2>6 DEF FallbackIsTold, Names
  <2> QED BY <1>1, <2>4, <2>7
<1> QED BY <1>2, <1>3, <1>4 DEF Act, Call, PrimaryReplies, FallbackReplies

-----------------------------------------------------------------------------
LEMMA InitIInv == Init => IInv
<1> SUFFICES ASSUME Init
             PROVE  IInv
  OBVIOUS
<1>1. TypeOK
  BY DEF Init, TypeOK, Stage, Names
<1>2. ASSUME NEW c \in Callers
      PROVE  Progress(c)
  BY DEF Init, Progress, Answered
<1>3. ASSUME NEW c \in Callers
      PROVE  Reported(c)
  BY DEF Init, Reported
<1>4. FallbackIsTold
  <2>1. ASSUME NEW p, NEW f
        PROVE  ServedBy(f) = {} /\ Switched(p, f) = {}
    BY DEF Init, ServedBy, Switched, DeliversBars
  <2>2. ASSUME NEW e
        PROVE  {i \in DOMAIN events : events[i] = e} = {}
    <3>1. events = <<>>
      BY DEF Init
    <3>2. DOMAIN <<>> = {}
      OBVIOUS
    <3> QED BY <3>1, <3>2
  <2> QED BY <2>1, <2>2 DEF FallbackIsTold, Times
<1> QED BY <1>1, <1>2, <1>3, <1>4 DEF IInv

LEMMA NextIInv == IInv /\ [Next]_vars => IInv'
<1> SUFFICES ASSUME IInv, [Next]_vars
             PROVE  IInv'
  OBVIOUS
<1>1. TypeOK /\ (\A c \in Callers : Progress(c) /\ Reported(c))
  BY DEF IInv
<1>2. FallbackIsTold
  BY DEF IInv
<1>3. TypeOK'
  BY <1>1, TypeInvariant
<1>4. CASE UNCHANGED vars
  <2>1. ASSUME NEW d \in Callers
        PROVE  Progress(d)' /\ Reported(d)'
    BY <1>1, <1>4, ProgressFrame, OthersStay DEF vars
  <2>2. ASSUME NEW p, NEW f
        PROVE  /\ ServedBy(f)' = ServedBy(f) /\ Switched(p, f)' = Switched(p, f)
               /\ \A e : Times(e)' = Times(e)
    BY <1>4 DEF vars, ServedBy, Switched, DeliversBars, Asked, Times
  <2>3. FallbackIsTold'
    BY <1>2, <2>2 DEF FallbackIsTold, Names
  <2> QED BY <1>3, <2>1, <2>3 DEF IInv
<1>5. ASSUME NEW c \in Callers, Act(c)
      PROVE  IInv'
  <2>1. Progress(c)'
    BY <1>1, <1>5, CallProgress, PrimaryProgress, FallbackProgress, EmitProgress DEF Act
  <2>2. ASSUME NEW d \in Callers \ {c}
        PROVE  Progress(d)'
    BY <1>1, <1>5, StepFrame, ProgressFrame
  <2>3. (\A d \in Callers : Reported(d)') /\ FallbackIsTold'
    BY <1>1, <1>2, <1>5, ReportStep
  <2> QED BY <1>3, <2>1, <2>2, <2>3 DEF IInv
<1> QED BY <1>4, <1>5 DEF Next, Act

THEOREM IInvTheorem == Spec => []IInv
BY InitIInv, NextIInv, PTL DEF Spec

(* Who answers a call is what the policy in force says, and a complete     *)
(* configuration is never given up on before everyone was asked.           *)
THEOREM PolicyTheorem == Spec => []ServedByPolicy
<1>1. IInv => ServedByPolicy
  BY ProgressIsPolicy DEF IInv
<1> QED BY <1>1, IInvTheorem, PTL

(* For any finite number of calls, the events name a provider as often as  *)
(* it delivered bars, and two as often as the second stood in for the      *)
(* first, however the calls interleave.                                    *)
THEOREM FallbackTheorem == Spec => []FallbackIsTold
<1>1. IInv => FallbackIsTold
  BY DEF IInv
<1> QED BY <1>1, IInvTheorem, PTL
=============================================================================

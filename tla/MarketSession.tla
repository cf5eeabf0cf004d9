---------------------------- MODULE MarketSession ----------------------------
(***************************************************************************)
(* The trading calendar of pa-market (MarketSessionProfile): which bars a  *)
(* market has, and into which buckets of a larger timeframe they go.       *)
(*                                                                         *)
(* Times are minutes since some Monday 00:00, in UTC for the continuous    *)
(* and the fx market and in China time (a fixed offset in the code) for    *)
(* cn_a.  An argument outside the sessions, for which the code returns an  *)
(* error, has no bucket here: every caller filters with Accepts or asks    *)
(* MarketOpen first.                                                       *)
(***************************************************************************)
EXTENDS Integers

Kind == {"continuous", "cn_a", "fx"}
Timeframe == {"M15", "H1", "D1"}
Duration == [M15 |-> 15, H1 |-> 60, D1 |-> 1440]

Minute(t) == t % 1440
DayStart(t) == t - Minute(t)
Weekday(t) == (t % 10080) \div 1440       \* Monday is 0

(* Open from Sunday 22:00 to Friday 22:00.                                 *)
FxOpen(t) ==
  CASE Weekday(t) = 5 -> FALSE
    [] Weekday(t) = 6 -> Minute(t) >= 1320
    [] Weekday(t) = 4 -> Minute(t) < 1320
    [] OTHER -> TRUE

InCnMorning(t) == 570 <= Minute(t) /\ Minute(t) < 690
InCnAfternoon(t) == 780 <= Minute(t) /\ Minute(t) < 900

(* The day is not interrupted by lunch for a daily bar.                    *)
CnOpen(tf, t) ==
  IF tf = "D1" THEN 570 <= Minute(t) /\ Minute(t) < 900
  ELSE InCnMorning(t) \/ InCnAfternoon(t)

MarketOpen(k, tf, t) ==
  CASE k = "continuous" -> TRUE
    [] k = "fx" -> FxOpen(t)
    [] k = "cn_a" -> CnOpen(tf, t)

CnHours == {570, 630, 780, 840}

AcceptsCn(tf, t) ==
  CASE tf = "M15" -> t % 15 = 0 /\ CnOpen("M15", t)
    [] tf = "H1" -> Minute(t) \in CnHours
    [] tf = "D1" -> Minute(t) = 570

AcceptsFx(tf, t) ==
  /\ FxOpen(t)
  /\ CASE tf = "M15" -> t % 15 = 0
       [] tf = "H1" -> t % 60 = 0
       [] tf = "D1" -> Minute(t) = 1320

(* Whether a bar of the timeframe may open at t.                           *)
Accepts(k, tf, t) ==
  CASE k = "continuous" -> TRUE
    [] k = "fx" -> AcceptsFx(tf, t)
    [] k = "cn_a" -> AcceptsCn(tf, t)

ContinuousOpen(tf, t) == t - (t % Duration[tf])

FxBucketOpen(tf, t) ==
  IF tf = "D1" THEN DayStart(t - 1320) + 1320 ELSE ContinuousOpen(tf, t)

CnHourOf(m) ==
  CASE m < 630 -> 570
    [] 630 <= m /\ m < 690 -> 630
    [] 780 <= m /\ m < 840 -> 780
    [] 840 <= m -> 840

CnBucketOpen(tf, t) ==
  CASE tf = "M15" -> t - (t % 15)
    [] tf = "H1" -> DayStart(t) + CnHourOf(Minute(t))
    [] tf = "D1" -> DayStart(t) + 570

(* The bucket of timeframe tf that holds time t, named by its open time.   *)
BucketOpen(k, tf, t) ==
  CASE k = "continuous" -> ContinuousOpen(tf, t)
    [] k = "fx" -> FxBucketOpen(tf, t)
    [] k = "cn_a" -> CnBucketOpen(tf, t)

BucketClose(k, tf, b) ==
  IF k = "cn_a" /\ tf = "D1" THEN DayStart(b) + 900 ELSE b + Duration[tf]

(* How many M15 bars a bucket of the timeframe takes.                      *)
ChildCount(k, tf) ==
  CASE tf = "M15" -> 1
    [] tf = "H1" -> 4
    [] tf = "D1" -> IF k = "cn_a" THEN 16 ELSE 96

CnDayOpens(b) ==
  {DayStart(b) + m : m \in {570 + 15 * i : i \in 0..7} \union {780 + 15 * i : i \in 0..7}}

(* When the M15 bars of bucket b open.                                     *)
ExpectedOpens(k, tf, b) ==
  IF k = "cn_a" /\ tf = "D1" THEN CnDayOpens(b)
  ELSE {b + 15 * i : i \in 0..(ChildCount(k, tf) - 1)}
=============================================================================

---------------------------- MODULE MarketProviders ----------------------------
(***************************************************************************)
(* What the two market data providers make of an HTTP response             *)
(* (eastmoney.rs and twelvedata.rs of pa-market).  Operators only.         *)
(*                                                                         *)
(* A response is unreachable (no body), unreadable (not the JSON that the  *)
(* provider documents), refused (a status or code that is not success),    *)
(* without data, or has rows or a tick.  Times are in units of fifteen     *)
(* minutes; a result is a sequence of open times, or of one tick's time.   *)
(***************************************************************************)
EXTENDS Integers, Sequences

Registered == {"eastmoney", "twelvedata"}

Result(ok, error, value) == [ok |-> ok, error |-> error, value |-> value]
Delivered(value) == Result(TRUE, "none", value)
Failed == Result(FALSE, "provider", <<>>)
Invalid == Result(FALSE, "validation", <<>>)

(* Eastmoney writes Peking time.                                           *)
PekingOffset == 32

IsRead(raw) == raw.kind \in {"rows", "tick"}

(* Mutant: a refusal is reported as a bad request of the caller.           *)
EnsureSuccess_Validation(raw, result) == IF raw.kind = "refused" THEN Invalid ELSE result

(* A refusal is an error of the provider.                                  *)
EnsureSuccess(raw, result) == IF raw.kind = "refused" THEN Failed ELSE result

(* One row that does not parse fails the whole response.                   *)
ParseRows(raw, offset) ==
  IF ~IsRead(raw) THEN Failed
  ELSE IF \E i \in DOMAIN raw.rows : ~raw.rows[i].good THEN Failed
  ELSE Delivered([i \in DOMAIN raw.rows |-> raw.rows[i].time - offset])

(* The newest `limit` bars.                                                *)
Newest(opens, limit) ==
  SubSeq(opens, IF Len(opens) > limit THEN Len(opens) - limit + 1 ELSE 1, Len(opens))

EastmoneyKlines(raw, limit) ==
  LET parsed == EnsureSuccess(raw, ParseRows(raw, PekingOffset))
  IN  IF parsed.ok THEN Delivered(Newest(parsed.value, limit)) ELSE parsed

(* Twelvedata limits the number itself, and is asked for a window by its   *)
(* ends; bars that close after the end are dropped.                        *)
TwelvedataKlines(raw, end) ==
  LET parsed == EnsureSuccess(raw, ParseRows(raw, 0))
      Ends(open) == \A e \in end : open + 1 <= e
  IN  IF parsed.ok THEN Delivered(SelectSeq(parsed.value, Ends)) ELSE parsed

(* The first timestamp that is present is the time of the tick, whether or *)
(* not it can be read.                                                     *)
TickTime(stamps) ==
  LET present == {i \in DOMAIN stamps : stamps[i].is # "absent"}
      first == CHOOSE i \in present : \A j \in present : i <= j
  IN  IF present = {} THEN Failed
      ELSE IF stamps[first].is = "bad" THEN Failed
      ELSE Delivered(<<stamps[first].time>>)

ParseTick(raw, stamps) ==
  IF IsRead(raw) /\ raw.good_price THEN TickTime(stamps) ELSE Failed

EastmoneyTick(raw) == EnsureSuccess(raw, ParseTick(raw, <<raw.timestamp>>))

TwelvedataTick(raw) ==
  EnsureSuccess(raw, ParseTick(raw, <<raw.last_quote_at, raw.timestamp, raw.datetime>>))
=============================================================================

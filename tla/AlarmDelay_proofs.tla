-------------------------- MODULE AlarmDelay_proofs --------------------------
(***************************************************************************)
(* Proofs about a controller with alarm and warning delay over software     *)
(* timers, for every length of the timers' parts, every set of delays,      *)
(* every number of other timers and of what is done to them: first what     *)
(* each step of a call and of the interrupt keeps of one timer, then the    *)
(* queue, then the controller.                                              *)
(***************************************************************************)
EXTENDS AlarmDelay, SequenceTheorems, FiniteSetTheorems, TLAPS

-----------------------------------------------------------------------------
(* What is known of a timer r, of the call o on it, of its age a and of     *)
(* whether it was cut (c), depends on how far the call is: which members    *)
(* are written for the new period.                                          *)
ToCome(r) == r.count[r.unit]
Remainder(r) == IF r.value % Chunk = 0 THEN ZeroPeriod ELSE r.value % Chunk
Whole(r) == Duration(r) + Extra(r)

(* What the clock still has to do until the timeout.                        *)
Left(r) ==
  IF Single(r) THEN r.left
  ELSE ToCome(r) * Part(r) + (IF r.unit = "MS" /\ ~r.last THEN Remainder(r) ELSE 0) + r.left

Sets(o) == o.at \notin {"done", "started"}
Cuts(o) == o.at \in {"last", "period", "test", "go"}
CountIsWritten(o) == o.at \in {"last", "period", "test", "go", "started", "done"}
LastIsWritten(o) == o.at \in {"period", "test", "go", "started", "done"}
PeriodIsWritten(r, o) ==
  \/ o.at \in {"test", "go", "started", "done"}
  \/ o.at = "count" /\ o.call = "retrigger" /\ r.unit # "MS"

OpFits(r, o) ==
  /\ o.at \in {"unit", "value", "test"} => o.call = "set"
  /\ o.at \in {"count", "last", "period", "go"} => o.call \in {"set", "retrigger"}
  /\ o.at = "last" => r.unit = "MS"
  /\ o.at = "period" /\ o.call = "retrigger" => r.unit = "MS"

CountFits(r, o, c) ==
  CountIsWritten(o) =>
    /\ ~Single(r) => ToCome(r) \in 0 .. Full(r)
    /\ Single(r) => ToCome(r) = 0 \/ (ToCome(r) = Unset /\ ~Cuts(o))
    /\ Cuts(o) /\ ~c => ToCome(r) = Full(r)

LastFits(r, o, c) ==
  LastIsWritten(o) /\ r.unit = "MS" =>
    /\ Single(r) => r.last
    /\ ~Single(r) /\ r.last => ToCome(r) = 0
    /\ ~Single(r) /\ Cuts(o) /\ ~c => ~r.last

PeriodFits(r, o) ==
  PeriodIsWritten(r, o) =>
    \/ r.period = Part(r)
    \/ r.unit = "MS" /\ ~Single(r) /\ r.last /\ r.period = r.value % Chunk

AgeFits(r, o, a, c) ==
  /\ Sets(o) => a = -1
  /\ a >= 0 /\ r.os # "expired" => a + Left(r) <= Whole(r) /\ (~c => a + Left(r) = Whole(r))

Fits(r, o, a, c) ==
  /\ OpFits(r, o) /\ CountFits(r, o, c) /\ LastFits(r, o, c) /\ PeriodFits(r, o)
  /\ AgeFits(r, o, a, c)
  /\ r.os = "stopped" => r.left > 0

TimerInv ==
  /\ TimerTypeOK
  /\ \A t \in Timer : Fits(timer[t], op[t], age[t], cut[t])
  /\ NoTimeoutWaits

NotDue(r) == r.os = "running" => r.left > 0

-----------------------------------------------------------------------------
LEMMA Lengths ==
  /\ Chunk \in Nat \ {0} /\ Second \in Nat \ {0} /\ HalfMinute \in Nat \ {0}
  /\ ZeroPeriod \in Nat \ {0} /\ Unset \notin Nat
  BY SwTimerAssumption

(* The period is cut into parts, a remainder, and nothing else.             *)
LEMMA Parts ==
  ASSUME NEW v \in Nat, v > Chunk
  PROVE  /\ v \div Chunk - 1 \in Nat /\ v % Chunk \in Nat /\ v % Chunk < Chunk
         /\ (v \div Chunk - 1) * Chunk + Chunk + (v % Chunk) = v
<1>1. Chunk \in Nat \ {0}
  BY SwTimerAssumption
<1>2. v \div Chunk \in Nat /\ v % Chunk \in 0 .. Chunk - 1
  BY <1>1
<1>3. v = (v \div Chunk) * Chunk + (v % Chunk)
  BY <1>1
<1>4. v \div Chunk >= 1
  BY <1>1, <1>2, <1>3
<1> DEFINE q == v \div Chunk  m == v % Chunk
<1>5. q \in Nat /\ q >= 1 /\ m \in Nat /\ m < Chunk /\ v = q * Chunk + m
  BY <1>1, <1>2, <1>3, <1>4
<1> HIDE DEF q, m
<1>6. (q - 1) * Chunk + Chunk = q * Chunk
  BY <1>1, <1>5
<1>7. q - 1 \in Nat /\ (q - 1) * Chunk \in Nat
  BY <1>1, <1>5
<1>8. (q - 1) * Chunk + Chunk + m = v
  BY <1>1, <1>5, <1>6, <1>7
<1> QED
  BY <1>5, <1>7, <1>8 DEF q, m

(* The members the length of the period depends on.                         *)
LEMMA SameUnit ==
  ASSUME NEW r, NEW x, x.unit = r.unit, x.value = r.value
  PROVE  /\ Single(x) = Single(r) /\ Full(x) = Full(r) /\ Part(x) = Part(r) /\ Whole(x) = Whole(r)
         /\ Remainder(x) = Remainder(r)
  BY DEF Single, Full, Part, Whole, Duration, Extra, EndsWithZero, Remainder

LEMMA PeriodTypes ==
  ASSUME NEW r \in TimerType
  PROVE  /\ Single(r) \in BOOLEAN /\ Full(r) \in Nat /\ Part(r) \in Nat \ {0} /\ Whole(r) \in Nat
         /\ Remainder(r) \in Nat \ {0} /\ r.value % Chunk \in Nat
         /\ Single(r) => Whole(r) = Part(r) /\ Full(r) = 0 /\ r.unit = "MS"
<1>1. r.value \in Nat \ {0} /\ r.unit \in Unit
  BY DEF TimerType
<1>2. r.value > Chunk => r.value \div Chunk - 1 \in Nat
  BY <1>1, Parts
<1>3. Single(r) <=> r.unit = "MS" /\ ~(r.value > Chunk)
  BY <1>1, Lengths DEF Single
<1>4. r.value % Chunk \in Nat
  BY <1>1, Lengths
<1>5. Full(r) \in Nat /\ Part(r) \in Nat \ {0} /\ (Single(r) => Full(r) = 0)
  BY <1>1, <1>2, <1>3, Lengths DEF Full, Part, Unit
<1>6. Extra(r) \in Nat /\ (Single(r) => Extra(r) = 0)
  BY <1>3, Lengths DEF Extra, EndsWithZero
<1>7. Duration(r) \in Nat /\ (Single(r) => Duration(r) = Part(r))
  BY <1>1, <1>3, Lengths DEF Duration, Part, Unit
<1>8. Remainder(r) \in Nat \ {0}
  BY <1>4, Lengths DEF Remainder
<1>9. Single(r) \in BOOLEAN
  BY DEF Single
<1> QED
  BY <1>3, <1>4, <1>5, <1>6, <1>7, <1>8, <1>9 DEF Whole

(* All parts together are the whole period.                                 *)
LEMMA AllParts ==
  ASSUME NEW r \in TimerType, ~Single(r)
  PROVE  Whole(r) = Full(r) * Part(r) + (IF r.unit = "MS" THEN Remainder(r) ELSE 0) + Part(r)
<1>1. r.value \in Nat \ {0} /\ r.unit \in Unit
  BY DEF TimerType
<1>2. CASE r.unit = "MS"
  <2>1. r.value > Chunk
    BY <1>1, <1>2, Lengths DEF Single
  <2> DEFINE c == r.value \div Chunk - 1  m == r.value % Chunk
  <2>2. c \in Nat /\ m \in Nat /\ c * Chunk + Chunk + m = r.value
    BY <1>1, <2>1, Parts
  <2>3. Full(r) = c /\ Part(r) = Chunk
    BY <1>2 DEF Full, Part
  <2>4. Whole(r) = r.value + (IF m = 0 THEN ZeroPeriod ELSE 0)
        /\ Remainder(r) = IF m = 0 THEN ZeroPeriod ELSE m
    BY <1>2, <2>1 DEF Whole, Duration, Extra, EndsWithZero, Remainder
  <2> HIDE DEF c, m
  <2>5. c * Chunk \in Nat
    BY Lengths, <2>2
  <2> QED
    BY <1>1, <1>2, Lengths, <2>2, <2>3, <2>4, <2>5
<1>3. CASE r.unit = "S"
  <2>1. (r.value - 1) * Second + Second = Second * r.value
    BY <1>1, Lengths
  <2>2. (r.value - 1) * Second \in Nat /\ Second * r.value \in Nat
    BY <1>1, Lengths
  <2> QED
    BY <1>3, <2>1, <2>2, Lengths DEF Whole, Duration, Extra, EndsWithZero, Full, Part
<1>4. CASE r.unit = "MINUTE"
  <2> DEFINE n == 2 * r.value
  <2>1. n \in Nat \ {0}
    BY <1>1
  <2>2. /\ Whole(r) = HalfMinute * n + 0 /\ Full(r) = n - 1 /\ Part(r) = HalfMinute
    BY <1>4 DEF Whole, Duration, Extra, EndsWithZero, Full, Part
  <2> HIDE DEF n
  <2>3. (n - 1) * HalfMinute + HalfMinute = HalfMinute * n
    BY Lengths, <2>1
  <2>4. (n - 1) * HalfMinute \in Nat /\ HalfMinute * n \in Nat
    BY Lengths, <2>1
  <2> QED
    BY <1>4, <2>2, <2>3, <2>4, Lengths
<1> QED
  BY <1>1, <1>2, <1>3, <1>4 DEF Unit

LEMMA LeftType ==
  ASSUME NEW r \in TimerType, ~Single(r) => ToCome(r) \in Nat
  PROVE  Left(r) \in Nat
<1>1. Part(r) \in Nat /\ Remainder(r) \in Nat /\ r.left \in Nat /\ Single(r) \in BOOLEAN
  BY PeriodTypes DEF TimerType
<1>2. ~Single(r) => ToCome(r) * Part(r) \in Nat
  BY <1>1
<1> QED
  BY <1>1, <1>2 DEF Left

(* A member that no part depends on.                                        *)
LEMMA SameParts ==
  ASSUME NEW r, NEW x, NEW o, NEW c, x.unit = r.unit, x.value = r.value, x.count = r.count,
         x.last = r.last, x.period = r.period
  PROVE  /\ OpFits(x, o) = OpFits(r, o) /\ CountFits(x, o, c) = CountFits(r, o, c)
         /\ LastFits(x, o, c) = LastFits(r, o, c) /\ PeriodFits(x, o) = PeriodFits(r, o)
         /\ x.left = r.left => Left(x) = Left(r)
         /\ Whole(x) = Whole(r)
<1>1. /\ Single(x) = Single(r) /\ Full(x) = Full(r) /\ Part(x) = Part(r) /\ Whole(x) = Whole(r)
      /\ Remainder(x) = Remainder(r) /\ ToCome(x) = ToCome(r)
  BY SameUnit DEF ToCome
<1>2. OpFits(x, o) = OpFits(r, o)
  BY DEF OpFits
<1>3. CountFits(x, o, c) = CountFits(r, o, c)
  BY <1>1 DEF CountFits
<1>4. LastFits(x, o, c) = LastFits(r, o, c)
  BY <1>1 DEF LastFits
<1>5. PeriodFits(x, o) = PeriodFits(r, o)
  BY <1>1 DEF PeriodFits, PeriodIsWritten
<1>6. x.left = r.left => Left(x) = Left(r)
  BY <1>1 DEF Left
<1> QED
  BY <1>1, <1>2, <1>3, <1>4, <1>5, <1>6

(* A timer that is set going with what the call has written.                *)
LEMMA GoesWhole ==
  ASSUME NEW r \in TimerType, NEW o, NEW c \in BOOLEAN,
         o.at = "go", CountFits(r, o, c), LastFits(r, o, c), PeriodFits(r, o)
  PROVE  LET x == Retriggered(r)
         IN  Left(x) \in Nat /\ Left(x) <= Whole(r) /\ (~c => Left(x) = Whole(r))
<1> DEFINE x == Retriggered(r)  p == IF r.period = 0 THEN ZeroPeriod ELSE r.period
<1>1. /\ x.unit = r.unit /\ x.value = r.value /\ x.count = r.count /\ x.last = r.last
      /\ x.left = p
  BY DEF Retriggered, TimerType
<1>2. /\ Single(r) \in BOOLEAN /\ Full(r) \in Nat /\ Part(r) \in Nat \ {0} /\ Whole(r) \in Nat
      /\ Remainder(r) \in Nat \ {0} /\ r.value % Chunk \in Nat
      /\ Single(r) => Whole(r) = Part(r) /\ Full(r) = 0 /\ r.unit = "MS"
  BY PeriodTypes
<1>3. /\ Single(x) = Single(r) /\ Part(x) = Part(r) /\ Remainder(x) = Remainder(r) /\ ToCome(x) = ToCome(r)
  BY <1>1, SameUnit DEF ToCome
<1>4. Left(x) = IF Single(r) THEN p
                ELSE ToCome(r) * Part(r) + (IF r.unit = "MS" /\ ~r.last THEN Remainder(r) ELSE 0) + p
  BY <1>1, <1>3 DEF Left
<1>5. r.last \in BOOLEAN /\ r.unit \in Unit /\ r.value \in Nat
  BY DEF TimerType
<1> SUFFICES Left(x) \in Nat /\ Left(x) <= Whole(r) /\ (~c => Left(x) = Whole(r))
  OBVIOUS
<1> HIDE DEF x
<1>6. CASE Single(r)
  <2>1. r.period = Part(r)
    BY <1>6 DEF PeriodFits, PeriodIsWritten
  <2> QED
    BY <1>2, <1>4, <1>6, <2>1
<1>7. CASE ~Single(r) /\ r.period = Part(r) /\ ~(r.unit = "MS" /\ r.last)
  <2> DEFINE n == ToCome(r)  f == Full(r)  q == Part(r)  m == IF r.unit = "MS" THEN Remainder(r) ELSE 0
  <2>1. n \in 0 .. f /\ (~c => n = f) /\ f \in Nat /\ q \in Nat \ {0} /\ m \in Nat
    BY <1>2, <1>7 DEF CountFits, CountIsWritten, Cuts
  <2>2. Whole(r) = f * q + m + q
    BY <1>7, AllParts
  <2>3. Left(x) = n * q + m + q
    BY <1>2, <1>4, <1>5, <1>7
  <2> HIDE DEF n, f, q, m
  <2>4. n * q \in Nat /\ f * q \in Nat /\ n * q <= f * q
    <3>1. n * q \in Nat /\ f * q \in Nat /\ (f - n) * q \in Nat
      BY <2>1
    <3>2. f * q = n * q + (f - n) * q
      BY <2>1
    <3> QED
      BY <3>1, <3>2
  <2> QED
    BY <2>1, <2>2, <2>3, <2>4
<1>8. CASE ~Single(r) /\ r.unit = "MS" /\ r.last
  <2>1. ToCome(r) = 0 /\ c /\ Left(x) = 0 * Part(r) + 0 + p
    BY <1>4, <1>8 DEF LastFits, LastIsWritten, Cuts
  <2>2. r.period = Part(r) \/ r.period = r.value % Chunk
    BY <1>8 DEF PeriodFits, PeriodIsWritten
  <2>3. Whole(r) = Full(r) * Part(r) + Remainder(r) + Part(r) /\ Full(r) * Part(r) \in Nat
    BY <1>2, <1>8, AllParts
  <2>4. p \in Nat /\ p <= Whole(r)
    <3>1. CASE r.period = Part(r)
      BY <1>2, <2>3, <3>1
    <3>2. CASE r.period = r.value % Chunk
      <4>1. p = Remainder(r)
        BY <3>2 DEF Remainder
      <4> QED
        BY <1>2, <2>3, <4>1
    <3> QED
      BY <2>2, <3>1, <3>2
  <2> QED
    BY <1>2, <2>1, <2>4
<1> QED
  BY <1>5, <1>6, <1>7, <1>8 DEF PeriodFits, PeriodIsWritten

-----------------------------------------------------------------------------
(* What a step of a call, or of the interrupt, does to one timer.           *)

(* Nothing of the old period is of interest until the new counter is written. *)
LEMMA EarlyFits ==
  ASSUME NEW r, NEW o, NEW c, o.at \in {"unit", "value", "count"}, o.call = "set",
         r.os = "stopped" => r.left > 0
  PROVE  Fits(r, o, -1, c)
  BY DEF Fits, OpFits, CountFits, CountIsWritten, LastFits, LastIsWritten, PeriodFits, PeriodIsWritten,
     AgeFits, Sets

LEMMA KeepFits ==
  ASSUME NEW r, NEW x, NEW o, NEW a, NEW c, Fits(r, o, a, c), x.unit = r.unit, x.value = r.value,
         x.count = r.count, x.last = r.last, x.period = r.period, x.left = r.left,
         r.os = "expired" => x.os = "expired", x.os = "stopped" => x.left > 0
  PROVE  Fits(x, o, a, c)
<1>1. /\ OpFits(x, o) = OpFits(r, o) /\ CountFits(x, o, c) = CountFits(r, o, c)
      /\ LastFits(x, o, c) = LastFits(r, o, c) /\ PeriodFits(x, o) = PeriodFits(r, o)
      /\ Left(x) = Left(r) /\ Whole(x) = Whole(r)
  BY SameParts
<1>2. AgeFits(x, o, a, c)
  BY <1>1 DEF AgeFits, Fits
<1> QED
  BY <1>1, <1>2 DEF Fits

(* Outside of the calls that set it, a timer is as the last one left it.    *)
LEMMA RestFits ==
  ASSUME NEW r, NEW o, NEW q, NEW a, NEW c, Fits(r, o, a, c),
         o.at \in {"test", "started", "done"}, q.at \in {"started", "done"}
  PROVE  Fits(r, q, a, c)
  BY DEF Fits, OpFits, CountFits, CountIsWritten, LastFits, LastIsWritten, PeriodFits, PeriodIsWritten,
     AgeFits, Sets, Cuts

LEMMA RetriggerFits ==
  ASSUME NEW r, NEW o, NEW q, NEW a, NEW c, Fits(r, o, a, c),
         o.at = "done", q.at = "count", q.call = "retrigger"
  PROVE  Fits(r, q, -1, c)
  BY DEF Fits, OpFits, CountFits, CountIsWritten, LastFits, LastIsWritten, PeriodFits, PeriodIsWritten,
     AgeFits, Sets

LEMMA TestFits ==
  ASSUME NEW r, NEW o, NEW q, NEW a, NEW c, Fits(r, o, a, c),
         o.at = "test", q.at = "go", q.call = o.call
  PROVE  Fits(r, q, a, c)
  BY DEF Fits, OpFits, CountFits, CountIsWritten, LastFits, LastIsWritten, PeriodFits, PeriodIsWritten,
     AgeFits, Sets, Cuts

LEMMA CountType ==
  ASSUME NEW r \in TimerType, NEW n \in Nat \cup {Unset}
  PROVE  LET x == [r EXCEPT !.count[r.unit] = n]
         IN  /\ x \in TimerType /\ ToCome(x) = n /\ x.unit = r.unit /\ x.value = r.value
             /\ x.auto = r.auto /\ x.started = r.started /\ x.last = r.last /\ x.period = r.period
             /\ x.os = r.os /\ x.left = r.left
<1> DEFINE k == [r.count EXCEPT ![r.unit] = n]  x == [r EXCEPT !.count = k]
<1>1. r.unit \in Unit /\ r.count \in [Unit -> Nat \cup {Unset}]
  BY DEF TimerType
<1>2. k \in [Unit -> Nat \cup {Unset}] /\ k[r.unit] = n
  BY <1>1
<1> HIDE DEF k
<1>3. /\ x \in TimerType /\ x.count = k /\ x.unit = r.unit /\ x.value = r.value
      /\ x.auto = r.auto /\ x.started = r.started /\ x.last = r.last /\ x.period = r.period
      /\ x.os = r.os /\ x.left = r.left
  BY <1>2 DEF TimerType
<1>4. x = [r EXCEPT !.count[r.unit] = n]
  BY DEF k, TimerType
<1> QED
  BY <1>2, <1>3, <1>4 DEF ToCome

LEMMA RetriggeredType ==
  ASSUME NEW r \in TimerType
  PROVE  LET x == Retriggered(r)
         IN  /\ x \in TimerType /\ x.unit = r.unit /\ x.value = r.value /\ x.count = r.count
             /\ x.auto = r.auto /\ x.started = r.started /\ x.last = r.last /\ x.period = r.period
             /\ x.os = "running" /\ x.left = (IF r.period = 0 THEN ZeroPeriod ELSE r.period) /\ x.left > 0
<1> DEFINE p == IF r.period = 0 THEN ZeroPeriod ELSE r.period
           x == [r EXCEPT !.os = "running", !.left = p]
<1>1. p \in Nat \ {0}
  BY Lengths DEF TimerType
<1> HIDE DEF p
<1>2. /\ x \in TimerType /\ x.unit = r.unit /\ x.value = r.value /\ x.count = r.count
      /\ x.auto = r.auto /\ x.started = r.started /\ x.last = r.last /\ x.period = r.period
      /\ x.os = "running" /\ x.left = p
  BY <1>1 DEF TimerType
<1>3. x.left > 0
  BY <1>1, <1>2
<1>4. Retriggered(r) = x
  BY DEF Retriggered, p
<1> QED
  BY <1>2, <1>3, <1>4, Zenon DEF p

CountLoaded(r) == [r EXCEPT !.count[r.unit] = Full(r)]
AfterCount(r, o) == IF r.unit = "MS" THEN "last" ELSE IF o.call = "set" THEN "period" ELSE "go"

LEMMA CountStepFits ==
  ASSUME NEW r \in TimerType, NEW x \in TimerType, NEW o, NEW q, NEW c, Fits(r, o, -1, c), o.at = "count",
         x = CountLoaded(r), q.at = AfterCount(r, o), q.call = o.call
  PROVE  Fits(x, q, -1, FALSE)
<1>1. Full(r) \in Nat \cup {Unset} /\ Full(r) \in Nat /\ (Single(r) => Full(r) = 0 /\ r.unit = "MS")
  BY PeriodTypes
<1>2. /\ ToCome(x) = Full(r) /\ x.unit = r.unit /\ x.value = r.value
      /\ x.period = r.period /\ x.os = r.os /\ x.left = r.left
  BY <1>1, CountType DEF CountLoaded
<1>3. q.at = IF r.unit = "MS" THEN "last" ELSE IF o.call = "set" THEN "period" ELSE "go"
  BY DEF AfterCount
<1>4. Single(x) = Single(r) /\ Full(x) = Full(r) /\ Part(x) = Part(r)
  BY <1>2, SameUnit
<1>5. o.call \in {"set", "retrigger"}
  BY DEF Fits, OpFits
<1>6. OpFits(x, q)
  BY <1>2, <1>3, <1>5 DEF OpFits
<1>7. CountFits(x, q, FALSE)
  BY <1>1, <1>2, <1>3, <1>4 DEF CountFits
<1>8. LastFits(x, q, FALSE)
  BY <1>2, <1>3 DEF LastFits, LastIsWritten
<1>9. PeriodFits(x, q)
  <2>1. CASE q.at = "go"
    <3>1. r.unit # "MS" /\ o.call = "retrigger"
      BY <1>3, <1>5, <2>1
    <3> QED
      BY <1>2, <1>4, <3>1 DEF Fits, PeriodFits, PeriodIsWritten
  <2>2. CASE q.at # "go"
    BY <1>3, <2>2 DEF PeriodFits, PeriodIsWritten
  <2> QED
    BY <2>1, <2>2
<1>10. AgeFits(x, q, -1, FALSE)
  BY <1>3 DEF AgeFits
<1> QED
  BY <1>2, <1>6, <1>7, <1>8, <1>9, <1>10 DEF Fits

LEMMA LastStepFits ==
  ASSUME NEW r \in TimerType, NEW x \in TimerType, NEW o, NEW q, NEW c \in BOOLEAN, Fits(r, o, -1, c),
         o.at = "last", x = [r EXCEPT !.last = Single(r)], q.at = "period", q.call = o.call
  PROVE  Fits(x, q, -1, c)
<1>1. /\ x.last = Single(r) /\ x.unit = r.unit /\ x.value = r.value /\ x.count = r.count
      /\ x.period = r.period /\ x.os = r.os /\ x.left = r.left
  BY DEF TimerType
<1>2. Single(x) = Single(r) /\ Full(x) = Full(r) /\ Part(x) = Part(r) /\ ToCome(x) = ToCome(r)
  BY <1>1, SameUnit DEF ToCome
<1>3. OpFits(x, q)
  BY <1>1 DEF Fits, OpFits
<1>4. CountFits(x, q, c)
  BY <1>2 DEF Fits, CountFits, CountIsWritten, Cuts
<1>5. LastFits(x, q, c)
  BY <1>1, <1>2 DEF LastFits
<1>6. PeriodFits(x, q)
  BY DEF PeriodFits, PeriodIsWritten
<1>7. AgeFits(x, q, -1, c)
  BY DEF AgeFits
<1> QED
  BY <1>1, <1>3, <1>4, <1>5, <1>6, <1>7 DEF Fits

LEMMA PeriodStepFits ==
  ASSUME NEW r \in TimerType, NEW x \in TimerType, NEW o, NEW q, NEW c \in BOOLEAN, Fits(r, o, -1, c),
         o.at = "period", x = [r EXCEPT !.period = Part(r)],
         q.at = IF o.call = "set" THEN "test" ELSE "go", q.call = o.call
  PROVE  Fits(x, q, -1, c)
<1>1. /\ x.period = Part(r) /\ x.unit = r.unit /\ x.value = r.value /\ x.count = r.count
      /\ x.last = r.last /\ x.os = r.os /\ x.left = r.left
  BY DEF TimerType
<1>2. Single(x) = Single(r) /\ Full(x) = Full(r) /\ Part(x) = Part(r) /\ ToCome(x) = ToCome(r)
  BY <1>1, SameUnit DEF ToCome
<1>3. OpFits(x, q)
  BY DEF Fits, OpFits
<1>4. CountFits(x, q, c)
  BY <1>2 DEF Fits, CountFits, CountIsWritten, Cuts
<1>5. LastFits(x, q, c)
  BY <1>1, <1>2 DEF Fits, LastFits, LastIsWritten, Cuts
<1>6. PeriodFits(x, q)
  BY <1>1, <1>2 DEF PeriodFits
<1>7. AgeFits(x, q, -1, c)
  BY DEF AgeFits
<1> QED
  BY <1>1, <1>3, <1>4, <1>5, <1>6, <1>7 DEF Fits

(* The call sets the timer going.                                           *)
LEMMA GoFits ==
  ASSUME NEW r \in TimerType, NEW o, NEW q, NEW c \in BOOLEAN, NEW a, Fits(r, o, a, c),
         o.at = "go", q.at \in {"started", "done"}
  PROVE  Fits(Retriggered(r), q, 0, c)
<1> DEFINE x == Retriggered(r)
<1>1. /\ x.unit = r.unit /\ x.value = r.value /\ x.count = r.count /\ x.last = r.last
      /\ x.period = r.period /\ x.os = "running"
  BY RetriggeredType
<1>2. Left(x) \in Nat /\ Left(x) <= Whole(r) /\ (~c => Left(x) = Whole(r))
  BY GoesWhole DEF Fits
<1> HIDE DEF x
<1>3. /\ CountFits(x, o, c) /\ LastFits(x, o, c) /\ PeriodFits(x, o) /\ Whole(x) = Whole(r)
  BY <1>1, SameParts DEF Fits
<1>4. OpFits(x, q) /\ CountFits(x, q, c) /\ LastFits(x, q, c) /\ PeriodFits(x, q)
  BY <1>3 DEF OpFits, CountFits, CountIsWritten, LastFits, LastIsWritten, PeriodFits, PeriodIsWritten, Cuts
<1>5. AgeFits(x, q, 0, c)
  BY <1>2, <1>3 DEF AgeFits, Sets
<1>6. Fits(x, q, 0, c)
  BY <1>1, <1>4, <1>5 DEF Fits
<1> QED
  BY <1>6 DEF x

(* The interrupt goes on to the next part: the count is one less, and the   *)
(* time left the same.                                                      *)
NextBegun(r) ==
  Retriggered(IF ToCome(r) = Unset THEN r ELSE [r EXCEPT !.count[r.unit] = @ - 1])

LEMMA NextPartFits ==
  ASSUME NEW r \in TimerType, NEW x, NEW o, NEW a \in Nat \cup {-1}, NEW c \in BOOLEAN, Fits(r, o, a, c),
         NEW d \in BOOLEAN, ~d => ~c /\ ~Cuts(o), r.os = "running", r.left = 0, ~Single(r), ToCome(r) # 0,
         x = NextBegun(r)
  PROVE  x \in TimerType /\ x.os = "running" /\ x.left > 0 /\ Fits(x, o, a, d)
<1> DEFINE n == IF ToCome(r) = Unset THEN Unset ELSE ToCome(r) - 1
           y == [r EXCEPT !.count[r.unit] = n]
<1>1. ToCome(r) \in Nat \cup {Unset} /\ ToCome(r) # 0 /\ n \in Nat \cup {Unset}
  BY DEF TimerType, ToCome
<1>2. x = Retriggered(y)
  <2>1. CASE ToCome(r) = Unset
    BY <2>1 DEF TimerType, ToCome, NextBegun
  <2>2. CASE ToCome(r) # Unset
    BY <2>2 DEF ToCome, NextBegun
  <2> QED
    BY <2>1, <2>2
<1>3. /\ y \in TimerType /\ ToCome(y) = n /\ y.unit = r.unit /\ y.value = r.value
      /\ y.last = r.last /\ y.period = r.period
  BY <1>1, CountType
<1> HIDE DEF y
<1>4. /\ x \in TimerType /\ ToCome(x) = n /\ x.unit = r.unit /\ x.value = r.value
      /\ x.last = r.last /\ x.period = r.period /\ x.os = "running" /\ x.left > 0
      /\ x.left = (IF r.period = 0 THEN ZeroPeriod ELSE r.period)
  BY <1>2, <1>3, RetriggeredType DEF ToCome
<1> HIDE DEF n
<1>5. /\ ~Single(x) /\ Full(x) = Full(r) /\ Part(x) = Part(r) /\ Whole(x) = Whole(r)
      /\ Remainder(x) = Remainder(r)
  BY <1>4, SameUnit
<1>6. CountIsWritten(o) => /\ ToCome(r) \in 1 .. Full(r) /\ n = ToCome(r) - 1 /\ n \in 0 .. Full(r)
  <2>1. CountIsWritten(o) => ToCome(r) \in 0 .. Full(r) /\ Full(r) \in Nat
    BY PeriodTypes DEF Fits, CountFits
  <2> QED
    BY <1>1, <2>1, Lengths DEF n
<1>7. LastIsWritten(o) /\ r.unit = "MS" => ~r.last
  BY DEF Fits, LastFits
<1>8. OpFits(x, o) /\ CountFits(x, o, d)
  BY <1>4, <1>5, <1>6 DEF Fits, OpFits, CountFits
<1>9. LastFits(x, o, d)
  BY <1>4, <1>5, <1>7 DEF LastFits
<1>10. PeriodFits(x, o)
  BY <1>4, <1>5 DEF Fits, PeriodFits, PeriodIsWritten
<1>11. AgeFits(x, o, a, d)
  <2>1. Sets(o) => a = -1
    BY DEF Fits, AgeFits
  <2>2. CASE ~Sets(o)
    <3>1. CountIsWritten(o) /\ LastIsWritten(o) /\ PeriodIsWritten(r, o) /\ ~Cuts(o)
      BY <2>2 DEF Sets, CountIsWritten, LastIsWritten, PeriodIsWritten, Cuts
    <3>2. r.period = Part(r) /\ Part(r) \in Nat \ {0} /\ Remainder(r) \in Nat
      BY <1>7, <3>1, PeriodTypes DEF Fits, PeriodFits
    <3> DEFINE m == IF r.unit = "MS" /\ ~r.last THEN Remainder(r) ELSE 0  p == Part(r)  k == ToCome(r)
    <3>3. k \in Nat \ {0} /\ p \in Nat \ {0} /\ m \in Nat
      BY <1>6, <3>1, <3>2, PeriodTypes
    <3>4. Left(r) = k * p + m + 0 /\ Left(x) = n * p + m + p /\ n = k - 1
      BY <1>4, <1>5, <1>6, <3>1, <3>2 DEF Left
    <3> HIDE DEF k, p, m
    <3>5. k * p = (k - 1) * p + p /\ (k - 1) * p \in Nat /\ k * p \in Nat
      BY <3>3
    <3>6. Left(x) = Left(r)
      BY <3>3, <3>4, <3>5
    <3> QED
      BY <1>4, <1>5, <2>1, <3>1, <3>6 DEF AgeFits, Fits
  <2> QED
    BY <2>1, <2>2 DEF AgeFits
<1> QED
  BY <1>4, <1>8, <1>9, <1>10, <1>11 DEF Fits

LastBegun(r) ==
  Retriggered([r EXCEPT !.last = TRUE, !.count["MS"] = 0, !.period = r.value % Chunk])

LEMMA LastPartFits ==
  ASSUME NEW r \in TimerType, NEW x, NEW o, NEW a \in Nat \cup {-1}, NEW c \in BOOLEAN, Fits(r, o, a, c),
         NEW d \in BOOLEAN, ~d => ~c /\ ~Cuts(o), r.os = "running", r.left = 0,
         r.unit = "MS", ~Single(r), ToCome(r) \in {0, Unset}, ~r.last,
         x = LastBegun(r)
  PROVE  x \in TimerType /\ x.os = "running" /\ x.left > 0 /\ Fits(x, o, a, d)
<1> DEFINE m == r.value % Chunk
           z == [r EXCEPT !.count[r.unit] = 0]
           y == [z EXCEPT !.last = TRUE, !.period = m]
<1>1. m \in Nat /\ 0 \in Nat \cup {Unset}
  BY PeriodTypes
<1>2. x = Retriggered(y)
  <2>1. [r EXCEPT !.last = TRUE, !.count["MS"] = 0, !.period = m] = y
    BY DEF TimerType
  <2> QED
    BY <2>1 DEF LastBegun
<1>3. z \in TimerType /\ ToCome(z) = 0 /\ z.unit = r.unit /\ z.value = r.value
  BY <1>1, CountType
<1> HIDE DEF z, m
<1>4. /\ y \in TimerType /\ ToCome(y) = 0 /\ y.unit = r.unit /\ y.value = r.value
      /\ y.last = TRUE /\ y.period = m
  <2>1. /\ y.count = z.count /\ y.unit = z.unit /\ y.value = z.value /\ y.last = TRUE /\ y.period = m
    BY <1>3 DEF TimerType
  <2>2. \A b \in BOOLEAN : [z EXCEPT !.last = b, !.period = m] \in TimerType
    BY <1>1, <1>3 DEF TimerType
  <2> QED
    BY <1>3, <2>1, <2>2 DEF ToCome
<1> HIDE DEF y
<1>5. /\ x \in TimerType /\ ToCome(x) = 0 /\ x.unit = "MS" /\ x.value = r.value
      /\ x.last = TRUE /\ x.period = m /\ x.os = "running" /\ x.left > 0
      /\ x.left = (IF m = 0 THEN ZeroPeriod ELSE m)
  BY <1>2, <1>4, RetriggeredType DEF ToCome
<1>6. /\ ~Single(x) /\ Full(x) = Full(r) /\ Part(x) = Part(r) /\ Whole(x) = Whole(r)
      /\ Remainder(x) = Remainder(r) /\ Full(r) \in Nat /\ Part(r) \in Nat \ {0} /\ Remainder(r) \in Nat
  BY <1>5, SameUnit, PeriodTypes
<1>7. OpFits(x, o) /\ CountFits(x, o, d)
  <2>1. OpFits(x, o)
    BY <1>5 DEF Fits, OpFits
  <2>3. CountFits(x, o, d)
    <3>1. CountIsWritten(o) /\ Cuts(o) /\ ~d => ToCome(x) = Full(x)
      OBVIOUS
    <3> QED
      BY <1>5, <1>6, <3>1 DEF CountFits
  <2> QED
    BY <2>1, <2>3
<1>8. LastFits(x, o, d)
  BY <1>5, <1>6 DEF LastFits
<1>9. PeriodFits(x, o)
  BY <1>5, <1>6 DEF PeriodFits, PeriodIsWritten, m
<1>10. AgeFits(x, o, a, d)
  <2>1. Sets(o) => a = -1
    BY DEF Fits, AgeFits
  <2>2. CASE ~Sets(o)
    <3>1. CountIsWritten(o) /\ ~Cuts(o)
      BY <2>2 DEF Sets, CountIsWritten, Cuts
    <3>2. ToCome(r) = 0
      BY <3>1, <1>6, Lengths DEF Fits, CountFits
    <3>3. x.left = Remainder(r)
      BY <1>5 DEF Remainder, m
    <3> DEFINE p == Part(r)
    <3>4. p \in Nat
      BY <1>6
    <3>5. Left(r) = 0 * p + Remainder(r) + 0 /\ Left(x) = 0 * p + 0 + Remainder(r)
      BY <1>5, <1>6, <3>2, <3>3 DEF Left
    <3> HIDE DEF p
    <3>6. Left(x) = Left(r)
      BY <1>6, <3>4, <3>5
    <3> QED
      BY <1>5, <1>6, <2>1, <3>1, <3>6 DEF AgeFits, Fits
  <2> QED
    BY <2>1, <2>2 DEF AgeFits
<1> QED
  BY <1>5, <1>7, <1>8, <1>9, <1>10 DEF Fits

(* A timer that expires, and the whole period of one that begins again.     *)
LEMMA ExpiredFits ==
  ASSUME NEW r \in TimerType, NEW o, NEW a \in Nat \cup {-1}, NEW c \in BOOLEAN, Fits(r, o, a, c)
  PROVE  LET x == [r EXCEPT !.started = FALSE, !.os = "expired"]
         IN  x \in TimerType /\ x.os = "expired" /\ Fits(x, o, a, Cuts(o))
<1> DEFINE x == [r EXCEPT !.started = FALSE, !.os = "expired"]
<1>1. /\ x.unit = r.unit /\ x.value = r.value /\ x.count = r.count /\ x.last = r.last
      /\ x.period = r.period /\ x.os = "expired"
  BY DEF TimerType
<1>2. x \in TimerType
  <2>1. \A b \in BOOLEAN : [r EXCEPT !.started = b, !.os = "expired"] \in TimerType
    BY DEF TimerType
  <2> QED
    BY <2>1
<1> HIDE DEF x
<1>3. /\ OpFits(x, o) = OpFits(r, o) /\ CountFits(x, o, Cuts(o)) = CountFits(r, o, Cuts(o))
      /\ LastFits(x, o, Cuts(o)) = LastFits(r, o, Cuts(o)) /\ PeriodFits(x, o) = PeriodFits(r, o)
  BY <1>1, SameParts
<1>4. CountFits(r, o, Cuts(o)) /\ LastFits(r, o, Cuts(o))
  BY DEF Fits, CountFits, LastFits
<1>5. AgeFits(x, o, a, Cuts(o))
  BY <1>1 DEF Fits, AgeFits
<1>6. x \in TimerType /\ x.os = "expired" /\ Fits(x, o, a, Cuts(o))
  BY <1>1, <1>2, <1>3, <1>4, <1>5 DEF Fits
<1> QED
  BY <1>6 DEF x

LEMMA ReloadedType ==
  ASSUME NEW r \in TimerType
  PROVE  LET y == Reloaded(r)
         IN  /\ y \in TimerType /\ ToCome(y) = Full(r) /\ y.unit = r.unit /\ y.value = r.value
             /\ y.auto = r.auto /\ y.started = r.started
             /\ y.last = IF r.unit = "MS" THEN Single(r) ELSE r.last
             /\ y.period = IF r.unit = "MS" THEN Part(r) ELSE r.period
<1> DEFINE z == [r EXCEPT !.count[r.unit] = Full(r)]
           y == [z EXCEPT !.last = Single(r), !.period = Part(r)]
<1>1. Full(r) \in Nat \cup {Unset} /\ Single(r) \in BOOLEAN /\ Part(r) \in Nat
  BY PeriodTypes
<1>2. /\ z \in TimerType /\ ToCome(z) = Full(r) /\ z.unit = r.unit /\ z.value = r.value
      /\ z.auto = r.auto /\ z.started = r.started /\ z.last = r.last /\ z.period = r.period
  BY <1>1, CountType
<1>3. Reloaded(r) = IF r.unit = "MS" THEN y ELSE z
  BY DEF Reloaded
<1> HIDE DEF z
<1>4. /\ y \in TimerType /\ ToCome(y) = ToCome(z) /\ y.unit = r.unit /\ y.value = r.value
      /\ y.auto = r.auto /\ y.started = r.started /\ y.last = Single(r) /\ y.period = Part(r)
  BY <1>1, <1>2 DEF TimerType, ToCome
<1> HIDE DEF y
<1> QED
  BY <1>2, <1>3, <1>4

LEMMA RepeatedFits ==
  ASSUME NEW r \in TimerType, NEW x, NEW o, NEW a \in Nat \cup {-1}, NEW b, NEW c \in BOOLEAN, Fits(r, o, a, c),
         x = IF r.unit # "MS" /\ o.at \in {"value", "count"} /\ o.call = "set"
             THEN Retriggered([r EXCEPT !.count[r.unit] = Unset]) ELSE Retriggered(Reloaded(r)),
         b = IF Sets(o) THEN a ELSE 0
  PROVE  x \in TimerType /\ x.os = "running" /\ x.left > 0 /\ Fits(x, o, b, Cuts(o))
<1>1. Sets(o) => a = -1
  BY DEF Fits, AgeFits
<1>2. CASE r.unit # "MS" /\ o.at \in {"value", "count"} /\ o.call = "set"
  <2>1. [r EXCEPT !.count[r.unit] = Unset] \in TimerType
    <3>1. Unset \in Nat \cup {Unset}
      OBVIOUS
    <3> QED
      BY <3>1, CountType
  <2>2. x \in TimerType /\ x.os = "running" /\ x.left > 0
    BY <1>2, <2>1, RetriggeredType
  <2>3. b = -1
    BY <1>1, <1>2 DEF Sets
  <2> QED
    BY <1>2, <2>2, <2>3, EarlyFits
<1>3. CASE ~(r.unit # "MS" /\ o.at \in {"value", "count"} /\ o.call = "set")
  <2> DEFINE y == Reloaded(r)  go == [Idle EXCEPT !.at = "go"]
  <2>1. /\ y \in TimerType /\ ToCome(y) = Full(r) /\ y.unit = r.unit /\ y.value = r.value
        /\ y.last = IF r.unit = "MS" THEN Single(r) ELSE r.last
        /\ y.period = IF r.unit = "MS" THEN Part(r) ELSE r.period
    BY ReloadedType
  <2> HIDE DEF y
  <2>2. x = Retriggered(y)
    BY <1>3 DEF y
  <2>3. /\ x \in TimerType /\ x.unit = y.unit /\ x.value = y.value /\ x.count = y.count
        /\ x.last = y.last /\ x.period = y.period /\ x.os = "running" /\ x.left > 0
    BY <2>1, <2>2, RetriggeredType
  <2>4. /\ Single(y) = Single(r) /\ Full(y) = Full(r) /\ Part(y) = Part(r)
        /\ Single(x) = Single(r) /\ Full(x) = Full(r) /\ Part(x) = Part(r) /\ Whole(x) = Whole(y)
        /\ ToCome(x) = Full(r)
    BY <2>1, <2>3, SameUnit DEF ToCome
  <2>5. Full(r) \in Nat /\ (Single(r) => Full(r) = 0 /\ r.unit = "MS")
    BY PeriodTypes
  <2>6. OpFits(x, o)
    BY <2>1, <2>3 DEF Fits, OpFits
  <2>7. CountFits(x, o, Cuts(o))
    BY <2>4, <2>5 DEF CountFits
  <2>8. LastFits(x, o, Cuts(o))
    BY <2>1, <2>3, <2>4 DEF LastFits
  <2>9. PeriodFits(x, o)
    BY <2>1, <2>3, <2>4 DEF Fits, PeriodFits, PeriodIsWritten
  <2>10. AgeFits(x, o, b, Cuts(o))
    <3>1. CASE Sets(o)
      BY <1>1, <3>1 DEF AgeFits
    <3>2. CASE ~Sets(o)
      <4>1. y.period = Part(r)
        BY <2>1, <3>2 DEF Fits, PeriodFits, PeriodIsWritten, Sets
      <4>2. go.at = "go" /\ CountFits(y, go, FALSE) /\ LastFits(y, go, FALSE) /\ PeriodFits(y, go)
        <5>1. go.at = "go"
          BY DEF Idle
        <5> HIDE DEF go
        <5>2. CountFits(y, go, FALSE)
          BY <2>1, <2>4, <2>5 DEF CountFits
        <5>3. LastFits(y, go, FALSE)
          BY <2>1, <2>4 DEF LastFits
        <5>4. PeriodFits(y, go)
          BY <2>4, <4>1 DEF PeriodFits
        <5> QED
          BY <5>1, <5>2, <5>3, <5>4
      <4>3. Left(x) \in Nat /\ Left(x) = Whole(x)
        <5> HIDE DEF go
        <5>1. FALSE \in BOOLEAN
          OBVIOUS
        <5> QED
          BY <2>1, <2>2, <2>4, <4>2, <5>1, GoesWhole
      <4> QED
        BY <3>2, <4>3 DEF AgeFits
    <3> QED
      BY <3>1, <3>2
  <2> QED
    BY <2>3, <2>6, <2>7, <2>8, <2>9, <2>10 DEF Fits
<1> QED
  BY <1>2, <1>3

(* 1 ms.                                                                    *)
LEMMA TickFits ==
  ASSUME NEW r \in TimerType, NEW x \in TimerType, NEW o, NEW a \in Nat \cup {-1}, NEW b,
         NEW c \in BOOLEAN, Fits(r, o, a, c),
         r.os = "running", x.unit = r.unit, x.value = r.value, x.count = r.count, x.last = r.last,
         x.period = r.period, x.left = r.left - 1, x.os = "running", b = IF a >= 0 THEN a + 1 ELSE a
  PROVE  b \in Nat \cup {-1} /\ Fits(x, o, b, c)
<1>1. r.left \in Nat /\ r.left - 1 \in Nat
  BY DEF TimerType
<1>3. /\ OpFits(x, o) = OpFits(r, o) /\ CountFits(x, o, c) = CountFits(r, o, c)
      /\ LastFits(x, o, c) = LastFits(r, o, c) /\ PeriodFits(x, o) = PeriodFits(r, o)
      /\ Whole(x) = Whole(r)
  BY SameParts
<1>4. Single(x) = Single(r) /\ Part(x) = Part(r) /\ Remainder(x) = Remainder(r) /\ ToCome(x) = ToCome(r)
  BY SameUnit DEF ToCome
<1>5. AgeFits(x, o, b, c)
  <2>1. Sets(o) => a = -1
    BY DEF Fits, AgeFits
  <2>2. CASE a >= 0
    <3>1. ~Single(r) => ToCome(r) \in Nat
      <4>1. CountIsWritten(o)
        BY <2>1, <2>2 DEF Sets, CountIsWritten
      <4> QED
        BY <4>1, PeriodTypes DEF Fits, CountFits
    <3>2. Left(r) \in Nat /\ Left(x) \in Nat
      BY <1>4, <3>1, LeftType
    <3>3. Left(x) = Left(r) - 1
      <4>1. Part(r) \in Nat /\ Remainder(r) \in Nat
        BY PeriodTypes
      <4>2. ~Single(r) => ToCome(r) * Part(r) \in Nat
        BY <3>1, <4>1
      <4> QED
        BY <1>1, <1>4, <4>1, <4>2 DEF Left
    <3>4. Whole(r) \in Nat
      BY PeriodTypes
    <3> QED
      BY <1>3, <2>1, <2>2, <3>2, <3>3, <3>4 DEF Fits, AgeFits
  <2>3. CASE ~(a >= 0)
    BY <2>1, <2>3 DEF AgeFits
  <2> QED
    BY <2>2, <2>3
<1> QED
  BY <1>3, <1>5 DEF Fits

-----------------------------------------------------------------------------
(* The steps of the timers keep the invariant; those of a user leave no     *)
(* timer due.                                                               *)
Changes(t, r, o, a, c) ==
  /\ timer' = [timer EXCEPT ![t] = r] /\ op' = [op EXCEPT ![t] = o]
  /\ age' = [age EXCEPT ![t] = a] /\ cut' = [cut EXCEPT ![t] = c]

LEMMA OneTimer ==
  ASSUME TimerInv, NEW t \in Timer, NEW r \in TimerType, NEW o \in OpType,
         NEW a \in Nat \cup {-1}, NEW c \in BOOLEAN, Fits(r, o, a, c), Changes(t, r, o, a, c)
  PROVE  /\ timer' \in [Timer -> TimerType] /\ op' \in [Timer -> OpType]
         /\ age' \in [Timer -> Nat \cup {-1}] /\ cut' \in [Timer -> BOOLEAN]
         /\ timer'[t] = r /\ op'[t] = o
         /\ \A s \in Timer \ {t} : timer'[s] = timer[s] /\ op'[s] = op[s]
         /\ \A s \in Timer : Fits(timer'[s], op'[s], age'[s], cut'[s])
         /\ ~Interrupt /\ NotDue(r) => ~Interrupt'
<1>1. /\ timer \in [Timer -> TimerType] /\ op \in [Timer -> OpType]
      /\ age \in [Timer -> Nat \cup {-1}] /\ cut \in [Timer -> BOOLEAN]
  BY DEF TimerInv, TimerTypeOK
<1>2. /\ timer' \in [Timer -> TimerType] /\ op' \in [Timer -> OpType]
      /\ age' \in [Timer -> Nat \cup {-1}] /\ cut' \in [Timer -> BOOLEAN]
      /\ timer'[t] = r /\ op'[t] = o /\ age'[t] = a /\ cut'[t] = c
      /\ \A s \in Timer \ {t} : timer'[s] = timer[s] /\ op'[s] = op[s] /\ age'[s] = age[s] /\ cut'[s] = cut[s]
  BY <1>1 DEF Changes
<1>3. \A s \in Timer : Fits(timer'[s], op'[s], age'[s], cut'[s])
  <2> TAKE s \in Timer
  <2>1. CASE s = t
    BY <1>2, <2>1
  <2>2. CASE s # t
    BY <1>2, <2>2 DEF TimerInv
  <2> QED
    BY <2>1, <2>2
<1>4. ASSUME ~Interrupt, NotDue(r)
      PROVE  ~Interrupt'
  <2>1. SUFFICES ASSUME NEW s \in Timer, timer'[s].os = "running", timer'[s].left = 0
                 PROVE  FALSE
    BY DEF Interrupt
  <2>2. CASE s = t
    BY <1>2, <1>4, <2>1, <2>2 DEF NotDue
  <2>3. CASE s # t
    BY <1>2, <1>4, <2>1, <2>3 DEF Interrupt
  <2> QED
    BY <2>2, <2>3
<1> QED
  BY <1>2, <1>3, <1>4

(* The timer t is left as r by a step of its user.                          *)
UserStep(t) ==
  /\ TimerInv' /\ ~Interrupt' /\ UNCHANGED taskVars
  /\ \A s \in Timer \ {t} : timer'[s] = timer[s] /\ op'[s] = op[s]

LEMMA OneUser ==
  ASSUME TimerInv, ~Interrupt, NEW t \in Timer, NEW r \in TimerType, NEW o \in OpType,
         NEW a \in Nat \cup {-1}, NEW c \in BOOLEAN, Fits(r, o, a, c), NotDue(r),
         Changes(t, r, o, a, c), UNCHANGED taskVars
  PROVE  UserStep(t) /\ timer'[t] = r /\ op'[t] = o
<1>1. /\ timer' \in [Timer -> TimerType] /\ op' \in [Timer -> OpType]
      /\ age' \in [Timer -> Nat \cup {-1}] /\ cut' \in [Timer -> BOOLEAN]
      /\ timer'[t] = r /\ op'[t] = o
      /\ \A s \in Timer \ {t} : timer'[s] = timer[s] /\ op'[s] = op[s]
      /\ \A s \in Timer : Fits(timer'[s], op'[s], age'[s], cut'[s])
      /\ ~Interrupt'
  BY OneTimer
<1>2. TimerInv'
  BY <1>1 DEF TimerInv, TimerTypeOK, NoTimeoutWaits, taskVars
<1> QED
  BY <1>1, <1>2 DEF UserStep

LEMMA OfTimer ==
  ASSUME TimerInv, ~Interrupt, NEW t \in Timer
  PROVE  /\ timer[t] \in TimerType /\ op[t] \in OpType /\ age[t] \in Nat \cup {-1} /\ cut[t] \in BOOLEAN
         /\ Fits(timer[t], op[t], age[t], cut[t]) /\ NotDue(timer[t])
         /\ timer[t].os = "stopped" => timer[t].left > 0
         /\ timer = [timer EXCEPT ![t] = timer[t]] /\ op = [op EXCEPT ![t] = op[t]]
         /\ age = [age EXCEPT ![t] = age[t]] /\ cut = [cut EXCEPT ![t] = cut[t]]
         /\ \A x : [op EXCEPT ![t].at = x] = [op EXCEPT ![t] = [op[t] EXCEPT !.at = x]]
<1>1. /\ timer \in [Timer -> TimerType] /\ op \in [Timer -> OpType]
      /\ age \in [Timer -> Nat \cup {-1}] /\ cut \in [Timer -> BOOLEAN]
      /\ Fits(timer[t], op[t], age[t], cut[t])
  BY DEF TimerInv, TimerTypeOK
<1>2. NotDue(timer[t])
  BY <1>1 DEF Interrupt, NotDue, TimerType
<1>3. timer[t].os = "stopped" => timer[t].left > 0
  BY <1>1 DEF Fits
<1>4. /\ timer = [timer EXCEPT ![t] = timer[t]] /\ op = [op EXCEPT ![t] = op[t]]
      /\ age = [age EXCEPT ![t] = age[t]] /\ cut = [cut EXCEPT ![t] = cut[t]]
  BY <1>1
<1>5. \A x : [op EXCEPT ![t].at = x] = [op EXCEPT ![t] = [op[t] EXCEPT !.at = x]]
  OBVIOUS
<1> QED
  BY <1>1, <1>2, <1>3, <1>4, <1>5

LEMMA IdleType ==
  /\ Idle \in OpType /\ Idle.at = "done" /\ Idle.call = "none"
<1>1. PICK n \in Nat \ {0}, k \in Unit, b \in BOOLEAN : n = 1 /\ k = "MS" /\ b = FALSE
  <2>1. 1 \in Nat \ {0} /\ "MS" \in Unit /\ FALSE \in BOOLEAN
    BY DEF Unit
  <2> QED
    BY <2>1, Zenon
<1>2. Idle = [at |-> "done", call |-> "none", value |-> n, unit |-> k, auto |-> b]
  BY <1>1, Zenon DEF Idle
<1> QED
  BY <1>2 DEF OpType

LEMMA AtType ==
  ASSUME NEW o \in OpType, NEW p \in {"done", "unit", "value", "count", "last", "period", "test", "go", "started"}
  PROVE  LET q == [o EXCEPT !.at = p]
         IN  q \in OpType /\ q.at = p /\ q.call = o.call /\ q.unit = o.unit /\ q.value = o.value
  BY DEF OpType

LEMMA StartStep ==
  ASSUME TimerInv, NEW t \in Timer, ~Interrupt, StartSwTimer(t)
  PROVE  UserStep(t)
<1> DEFINE r == timer[t]
<1>1. /\ r \in TimerType /\ Fits(r, Idle, age[t], cut[t]) /\ NotDue(r) /\ (r.os = "stopped" => r.left > 0)
      /\ op[t] = Idle /\ age[t] \in Nat \cup {-1} /\ cut[t] \in BOOLEAN
      /\ op = [op EXCEPT ![t] = op[t]] /\ age = [age EXCEPT ![t] = age[t]] /\ cut = [cut EXCEPT ![t] = cut[t]]
  BY OfTimer DEF StartSwTimer, Unused
<1>2. CASE r.os = "expired"
  <2> DEFINE x == [r EXCEPT !.started = FALSE]
  <2>1. /\ x.unit = r.unit /\ x.value = r.value /\ x.count = r.count /\ x.last = r.last
        /\ x.period = r.period /\ x.left = r.left /\ x.os = "expired"
    BY <1>1, <1>2 DEF TimerType
  <2>2. x \in TimerType
    <3>1. \A b \in BOOLEAN : [r EXCEPT !.started = b] \in TimerType
      BY <1>1 DEF TimerType
    <3> QED
      BY <3>1
  <2>3. Changes(t, x, Idle, age[t], cut[t]) /\ UNCHANGED taskVars
    BY <1>1, <1>2 DEF StartSwTimer, Becomes, Changes
  <2> HIDE DEF x, r
  <2>4. Fits(x, Idle, age[t], cut[t]) /\ NotDue(x)
    BY <1>1, <2>1, KeepFits DEF NotDue
  <2> QED
    BY <1>1, <2>2, <2>3, <2>4, IdleType, OneUser
<1>3. CASE r.os # "expired"
  <2> DEFINE x == [r EXCEPT !.os = "running"]  o == [Idle EXCEPT !.at = "started", !.call = "start"]
  <2>1. /\ x.unit = r.unit /\ x.value = r.value /\ x.count = r.count /\ x.last = r.last
        /\ x.period = r.period /\ x.left = r.left /\ x.os = "running" /\ x \in TimerType
    BY <1>1 DEF TimerType
  <2>2. Changes(t, x, o, age[t], cut[t]) /\ UNCHANGED taskVars
    BY <1>1, <1>3 DEF StartSwTimer, Becomes, Changes
  <2>3. o \in OpType /\ o.at = "started"
    <3> HIDE DEF Idle
    <3> QED
      BY IdleType DEF OpType
  <2>4. r.left > 0
    BY <1>1, <1>3 DEF NotDue, TimerType
  <2> HIDE DEF x, r, o
  <2>5. Fits(x, Idle, age[t], cut[t]) /\ NotDue(x)
    BY <1>1, <1>3, <2>1, <2>4, KeepFits DEF NotDue
  <2>6. Fits(x, o, age[t], cut[t])
    BY <2>3, <2>5, IdleType, RestFits
  <2> QED
    BY <1>1, <2>1, <2>2, <2>3, <2>5, <2>6, OneUser
<1> QED
  BY <1>2, <1>3

LEMMA StopStep ==
  ASSUME TimerInv, NEW t \in Timer, ~Interrupt, StopSwTimer(t)
  PROVE  /\ UserStep(t) /\ op' = op
         /\ timer'[t].os # "running" /\ timer'[t].started = FALSE
<1> DEFINE r == timer[t]  x == [r EXCEPT !.os = IF @ = "running" THEN "stopped" ELSE @, !.started = FALSE]
<1>1. /\ r \in TimerType /\ Fits(r, Idle, age[t], cut[t]) /\ NotDue(r) /\ (r.os = "stopped" => r.left > 0)
      /\ op[t] = Idle /\ age[t] \in Nat \cup {-1} /\ cut[t] \in BOOLEAN
      /\ op = [op EXCEPT ![t] = op[t]] /\ age = [age EXCEPT ![t] = age[t]] /\ cut = [cut EXCEPT ![t] = cut[t]]
  BY OfTimer DEF StopSwTimer, Unused
<1>2. /\ x.unit = r.unit /\ x.value = r.value /\ x.count = r.count /\ x.last = r.last
      /\ x.period = r.period /\ x.left = r.left /\ x.started = FALSE
      /\ x.os = IF r.os = "running" THEN "stopped" ELSE r.os
  BY <1>1 DEF TimerType
<1>3. x \in TimerType
  <2>1. \A b \in BOOLEAN : [r EXCEPT !.os = IF @ = "running" THEN "stopped" ELSE @, !.started = b] \in TimerType
    BY <1>1 DEF TimerType
  <2> QED
    BY <2>1
<1>4. Changes(t, x, Idle, age[t], cut[t]) /\ op' = op /\ UNCHANGED taskVars
  BY <1>1 DEF StopSwTimer, Becomes, Changes
<1> HIDE DEF x, r
<1>5. Fits(x, Idle, age[t], cut[t]) /\ NotDue(x) /\ x.os # "running"
  BY <1>1, <1>2, KeepFits DEF NotDue
<1>6. UserStep(t) /\ timer'[t] = x
  BY <1>1, <1>3, <1>4, <1>5, IdleType, OneUser
<1> QED
  BY <1>2, <1>4, <1>5, <1>6

LEMMA RetriggerStep ==
  ASSUME TimerInv, NEW t \in Timer, ~Interrupt, RetriggerSwTimer(t)
  PROVE  UserStep(t) /\ timer' = timer /\ op'[t].call = "retrigger" /\ op'[t].at = "count"
<1> DEFINE o == [Idle EXCEPT !.at = "count", !.call = "retrigger"]
<1>1. /\ timer[t] \in TimerType /\ Fits(timer[t], Idle, age[t], cut[t]) /\ NotDue(timer[t])
      /\ cut[t] \in BOOLEAN /\ timer = [timer EXCEPT ![t] = timer[t]] /\ cut = [cut EXCEPT ![t] = cut[t]]
  BY OfTimer DEF RetriggerSwTimer, Unused
<1>2. o \in OpType /\ o.at = "count" /\ o.call = "retrigger"
  <2> HIDE DEF Idle
  <2> QED
    BY IdleType DEF OpType
<1>3. Changes(t, timer[t], o, -1, cut[t]) /\ timer' = timer /\ UNCHANGED taskVars
  BY <1>1 DEF RetriggerSwTimer, Changes
<1> HIDE DEF o
<1>4. Fits(timer[t], o, -1, cut[t])
  BY <1>1, <1>2, IdleType, RetriggerFits
<1>5. UserStep(t) /\ op'[t] = o
  BY <1>1, <1>2, <1>3, <1>4, OneUser
<1> QED
  BY <1>2, <1>3, <1>5

LEMMA PeriodStep ==
  ASSUME TimerInv, NEW t \in Timer, ~Interrupt, NEW v \in Nat, NEW u \in Unit, NEW b \in BOOLEAN,
         SetSwTimerPeriod(t, v, u, b)
  PROVE  /\ UserStep(t) /\ timer'[t].os = timer[t].os /\ timer'[t].started = timer[t].started
         /\ op'[t].call = "set" /\ op'[t].at = "unit"
<1> DEFINE given == IF v = 0 THEN [value |-> 1, unit |-> "MS", auto |-> FALSE]
                             ELSE [value |-> v, unit |-> u, auto |-> b]
           r == timer[t]  x == [r EXCEPT !.auto = given.auto]
           o == [at |-> "unit", call |-> "set", value |-> given.value,
                 unit |-> given.unit, auto |-> given.auto]
<1>1. /\ r \in TimerType /\ NotDue(r) /\ (r.os = "stopped" => r.left > 0)
      /\ cut[t] \in BOOLEAN /\ cut = [cut EXCEPT ![t] = cut[t]]
  BY OfTimer
<1>2. PICK n \in Nat \ {0}, k \in Unit, y \in BOOLEAN :
          n = given.value /\ k = given.unit /\ y = given.auto
  <2>1. CASE v = 0
    <3>1. 1 \in Nat \ {0} /\ "MS" \in Unit /\ FALSE \in BOOLEAN
      BY DEF Unit
    <3> QED
      BY <2>1, <3>1, Zenon
  <2>2. CASE v # 0
    BY <2>2
  <2> QED
    BY <2>1, <2>2
<1>3. Changes(t, x, o, -1, cut[t]) /\ UNCHANGED taskVars
  BY <1>1 DEF SetSwTimerPeriod, Becomes, Changes
<1> HIDE DEF given, r
<1>4. x \in TimerType /\ x.os = r.os /\ x.left = r.left /\ x.started = r.started
  BY <1>1, <1>2 DEF TimerType
<1>5. o \in OpType /\ o.at = "unit" /\ o.call = "set"
  BY <1>2 DEF OpType
<1> HIDE DEF x, o
<1>6. Fits(x, o, -1, cut[t]) /\ NotDue(x)
  BY <1>1, <1>4, <1>5, EarlyFits DEF NotDue
<1>7. UserStep(t) /\ timer'[t] = x /\ op'[t] = o
  BY <1>1, <1>3, <1>4, <1>5, <1>6, OneUser
<1> QED
  BY <1>4, <1>5, <1>7 DEF r

(* What the step of a call under way leaves for those who wait for it.      *)
Continued(t) ==
  /\ op[t] # Idle
  /\ timer'[t].os \in {timer[t].os, "running"}
  /\ timer'[t].started = timer[t].started \/ op[t].at = "started"
  /\ op'[t] = Idle \/ op'[t].call = op[t].call
  /\ op'[t].at = "started" => op'[t].call = "retrigger"
  /\ op[t].call = "retrigger" /\ op[t].at # "started" =>
       timer'[t].os = "running" \/ (op'[t].call = "retrigger" /\ op'[t].at # "started")

LEMMA ContinueStep ==
  ASSUME TimerInv, NEW t \in Timer, ~Interrupt, Continue(t)
  PROVE  UserStep(t) /\ Continued(t)
<1> DEFINE r == timer[t]  o == op[t]  c == cut[t]
<1>1. /\ r \in TimerType /\ o \in OpType /\ age[t] \in Nat \cup {-1} /\ c \in BOOLEAN
      /\ Fits(r, o, age[t], c) /\ NotDue(r) /\ (r.os = "stopped" => r.left > 0)
      /\ timer = [timer EXCEPT ![t] = r] /\ op = [op EXCEPT ![t] = o]
      /\ age = [age EXCEPT ![t] = age[t]] /\ cut = [cut EXCEPT ![t] = c]
      /\ \A x : [op EXCEPT ![t].at = x] = [op EXCEPT ![t] = [o EXCEPT !.at = x]]
  BY OfTimer
<1>2. Sets(o) => age[t] = -1
  BY <1>1 DEF Fits, AgeFits
<1>3. /\ o.at \in {"unit", "value", "test"} => o.call = "set"
      /\ o.at \in {"count", "last", "period", "go"} => o.call \in {"set", "retrigger"}
  BY <1>1 DEF Fits, OpFits
<1>4. CASE WriteUnit(t)
  <2> DEFINE x == [r EXCEPT !.unit = o.unit]  q == [o EXCEPT !.at = "value"]
  <2>1. x \in TimerType /\ x.os = r.os /\ x.left = r.left /\ x.started = r.started
    BY <1>1 DEF TimerType, OpType
  <2>2. q \in OpType /\ q.at = "value" /\ q.call = o.call
    BY <1>1, AtType
  <2>3. o.at = "unit" /\ Changes(t, x, q, age[t], c) /\ UNCHANGED taskVars
    BY <1>1, <1>4 DEF WriteUnit, GoesOn, Becomes, Changes
  <2> HIDE DEF x, q, r, o, c
  <2>4. Fits(x, q, age[t], c) /\ NotDue(x)
    BY <1>1, <1>2, <1>3, <2>1, <2>2, <2>3, EarlyFits DEF NotDue, Sets
  <2>5. UserStep(t) /\ timer'[t] = x /\ op'[t] = q
    BY <1>1, <2>1, <2>2, <2>3, <2>4, OneUser
  <2> QED
    BY <1>3, <2>1, <2>2, <2>3, <2>5, IdleType DEF Continued, r, o
<1>5. CASE WriteValue(t)
  <2> DEFINE x == [r EXCEPT !.value = o.value]  q == [o EXCEPT !.at = "count"]
  <2>1. x \in TimerType /\ x.os = r.os /\ x.left = r.left /\ x.started = r.started
    BY <1>1 DEF TimerType, OpType
  <2>2. q \in OpType /\ q.at = "count" /\ q.call = o.call
    BY <1>1, AtType
  <2>3. o.at = "value" /\ Changes(t, x, q, age[t], c) /\ UNCHANGED taskVars
    BY <1>1, <1>5 DEF WriteValue, GoesOn, Becomes, Changes
  <2> HIDE DEF x, q, r, o, c
  <2>4. Fits(x, q, age[t], c) /\ NotDue(x)
    BY <1>1, <1>2, <1>3, <2>1, <2>2, <2>3, EarlyFits DEF NotDue, Sets
  <2>5. UserStep(t) /\ timer'[t] = x /\ op'[t] = q
    BY <1>1, <2>1, <2>2, <2>3, <2>4, OneUser
  <2> QED
    BY <1>3, <2>1, <2>2, <2>3, <2>5, IdleType DEF Continued, r, o
<1>6. CASE WriteCount(t)
  <2> DEFINE x == [r EXCEPT !.count[r.unit] = Full(r)]
             p == IF r.unit = "MS" THEN "last" ELSE IF o.call = "set" THEN "period" ELSE "go"
             q == [o EXCEPT !.at = p]
  <2>1. x \in TimerType /\ x.os = r.os /\ x.left = r.left /\ x.started = r.started
    <3>1. Full(r) \in Nat \cup {Unset}
      BY <1>1, PeriodTypes
    <3> QED
      BY <1>1, <3>1, CountType
  <2>2. q \in OpType /\ q.at = p /\ q.call = o.call
    <3>1. p \in {"last", "period", "go"}
      OBVIOUS
    <3>2. o \in OpType
      BY <1>1
    <3> HIDE DEF p, o, r
    <3> QED
      BY <3>1, <3>2 DEF OpType
  <2>3. o.at = "count" /\ Changes(t, x, q, age[t], FALSE) /\ UNCHANGED taskVars
    BY <1>1, <1>6 DEF WriteCount, GoesOn, Becomes, Changes
  <2>4. p # "started"
    OBVIOUS
  <2>5. age[t] = -1 /\ FALSE \in BOOLEAN
    BY <1>2, <2>3 DEF Sets
  <2>6. Fits(x, q, age[t], FALSE) /\ NotDue(x)
    <3>1. Fits(r, o, -1, c)
      BY <1>1, <2>5
    <3>2. q.at = AfterCount(r, o)
      BY <2>2 DEF AfterCount
    <3>3. x = CountLoaded(r)
      BY DEF CountLoaded
    <3>5. r \in TimerType /\ x \in TimerType /\ o.at = "count" /\ q.call = o.call
      BY <1>1, <2>1, <2>2, <2>3
    <3> HIDE DEF x, q, r, o, c, p
    <3>4. Fits(x, q, -1, FALSE)
      BY <3>1, <3>2, <3>3, <3>5, CountStepFits
    <3> QED
      BY <1>1, <2>1, <2>5, <3>4 DEF NotDue
  <2> HIDE DEF x, q, r, o, c, p
  <2>7. UserStep(t) /\ timer'[t] = x /\ op'[t] = q
    BY <1>1, <2>1, <2>2, <2>3, <2>5, <2>6, OneUser
  <2> QED
    BY <1>3, <2>1, <2>2, <2>3, <2>4, <2>7, IdleType DEF Continued, r, o
<1>7. CASE WriteLast(t)
  <2> DEFINE x == [r EXCEPT !.last = Single(r)]  q == [o EXCEPT !.at = "period"]
  <2>1. x \in TimerType /\ x.os = r.os /\ x.left = r.left /\ x.started = r.started
    <3>1. Single(r) \in BOOLEAN
      BY <1>1, PeriodTypes
    <3> QED
      BY <1>1, <3>1 DEF TimerType
  <2>2. q \in OpType /\ q.at = "period" /\ q.call = o.call
    BY <1>1, AtType
  <2>3. o.at = "last" /\ Changes(t, x, q, age[t], c) /\ UNCHANGED taskVars
    BY <1>1, <1>7 DEF WriteLast, GoesOn, Becomes, Changes
  <2>4. age[t] = -1
    BY <1>2, <2>3 DEF Sets
  <2>5. Fits(x, q, age[t], c) /\ NotDue(x)
    <3>1. Fits(r, o, -1, c) /\ x = [r EXCEPT !.last = Single(r)]
      BY <1>1, <2>4
    <3> HIDE DEF x, q, r, o, c
    <3> QED
      BY <1>1, <2>1, <2>2, <2>3, <2>4, <3>1, LastStepFits DEF NotDue
  <2> HIDE DEF x, q, r, o, c
  <2>6. UserStep(t) /\ timer'[t] = x /\ op'[t] = q
    BY <1>1, <2>1, <2>2, <2>3, <2>5, OneUser
  <2> QED
    BY <1>3, <2>1, <2>2, <2>3, <2>6, IdleType DEF Continued, r, o
<1>8. CASE SetTimerPeriod(t)
  <2> DEFINE p == IF o.call = "set" THEN "test" ELSE "go"
             x == [r EXCEPT !.period = Part(r)]  q == [o EXCEPT !.at = p]
  <2>1. x \in TimerType /\ x.os = r.os /\ x.left = r.left /\ x.started = r.started
    <3>1. Part(r) \in Nat
      BY <1>1, PeriodTypes
    <3> QED
      BY <1>1, <3>1 DEF TimerType
  <2>2. q \in OpType /\ q.at = p /\ q.call = o.call
    <3>1. p \in {"test", "go"}
      OBVIOUS
    <3>2. o \in OpType
      BY <1>1
    <3> HIDE DEF p, o, r
    <3> QED
      BY <3>1, <3>2 DEF OpType
  <2>3. o.at = "period" /\ Changes(t, x, q, age[t], c) /\ UNCHANGED taskVars
    BY <1>1, <1>8 DEF SetTimerPeriod, GoesOn, Becomes, Changes
  <2>4. age[t] = -1 /\ p # "started"
    BY <1>2, <2>3 DEF Sets
  <2>5. Fits(x, q, age[t], c) /\ NotDue(x)
    <3>1. Fits(r, o, -1, c) /\ x = [r EXCEPT !.period = Part(r)] /\ q.at = IF o.call = "set" THEN "test" ELSE "go"
      BY <1>1, <2>2, <2>4
    <3> HIDE DEF x, q, r, o, c, p
    <3> QED
      BY <1>1, <2>1, <2>2, <2>3, <2>4, <3>1, PeriodStepFits DEF NotDue
  <2> HIDE DEF x, q, r, o, c, p
  <2>6. UserStep(t) /\ timer'[t] = x /\ op'[t] = q
    BY <1>1, <2>1, <2>2, <2>3, <2>5, OneUser
  <2> QED
    BY <1>3, <2>1, <2>2, <2>3, <2>4, <2>6, IdleType DEF Continued, r, o
<1>9. CASE TestStarted(t)
  <2> DEFINE go == [o EXCEPT !.at = "go"]
  <2>1. go \in OpType /\ go.at = "go" /\ go.call = o.call
    BY <1>1, AtType
  <2>2. o.at = "test" /\ timer' = timer /\ UNCHANGED taskVars
    BY <1>9 DEF TestStarted
  <2>3. PICK q \in {go, Idle} : Changes(t, r, q, age[t], c)
    BY <1>1, <1>9 DEF TestStarted, GoesOn, Returns, Changes
  <2> HIDE DEF go, r, o, c
  <2>4. Fits(r, q, age[t], c) /\ q \in OpType
    BY <1>1, <2>1, <2>2, <2>3, TestFits, RestFits, IdleType
  <2>5. UserStep(t) /\ timer'[t] = r /\ op'[t] = q
    BY <1>1, <2>2, <2>3, <2>4, OneUser
  <2> QED
    BY <1>3, <2>1, <2>2, <2>3, <2>5, IdleType DEF Continued, r, o
<1>10. CASE RetriggerTimer(t)
  <2> DEFINE x == Retriggered(r)  next == [o EXCEPT !.at = "started"]
             q == IF o.call = "set" THEN Idle ELSE next
  <2>1. x \in TimerType /\ x.os = "running" /\ x.left > 0 /\ x.started = r.started
    BY <1>1, RetriggeredType
  <2>2. next \in OpType /\ next.at = "started" /\ next.call = o.call
    BY <1>1, AtType
  <2>3. o.at = "go" /\ Changes(t, x, q, 0, c) /\ UNCHANGED taskVars
    BY <1>1, <1>10 DEF RetriggerTimer, GoesOn, Returns, Becomes, Changes
  <2>4. q \in OpType /\ q.at \in {"started", "done"} /\ (q = Idle \/ (q.call = o.call /\ o.call # "set"))
        /\ (q.at = "started" => q.call = "retrigger")
    BY <1>3, <2>2, <2>3, IdleType
  <2> HIDE DEF q, next
  <2>5. Fits(x, q, 0, c) /\ NotDue(x)
    BY <1>1, <2>1, <2>3, <2>4, GoFits DEF NotDue
  <2> HIDE DEF x, r, o, c
  <2>6. UserStep(t) /\ timer'[t] = x /\ op'[t] = q
    BY <1>1, <2>1, <2>3, <2>4, <2>5, OneUser
  <2> QED
    BY <2>1, <2>3, <2>4, <2>6, IdleType DEF Continued, r, o
<1>11. CASE WriteStarted(t)
  <2> DEFINE x == [r EXCEPT !.started = TRUE]
  <2>1. /\ x.unit = r.unit /\ x.value = r.value /\ x.count = r.count /\ x.last = r.last
        /\ x.period = r.period /\ x.left = r.left /\ x.os = r.os
    BY <1>1 DEF TimerType
  <2>2. x \in TimerType
    <3>1. \A b \in BOOLEAN : [r EXCEPT !.started = b] \in TimerType
      BY <1>1 DEF TimerType
    <3> QED
      BY <3>1
  <2>3. o.at = "started" /\ Changes(t, x, Idle, age[t], c) /\ UNCHANGED taskVars
    BY <1>1, <1>11 DEF WriteStarted, Returns, Becomes, Changes
  <2> HIDE DEF x, r, o, c
  <2>4. Fits(x, Idle, age[t], c) /\ NotDue(x)
    <3>1. Fits(r, Idle, age[t], c)
      BY <1>1, <2>3, IdleType, RestFits
    <3> QED
      BY <1>1, <2>1, <3>1, KeepFits DEF NotDue
  <2>5. UserStep(t) /\ timer'[t] = x /\ op'[t] = Idle
    BY <1>1, <2>2, <2>3, <2>4, IdleType, OneUser
  <2> QED
    BY <2>1, <2>3, <2>5, IdleType DEF Continued, r, o
<1> QED
  BY <1>4, <1>5, <1>6, <1>7, <1>8, <1>9, <1>10, <1>11 DEF Continue

-----------------------------------------------------------------------------
(* The clock.                                                               *)
LEMMA TickStep ==
  ASSUME TimerInv, Tick
  PROVE  /\ TimerInv' /\ list = <<>> /\ UNCHANGED <<op, taskVars>>
         /\ \A t \in Timer : timer'[t].os = timer[t].os /\ timer'[t].started = timer[t].started
<1>1. /\ timer \in [Timer -> TimerType] /\ op \in [Timer -> OpType]
      /\ age \in [Timer -> Nat \cup {-1}] /\ cut \in [Timer -> BOOLEAN]
      /\ \A t \in Timer : Fits(timer[t], op[t], age[t], cut[t]) /\ NotDue(timer[t])
      /\ list = <<>>
  BY DEF TimerInv, TimerTypeOK, Tick, Quiet, Interrupt, NotDue, NoTimeoutWaits, TimerType
<1>2. /\ op' = op /\ cut' = cut /\ UNCHANGED taskVars
      /\ \A t \in Timer :
           /\ timer'[t] = IF timer[t].os = "running"
                          THEN [timer[t] EXCEPT !.left = @ - 1] ELSE timer[t]
           /\ age'[t] = IF timer[t].os = "running" /\ age[t] >= 0 THEN age[t] + 1 ELSE age[t]
  BY DEF Tick
<1>3. ASSUME NEW t \in Timer
      PROVE  /\ timer'[t] \in TimerType /\ age'[t] \in Nat \cup {-1}
             /\ Fits(timer'[t], op[t], age'[t], cut[t])
             /\ timer'[t].os = timer[t].os /\ timer'[t].started = timer[t].started
  <2> DEFINE r == timer[t]  x == timer'[t]  a == age[t]  b == age'[t]  o == op[t]  c == cut[t]
  <2>1. /\ r \in TimerType /\ a \in Nat \cup {-1} /\ c \in BOOLEAN /\ Fits(r, o, a, c) /\ NotDue(r)
        /\ x = IF r.os = "running" THEN [r EXCEPT !.left = @ - 1] ELSE r
        /\ b = IF r.os = "running" /\ a >= 0 THEN a + 1 ELSE a
    BY <1>1, <1>2
  <2> HIDE DEF r, x, a, b, o, c
  <2>2. CASE r.os # "running"
    <3>1. x = r /\ b = a
      BY <2>1, <2>2
    <3> QED
      BY <2>1, <3>1 DEF r, x, a, b, o, c
  <2>3. CASE r.os = "running"
    <3>1. r.left - 1 \in Nat
      BY <2>1, <2>3 DEF NotDue, TimerType
    <3>2. /\ x \in TimerType /\ x.unit = r.unit /\ x.value = r.value
          /\ x.count = r.count /\ x.last = r.last /\ x.period = r.period
          /\ x.left = r.left - 1 /\ x.os = "running" /\ x.started = r.started
      BY <2>1, <2>3, <3>1 DEF TimerType
    <3>3. b = IF a >= 0 THEN a + 1 ELSE a
      BY <2>1, <2>3
    <3>4. b \in Nat \cup {-1} /\ Fits(x, o, b, c)
      <4>1. r \in TimerType /\ a \in Nat \cup {-1} /\ c \in BOOLEAN /\ Fits(r, o, a, c)
        BY <2>1
      <4> QED
        BY <2>3, <3>2, <3>3, <4>1, TickFits
    <3> QED
      BY <2>3, <3>2, <3>4 DEF r, x, b, o, c
  <2> QED
    BY <2>2, <2>3
<1>4. timer' = [t \in Timer |-> timer'[t]] /\ age' = [t \in Timer |-> age'[t]]
  BY DEF Tick
<1>5. timer' \in [Timer -> TimerType] /\ age' \in [Timer -> Nat \cup {-1}]
  BY <1>3, <1>4
<1> QED
  BY <1>1, <1>2, <1>3, <1>5 DEF TimerInv, TimerTypeOK, NoTimeoutWaits, taskVars

(* The interrupt as a whole.  The timer it was called for is not due again. *)
LEMMA CallbackStep ==
  ASSUME TimerInv, NEW t \in Timer, Callback(t)
  PROVE  /\ TimerInv' /\ op' = op
         /\ ~Due(t)' /\ \A s \in Timer \ {t} : timer'[s] = timer[s]
         /\ timer[t].os = "running" /\ (timer'[t].started => timer[t].started)
         /\ \/ timer'[t].os = "running" /\ list' = list
            \/ RealTimeOut(t)
<1> DEFINE r == timer[t]  o == op[t]  a == age[t]  c == cut[t]
<1>1. /\ r \in TimerType /\ o \in OpType /\ a \in Nat \cup {-1} /\ c \in BOOLEAN /\ Fits(r, o, a, c)
      /\ op = [op EXCEPT ![t] = o] /\ age = [age EXCEPT ![t] = a]
      /\ cut \in [Timer -> BOOLEAN] /\ list \in Seq(Timer) /\ timer \in [Timer -> TimerType]
  BY DEF TimerInv, TimerTypeOK
<1>2. r.os = "running" /\ r.left = 0 /\ op' = op
  BY DEF Callback, NextPart, LastPart, RealTimeOut, Due
<1>3. Count(t) = ToCome(r) /\ MayBeZero(t) = (ToCome(r) \in {0, Unset}) /\ Between(t) = Cuts(o)
      /\ Setting(t) = Sets(o) /\ Cuts(o) \in BOOLEAN
  BY DEF Count, MayBeZero, ToCome, Between, Cuts, Setting, Sets
<1> DEFINE d == c \/ Cuts(o)
<1>9. d \in BOOLEAN /\ (~d => ~c /\ ~Cuts(o))
  BY <1>1, <1>3
<1>4. ASSUME NEW x, x \in TimerType, x.os = "running", x.left > 0, x.started = r.started,
             Fits(x, o, a, d), timer' = [timer EXCEPT ![t] = x], age' = age,
             cut' = [cut EXCEPT ![t] = d], UNCHANGED taskVars
      PROVE  /\ TimerInv' /\ ~Due(t)' /\ \A s \in Timer \ {t} : timer'[s] = timer[s]
             /\ timer'[t].os = "running" /\ list' = list /\ timer'[t].started = r.started
  <2> HIDE DEF d
  <2>2. Changes(t, x, o, a, d)
    BY <1>1, <1>2, <1>4 DEF Changes
  <2> HIDE DEF r, o, a, c
  <2>3. /\ timer' \in [Timer -> TimerType] /\ op' \in [Timer -> OpType]
        /\ age' \in [Timer -> Nat \cup {-1}] /\ cut' \in [Timer -> BOOLEAN] /\ timer'[t] = x
        /\ \A s \in Timer \ {t} : timer'[s] = timer[s]
        /\ \A s \in Timer : Fits(timer'[s], op'[s], age'[s], cut'[s])
    BY <1>1, <1>4, <1>9, <2>2, OneTimer
  <2>4. TimerInv'
    BY <1>4, <2>3 DEF TimerInv, TimerTypeOK, NoTimeoutWaits, taskVars
  <2> QED
    BY <1>4, <2>3, <2>4 DEF Due, taskVars
<1>8. r \in TimerType /\ a \in Nat \cup {-1} /\ c \in BOOLEAN /\ Fits(r, o, a, c)
  BY <1>1
<1>5. CASE NextPart(t)
  <2> DEFINE y == IF ToCome(r) = Unset THEN r ELSE [r EXCEPT !.count[r.unit] = @ - 1]  x == Retriggered(y)
  <2>1. ~Single(r) /\ ToCome(r) # 0 /\ timer' = [timer EXCEPT ![t] = x]
    BY <1>3, <1>5 DEF NextPart, Becomes
  <2>2. age' = age /\ cut' = [cut EXCEPT ![t] = d] /\ UNCHANGED taskVars
    BY <1>1, <1>3, <1>5 DEF NextPart, taskVars
  <2>3. x.started = r.started
    <3>1. y.started = r.started
      BY <1>1 DEF TimerType
    <3> QED
      BY <3>1 DEF Retriggered
  <2>4. x = NextBegun(r)
    BY DEF NextBegun
  <2> HIDE DEF x, y, r, o, a, c, d
  <2>5. x \in TimerType /\ x.os = "running" /\ x.left > 0 /\ Fits(x, o, a, d)
    <3>1. r.os = "running" /\ r.left = 0 /\ ~Single(r) /\ ToCome(r) # 0
      BY <1>2, <2>1
    <3> QED
      BY <1>8, <1>9, <2>4, <3>1, NextPartFits
  <2> QED
    BY <1>2, <1>4, <2>1, <2>2, <2>3, <2>5 DEF r
<1>6. CASE LastPart(t)
  <2> DEFINE x == LastBegun(r)
  <2>1. /\ r.unit = "MS" /\ ~Single(r) /\ ToCome(r) \in {0, Unset} /\ ~r.last
        /\ timer' = [timer EXCEPT ![t] = x]
    BY <1>3, <1>6 DEF LastPart, Becomes, LastBegun
  <2>2. age' = age /\ cut' = [cut EXCEPT ![t] = d] /\ UNCHANGED taskVars
    BY <1>1, <1>3, <1>6 DEF LastPart, taskVars
  <2>3. x.started = r.started
    <3>1. [r EXCEPT !.last = TRUE, !.count["MS"] = 0, !.period = r.value % Chunk].started = r.started
      BY <1>1 DEF TimerType
    <3> QED
      BY <3>1 DEF Retriggered, LastBegun
  <2>4. x = LastBegun(r)
    OBVIOUS
  <2> HIDE DEF x, r, o, a, c, d
  <2>5. x \in TimerType /\ x.os = "running" /\ x.left > 0 /\ Fits(x, o, a, d)
    <3>1. /\ r.unit = "MS" /\ ~Single(r) /\ ToCome(r) \in {0, Unset} /\ ~r.last
          /\ r.os = "running" /\ r.left = 0
      BY <1>2, <2>1
    <3> QED
      BY <1>8, <1>9, <2>4, <3>1, LastPartFits, ZenonT(30)
  <2> QED
    BY <1>2, <1>4, <2>1, <2>2, <2>3, <2>5 DEF r
<1>7. CASE RealTimeOut(t)
  <2>1. list' \in Seq(Timer) /\ signalled' = TRUE /\ draining' = draining
    BY <1>1, <1>7 DEF RealTimeOut
  <2>2. ASSUME NEW x \in TimerType, NEW b \in Nat \cup {-1}, Fits(x, o, b, Cuts(o)),
               x.os # "running" \/ x.left > 0, x.started => r.started,
               timer' = [timer EXCEPT ![t] = x], age' = [age EXCEPT ![t] = b]
        PROVE  /\ TimerInv' /\ ~Due(t)' /\ \A s \in Timer \ {t} : timer'[s] = timer[s]
               /\ timer'[t].started => r.started
    <3>1. Changes(t, x, o, b, Cuts(o))
      BY <1>1, <1>2, <1>3, <1>7, <2>2 DEF Changes, RealTimeOut
    <3> HIDE DEF r, o, a, c
    <3>2. /\ timer' \in [Timer -> TimerType] /\ op' \in [Timer -> OpType]
          /\ age' \in [Timer -> Nat \cup {-1}] /\ cut' \in [Timer -> BOOLEAN] /\ timer'[t] = x
          /\ \A s \in Timer \ {t} : timer'[s] = timer[s]
          /\ \A s \in Timer : Fits(timer'[s], op'[s], age'[s], cut'[s])
      BY <1>1, <1>3, <2>2, <3>1, OneTimer
    <3>3. TimerInv'
      BY <2>1, <3>2 DEF TimerInv, TimerTypeOK, NoTimeoutWaits
    <3> QED
      BY <2>2, <3>2, <3>3 DEF Due
  <2>3. CASE r.auto
    <3> DEFINE x == Repeated(t)  b == IF Sets(o) THEN a ELSE 0
    <3>1. /\ x = IF r.unit # "MS" /\ o.at \in {"value", "count"} /\ o.call = "set"
                 THEN Retriggered([r EXCEPT !.count[r.unit] = Unset]) ELSE Retriggered(Reloaded(r))
      BY DEF Repeated
    <3>2. timer' = [timer EXCEPT ![t] = x] /\ age' = [age EXCEPT ![t] = b]
      BY <1>3, <1>7, <2>3 DEF RealTimeOut, Becomes
    <3>3. b = IF Sets(o) THEN a ELSE 0
      OBVIOUS
    <3>4. b \in Nat \cup {-1}
      BY <1>1
    <3> HIDE DEF x, b, r, o, a, c
    <3>5. x \in TimerType /\ x.os = "running" /\ x.left > 0 /\ Fits(x, o, b, Cuts(o))
      BY <1>8, <3>1, <3>3, RepeatedFits
    <3>6. x.started = r.started
      <4>1. [r EXCEPT !.count[r.unit] = Unset].started = r.started
        BY <1>1 DEF TimerType
      <4>2. Reloaded(r).started = r.started
        BY <1>1, ReloadedType
      <4>3. \A y : Retriggered(y).started = y.started
        BY DEF Retriggered
      <4> QED
        BY <3>1, <4>1, <4>2, <4>3
    <3> QED
      BY <1>2, <1>7, <2>2, <3>2, <3>4, <3>5, <3>6 DEF r
  <2>4. CASE ~r.auto
    <3> DEFINE x == [r EXCEPT !.started = FALSE, !.os = "expired"]
    <3>1. timer' = [timer EXCEPT ![t] = x] /\ age' = [age EXCEPT ![t] = a]
      BY <1>1, <1>7, <2>4 DEF RealTimeOut, Becomes
    <3>2. x.started = FALSE
      BY <1>1 DEF TimerType
    <3>3. x \in TimerType /\ x.os = "expired" /\ Fits(x, o, a, Cuts(o))
      BY <1>1, ExpiredFits
    <3> HIDE DEF x, r, o, a, c
    <3> QED
      BY <1>1, <1>2, <1>7, <2>2, <3>1, <3>2, <3>3 DEF r
  <2> QED
    BY <2>3, <2>4
<1> QED
  BY <1>5, <1>6, <1>7 DEF Callback

(* A timer expires after its whole period, or too early, if it was cut.     *)
LEMMA ExpiresOnTime ==
  ASSUME TimerInv, NEW t \in Timer, RealTimeOut(t), age[t] >= 0
  PROVE  age[t] <= Whole(timer[t]) /\ (~cut[t] => age[t] = Whole(timer[t]))
<1> DEFINE r == timer[t]  o == op[t]  a == age[t]  c == cut[t]
<1>1. /\ r \in TimerType /\ Fits(r, o, a, c) /\ a \in Nat
  BY DEF TimerInv, TimerTypeOK
<1>2. /\ r.os = "running" /\ r.left = 0
      /\ Single(r) \/ (ToCome(r) \in {0, Unset} /\ (r.unit = "MS" => r.last))
  BY DEF RealTimeOut, Due, MayBeZero, Count, ToCome
<1> HIDE DEF r, o, a, c
<1>3. ~Sets(o) /\ AgeFits(r, o, a, c)
  BY <1>1 DEF Fits, AgeFits
<1>4. Left(r) = 0
  <2>1. CASE Single(r)
    BY <1>2, <2>1 DEF Left
  <2>2. CASE ~Single(r)
    <3>1. CountIsWritten(o)
      BY <1>3 DEF Sets, CountIsWritten
    <3>2. ToCome(r) = 0 /\ Part(r) \in Nat
      BY <1>1, <1>2, <2>2, <3>1, Lengths, PeriodTypes DEF Fits, CountFits
    <3> DEFINE p == Part(r)
    <3>3. Left(r) = 0 * p + 0 + 0 /\ p \in Nat
      BY <1>2, <2>2, <3>2 DEF Left
    <3> HIDE DEF p
    <3> QED
      BY <3>3
  <2> QED
    BY <2>1, <2>2
<1>5. Whole(r) \in Nat
  BY <1>1, PeriodTypes
<1>6. a <= Whole(r) /\ (~c => a = Whole(r))
  BY <1>1, <1>2, <1>3, <1>4, <1>5 DEF AgeFits
<1> QED
  BY <1>6 DEF r, a, c

LEMMA TaskStep ==
  ASSUME TimerInv, WaitEvent \/ ReadTimeOut \/ EndOfList
  PROVE  TimerInv' /\ timer' = timer /\ op' = op
<1>1. list' \in Seq(Timer)
  <2>1. list \in Seq(Timer) /\ (list # <<>> => Tail(list) \in Seq(Timer))
    BY DEF TimerInv, TimerTypeOK
  <2> QED
    BY <2>1 DEF WaitEvent, ReadTimeOut, EndOfList
<1>2. CASE WaitEvent
  BY <1>1, <1>2 DEF TimerInv, TimerTypeOK, NoTimeoutWaits, WaitEvent
<1>3. CASE ReadTimeOut
  BY <1>1, <1>3 DEF TimerInv, TimerTypeOK, NoTimeoutWaits, ReadTimeOut
<1>4. CASE EndOfList
  BY <1>1, <1>4 DEF TimerInv, TimerTypeOK, NoTimeoutWaits, EndOfList
<1> QED
  BY <1>2, <1>3, <1>4

-----------------------------------------------------------------------------
(* The queue.  No timer is in it twice, since time stands still until it is *)
(* empty: so it overflows only if there are more timers than room.          *)
Queued(t) == \E i \in 1 .. Len(list) : list[i] = t

QueueInv ==
  /\ \A i, j \in 1 .. Len(list) : list[i] = list[j] => i = j
  /\ \A t \in Timer : Due(t) => ~Queued(t)

LEMMA DueHasRoom ==
  ASSUME IsFiniteSet(Timer), Cardinality(Timer) <= Room,
         TimerInv, QueueInv, NEW t \in Timer, Due(t)
  PROVE  Len(list) < Room
<1>1. list \in Seq(Timer) /\ Len(list) \in Nat
  BY DEF TimerInv, TimerTypeOK
<1>2. Cardinality(Timer) \in Nat /\ Room \in Nat
  BY FS_CardinalityType, SwTimerAssumption
<1>3. /\ IsFiniteSet(Timer \ {t}) /\ Cardinality(Timer \ {t}) = Cardinality(Timer) - 1
  BY FS_RemoveElement
<1>4. list \in [1 .. Len(list) -> Timer \ {t}]
  BY <1>1 DEF QueueInv, Queued
<1>5. IsFiniteSet(1 .. Len(list)) /\ Cardinality(1 .. Len(list)) = Len(list)
  BY <1>1, FS_Interval
<1>6. ~(Cardinality(Timer \ {t}) < Cardinality(1 .. Len(list)))
  BY <1>3, <1>4, <1>5, FS_PigeonHole DEF QueueInv
<1> QED
  BY <1>1, <1>2, <1>3, <1>5, <1>6

LEMMA QueueUser ==
  ASSUME QueueInv, ~Interrupt', list' = list
  PROVE  QueueInv'
  BY DEF QueueInv, Interrupt, Due, Queued

LEMMA QueueTick ==
  ASSUME list = <<>>, list' = list
  PROVE  QueueInv'
  BY DEF QueueInv, Queued

LEMMA QueueCallback ==
  ASSUME TimerInv, QueueInv, NEW t \in Timer, Callback(t)
  PROVE  QueueInv'
<1>1. /\ ~Due(t)' /\ \A s \in Timer \ {t} : timer'[s] = timer[s]
      /\ list' = list \/ RealTimeOut(t)
      /\ list \in Seq(Timer) /\ Due(t)
  BY CallbackStep DEF TimerInv, TimerTypeOK, Callback, NextPart, LastPart, RealTimeOut
<1>2. \A s \in Timer : Due(s)' => s # t /\ Due(s)
  BY <1>1 DEF Due
<1>3. CASE list' = list
  BY <1>2, <1>3 DEF QueueInv, Queued
<1>4. CASE list' = Append(list, t)
  <2>1. /\ Len(list') = Len(list) + 1 /\ list'[Len(list) + 1] = t /\ Len(list) \in Nat
        /\ \A i \in 1 .. Len(list) : list'[i] = list[i]
    BY <1>1, <1>4
  <2>2. \A i \in 1 .. Len(list) : list[i] # t
    BY <1>1 DEF QueueInv, Queued
  <2>3. \A i, j \in 1 .. Len(list') : list'[i] = list'[j] => i = j
    BY <2>1, <2>2 DEF QueueInv
  <2>4. ASSUME NEW s \in Timer, Due(s)', NEW i \in 1 .. Len(list'), list'[i] = s
        PROVE  FALSE
    BY <1>2, <2>1, <2>4 DEF QueueInv, Queued
  <2> QED
    BY <2>3, <2>4 DEF QueueInv, Queued
<1> QED
  BY <1>1, <1>3, <1>4 DEF RealTimeOut

LEMMA QueueTask ==
  ASSUME TimerInv, QueueInv, WaitEvent \/ ReadTimeOut \/ EndOfList
  PROVE  QueueInv'
<1>1. timer' = timer /\ list \in Seq(Timer)
  BY DEF WaitEvent, ReadTimeOut, EndOfList, TimerInv, TimerTypeOK
<1>2. CASE list' = list
  BY <1>1, <1>2 DEF QueueInv, Queued, Due
<1>3. CASE list # <<>> /\ list' = Tail(list)
  <2>1. /\ Len(list') = Len(list) - 1 /\ Len(list) \in Nat
        /\ \A i \in 1 .. Len(list') : list'[i] = list[i + 1] /\ i + 1 \in 1 .. Len(list)
    BY <1>1, <1>3
  <2> QED
    BY <1>1, <2>1 DEF QueueInv, Queued, Due
<1> QED
  BY <1>2, <1>3 DEF WaitEvent, ReadTimeOut, EndOfList

-----------------------------------------------------------------------------
(* The timers as the constructor leaves them.                               *)
LEMMA CreatedFits ==
  ASSUME NEW v \in Nat, NEW u \in Unit, NEW a \in BOOLEAN, NEW start \in BOOLEAN
  PROVE  LET x == Created(v, u, a, start)
         IN  /\ x \in TimerType /\ Fits(x, Idle, 0, FALSE) /\ x.left > 0
             /\ x.os = (IF start THEN "running" ELSE "stopped") /\ x.started = start
<1> DEFINE given == IF v = 0 THEN [value |-> 1, unit |-> "MS", auto |-> FALSE]
                             ELSE [value |-> v, unit |-> u, auto |-> a]
           x == Created(v, u, a, start)
<1>1. PICK n \in Nat \ {0}, k \in Unit, y \in BOOLEAN :
          n = given.value /\ k = given.unit /\ y = given.auto
  <2>1. CASE v = 0
    <3>1. 1 \in Nat \ {0} /\ "MS" \in Unit /\ FALSE \in BOOLEAN
      BY DEF Unit
    <3> QED
      BY <2>1, <3>1, Zenon
  <2>2. CASE v # 0
    BY <2>2
  <2> QED
    BY <2>1, <2>2
<1> DEFINE single == Single(given)  p == Part(given)  f == Full(given)
           count == [j \in Unit |-> IF j = given.unit /\ ~single THEN f ELSE Unset]
<1>2. x = [value |-> given.value, unit |-> given.unit, auto |-> given.auto,
           started |-> start, last |-> single,
           os |-> IF start THEN "running" ELSE "stopped",
           period |-> p, left |-> p, count |-> count]
  BY DEF Created
<1>3. /\ x.value = n /\ x.unit = k /\ x.auto = y /\ x.started = start /\ x.last = single
      /\ x.os = (IF start THEN "running" ELSE "stopped") /\ x.period = p /\ x.left = p
      /\ x.count = count
  BY <1>1, <1>2
<1> HIDE DEF x
<1>4. Single(x) = single /\ Part(x) = p /\ Full(x) = f
  BY <1>1, <1>3, SameUnit
<1>5. PICK w \in TimerType : w.value = n /\ w.unit = k
  <2>1. PICK b \in BOOLEAN, m \in Nat : b = FALSE /\ m = 0
    <3>1. FALSE \in BOOLEAN /\ 0 \in Nat
      OBVIOUS
    <3> QED
      BY <3>1, Zenon
  <2> DEFINE w == [unit |-> k, value |-> n, auto |-> b, started |-> b, last |-> b, os |-> "stopped",
                   period |-> m, left |-> m, count |-> [j \in Unit |-> Unset]]
  <2>2. w \in TimerType /\ w.value = n /\ w.unit = k
    BY DEF TimerType
  <2> QED
    BY <2>2
<1>6. /\ single \in BOOLEAN /\ p \in Nat \ {0} /\ f \in Nat /\ (single => f = 0 /\ k = "MS")
  <2>1. Single(w) = single /\ Part(w) = p /\ Full(w) = f
    BY <1>1, <1>5, SameUnit
  <2> HIDE DEF single, p, f
  <2> QED
    BY <1>5, <2>1, PeriodTypes
<1> HIDE DEF given, single, p, f
<1>7. count \in [Unit -> Nat \cup {Unset}] /\ count[k] = IF single THEN Unset ELSE f
  BY <1>1, <1>6
<1>8. x \in TimerType
  <2>1. x = [value |-> n, unit |-> k, auto |-> y,
             started |-> start, last |-> single,
             os |-> IF start THEN "running" ELSE "stopped",
             period |-> p, left |-> p, count |-> count]
    BY <1>1, <1>2
  <2> HIDE DEF count
  <2> QED
    BY <1>6, <1>7, <2>1 DEF TimerType
<1>9. ToCome(x) = IF single THEN Unset ELSE f
  BY <1>3, <1>7 DEF ToCome
<1> HIDE DEF count
<1>10. OpFits(x, Idle)
  BY IdleType DEF OpFits
<1>11. CountFits(x, Idle, FALSE)
  BY <1>4, <1>6, <1>9, IdleType DEF CountFits, Cuts
<1>12. LastFits(x, Idle, FALSE)
  BY <1>3, <1>4, <1>6, IdleType DEF LastFits, Cuts
<1>13. PeriodFits(x, Idle)
  BY <1>3, <1>4 DEF PeriodFits
<1>14. Left(x) = Whole(x) /\ Whole(x) \in Nat
  <2>0. Whole(x) \in Nat /\ Remainder(x) \in Nat
    BY <1>8, PeriodTypes
  <2>1. CASE single
    <3>1. Left(x) = p
      BY <1>3, <1>4, <2>1 DEF Left
    <3>2. Whole(x) = p
      BY <1>4, <1>8, <2>1, PeriodTypes
    <3> QED
      BY <2>0, <3>1, <3>2
  <2>2. CASE ~single
    <3>1. Whole(x) = f * p + (IF k = "MS" THEN Remainder(x) ELSE 0) + p
      BY <1>3, <1>4, <1>8, <2>2, AllParts
    <3>2. Left(x) = f * p + (IF k = "MS" THEN Remainder(x) ELSE 0) + p
      BY <1>3, <1>4, <1>6, <1>9, <2>2 DEF Left
    <3> QED
      BY <2>0, <3>1, <3>2
  <2> QED
    BY <1>6, <2>1, <2>2
<1>15. AgeFits(x, Idle, 0, FALSE)
  BY <1>14, IdleType DEF AgeFits, Sets
<1>16. x.left > 0
  BY <1>3, <1>6
<1>17. Fits(x, Idle, 0, FALSE)
  BY <1>10, <1>11, <1>12, <1>13, <1>15, <1>16 DEF Fits
<1> QED
  BY <1>3, <1>8, <1>16, <1>17 DEF x

-----------------------------------------------------------------------------
(* Types, and the timers under everything that is done to them.             *)
CtrlTypes ==
  /\ input \in Inputs /\ config \in Configs
  /\ error \in {"READY", "WARNING", "ALARM"} /\ temp \in {"READY", "WARNING", "ALARM"}
  /\ mSet \in SUBSET Own /\ flag \in SUBSET Own
  /\ check \in BOOLEAN /\ requested \in BOOLEAN
  /\ pc \in {"idle", "warning", "fault", "input", "update", "faultTimer", "faultAgain",
            "warningTimer", "warningAgain", "ready"}
  /\ used \in 0 .. MaxOther + 1

LEMMA Constants ==
  /\ "fault" \in Timer /\ "warning" \in Timer /\ Own \subseteq Timer /\ Other \subseteq Timer
  /\ \A c \in Configs : c.delay \in Nat
  /\ \A p \in OtherPeriods : p[1] \in Nat /\ p[2] \in Unit /\ p[3] \in BOOLEAN
  /\ Inputs \subseteq SUBSET Own
  BY AlarmDelayAssumption DEF Own

LEMMA InitTimers == Init => TimerInv /\ QueueInv
<1> SUFFICES ASSUME Init PROVE TimerInv /\ QueueInv
  OBVIOUS
<1> DEFINE x == Created(Second, "MS", FALSE, FALSE)
<1>1. x \in TimerType /\ Fits(x, Idle, 0, FALSE) /\ x.left > 0
  <2>1. Second \in Nat /\ "MS" \in Unit /\ FALSE \in BOOLEAN
    BY SwTimerAssumption DEF Unit
  <2> QED
    BY <2>1, CreatedFits
<1>2. \A y \in OthersMake : y \in TimerType /\ Fits(y, Idle, 0, FALSE) /\ y.left > 0
  <2> DEFINE G(y) == y \in TimerType /\ Fits(y, Idle, 0, FALSE) /\ y.left > 0
  <2>1. ASSUME NEW q \in OtherPeriods, NEW start \in BOOLEAN
        PROVE  G(Created(q[1], q[2], q[3], start))
    <3>1. q[1] \in Nat /\ q[2] \in Unit /\ q[3] \in BOOLEAN
      BY Constants
    <3> QED
      BY <3>1, CreatedFits
  <2> HIDE DEF G
  <2>2. ASSUME NEW y \in OthersMake
        PROVE  G(y)
    <3>1. PICK q \in OtherPeriods, start \in BOOLEAN : y = Created(q[1], q[2], q[3], start)
      BY DEF OthersMake
    <3> QED
      BY <2>1, <3>1
  <2> QED
    BY <2>2 DEF G
<1>3. PICK others \in [Other -> OthersMake] :
        timer = [t \in Timer |-> IF t \in Own THEN x ELSE others[t]]
  BY DEF Init
<1>4. /\ list = <<>> /\ signalled = FALSE /\ draining = FALSE
      /\ op = [t \in Timer |-> Idle] /\ age = [t \in Timer |-> 0] /\ cut = [t \in Timer |-> FALSE]
  BY DEF Init
<1> HIDE DEF x
<1>5. \A t \in Timer : timer[t] \in TimerType /\ Fits(timer[t], Idle, 0, FALSE) /\ timer[t].left > 0
  BY <1>1, <1>2, <1>3, AlarmDelayAssumption
<1>6. timer \in [Timer -> TimerType]
  BY <1>3, <1>5
<1>7. /\ op \in [Timer -> OpType] /\ age \in [Timer -> Nat \cup {-1}] /\ cut \in [Timer -> BOOLEAN]
      /\ list \in Seq(Timer) /\ signalled \in BOOLEAN /\ draining \in BOOLEAN
  <2>1. op \in [Timer -> OpType]
    BY <1>4, IdleType, Zenon
  <2>2. cut \in [Timer -> BOOLEAN] /\ signalled \in BOOLEAN /\ draining \in BOOLEAN
    BY <1>4
  <2>3. age \in [Timer -> Nat \cup {-1}] /\ list \in Seq(Timer)
    BY <1>4
  <2> QED
    BY <2>1, <2>2, <2>3
<1>8. TimerInv
  BY <1>4, <1>5, <1>6, <1>7 DEF TimerInv, TimerTypeOK, NoTimeoutWaits
<1>9. QueueInv
  BY <1>4, <1>5, <1>6 DEF QueueInv, Queued, Due
<1> QED
  BY <1>8, <1>9

LEMMA SameTimers ==
  ASSUME TimerInv, QueueInv, UNCHANGED timerVars
  PROVE  TimerInv' /\ QueueInv'
  BY DEF TimerInv, TimerTypeOK, NoTimeoutWaits, QueueInv, Queued, Due, timerVars

LEMMA UserTimers ==
  ASSUME TimerInv, QueueInv, NEW t \in Timer, UserStep(t)
  PROVE  TimerInv' /\ QueueInv' /\ list' = list
  BY QueueUser DEF UserStep, taskVars

(* The run leaves no timer due: it is not preempted while it uses one.      *)
LEMMA DelayStep ==
  ASSUME TimerInv, ~Interrupt, NEW t \in Timer, NEW v \in Nat, StartDelay(t, v)
  PROVE  /\ UserStep(t) /\ timer'[t].os = timer[t].os /\ timer'[t].started = timer[t].started
         /\ op'[t].call = "set" /\ op'[t].at = "unit"
<1>1. "MS" \in Unit /\ FALSE \in BOOLEAN
  BY DEF Unit
<1> QED
  BY <1>1, PeriodStep DEF StartDelay

LEMMA RunTimers ==
  ASSUME CtrlTypes, TimerInv, QueueInv, RunSubTask
  PROVE  TimerInv' /\ QueueInv' /\ list' = list
<1>1. CASE UNCHANGED timerVars
  BY <1>1, SameTimers DEF timerVars
<1>2. ASSUME NEW t \in Timer, ~Interrupt,
             StopSwTimer(t) \/ RetriggerSwTimer(t) \/ Continue(t) \/ \E v \in Nat : StartDelay(t, v)
      PROVE  TimerInv' /\ QueueInv' /\ list' = list
  BY <1>2, UserTimers, StopStep, RetriggerStep, ContinueStep, DelayStep
<1>3. CASE FaultTimer
  BY <1>1, <1>2, <1>3, Constants DEF FaultTimer, At, Quiet, CtrlTypes
<1>4. CASE WarningTimer
  BY <1>1, <1>2, <1>4, Constants DEF WarningTimer, At, Quiet, CtrlTypes
<1>5. CASE Retrigger
  BY <1>2, <1>5, Constants DEF Retrigger, At, Quiet
<1>6. CASE UseTimer
  BY <1>2, <1>6, Constants DEF UseTimer, Quiet
<1> QED
  BY <1>1, <1>3, <1>4, <1>5, <1>6 DEF RunSubTask, Begin, CheckWarningTimer, CheckFaultTimer, EvaluateInput,
     UpdateAlarmDataPoint, SetReady

LEMMA OtherTimers ==
  ASSUME TimerInv, QueueInv, NEW t \in Other, UseOther(t)
  PROVE  UserStep(t) /\ TimerInv' /\ QueueInv' /\ list' = list
<1>1. t \in Timer /\ ~Interrupt
  BY Constants DEF UseOther
<1>2. UserStep(t)
  <2>1. CASE StartSwTimer(t) \/ StopSwTimer(t) \/ RetriggerSwTimer(t) \/ Continue(t)
    BY <1>1, <2>1, StartStep, StopStep, RetriggerStep, ContinueStep
  <2>2. ASSUME NEW p \in OtherPeriods, SetSwTimerPeriod(t, p[1], p[2], p[3])
        PROVE  UserStep(t)
    BY <1>1, <2>2, Constants, PeriodStep
  <2> QED
    BY <2>1, <2>2 DEF UseOther
<1> QED
  BY <1>1, <1>2, UserTimers

LEMMA NextTimers == CtrlTypes /\ TimerInv /\ QueueInv /\ [Next]_vars => TimerInv' /\ QueueInv'
<1> SUFFICES ASSUME CtrlTypes, TimerInv, QueueInv, [Next]_vars PROVE TimerInv' /\ QueueInv'
  OBVIOUS
<1>1. CASE Tick
  BY <1>1, TickStep, QueueTick DEF taskVars
<1>2. ASSUME NEW t \in Timer, Callback(t)
      PROVE  TimerInv' /\ QueueInv'
  BY <1>2, CallbackStep, QueueCallback
<1>3. CASE SwTimerTask
  BY <1>3, TaskStep, QueueTask DEF SwTimerTask, TimeOut
<1>4. CASE RunSubTask
  BY <1>4, RunTimers
<1>5. ASSUME NEW t \in Other, UseOther(t)
      PROVE  TimerInv' /\ QueueInv'
  BY <1>5, OtherTimers
<1>6. CASE (\E i \in Inputs : SetInput(i)) \/ (\E c \in Configs : SetConfig(c)) \/ UNCHANGED vars
  BY <1>6, SameTimers DEF SetInput, SetConfig, vars
<1> QED
  BY <1>1, <1>2, <1>3, <1>4, <1>5, <1>6 DEF Next, Clock

LEMMA InitCtrlTypes == Init => CtrlTypes
<1> SUFFICES ASSUME Init PROVE CtrlTypes
  OBVIOUS
<1>1. input \in Inputs /\ config \in Configs /\ error = "READY" /\ temp = "READY" /\ pc = "idle"
  BY DEF Init
<1>2. mSet = {} /\ flag = {} /\ check \in BOOLEAN /\ requested \in BOOLEAN
  BY DEF Init
<1>3. used \in 0 .. MaxOther + 1
  BY AlarmDelayAssumption DEF Init
<1> QED
  BY <1>1, <1>2, <1>3 DEF CtrlTypes

LEMMA PresentType ==
  \A m, c : Present(m, c) \in {"READY", "WARNING", "ALARM"}
  BY DEF Present

LEMMA NextCtrlTypes == CtrlTypes /\ [Next]_vars => CtrlTypes'
<1> SUFFICES ASSUME CtrlTypes, [Next]_vars PROVE CtrlTypes'
  OBVIOUS
<1>1. CASE UNCHANGED <<ctrlVars, used>>
  BY <1>1 DEF CtrlTypes, ctrlVars
<1>2. CASE TimeOut
  <2>1. flag' = flag \/ \E t \in Own : flag' = flag \cup {t}
    BY <1>2 DEF TimeOut
  <2> QED
    BY <1>2, <2>1 DEF TimeOut, CtrlTypes
<1>3. CASE Begin \/ UpdateAlarmDataPoint
  BY <1>3, PresentType DEF Begin, UpdateAlarmDataPoint, At, CtrlTypes
<1>4. CASE EvaluateInput
  BY <1>4, Constants DEF EvaluateInput, At, CtrlTypes
<1>5. CASE CheckWarningTimer \/ CheckFaultTimer
  BY <1>5 DEF CheckWarningTimer, CheckFaultTimer, SetErrorPresent, At, CtrlTypes
<1>6. CASE FaultTimer \/ WarningTimer \/ Retrigger
  BY <1>6 DEF FaultTimer, WarningTimer, Retrigger, At, CtrlTypes
<1>7. CASE SetReady
  BY <1>7 DEF SetReady, SetErrorPresent, At, CtrlTypes
<1>8. ASSUME NEW i \in Inputs, SetInput(i)
      PROVE  CtrlTypes'
  BY <1>8 DEF SetInput, CtrlTypes
<1>9. ASSUME NEW c \in Configs, SetConfig(c)
      PROVE  CtrlTypes'
  BY <1>9 DEF SetConfig, CtrlTypes
<1>10. ASSUME NEW t \in Other, UseOther(t)
      PROVE  CtrlTypes'
  BY <1>10, AlarmDelayAssumption DEF UseOther, CtrlTypes, ctrlVars
<1>11. CASE Clock \/ UNCHANGED vars
  BY <1>1, <1>11 DEF Clock, vars
<1>12. CASE SwTimerTask
  BY <1>1, <1>2, <1>12 DEF SwTimerTask
<1>13. CASE RunSubTask
  BY <1>1, <1>3, <1>4, <1>5, <1>6, <1>7, <1>13 DEF RunSubTask, UseTimer
<1> QED
  BY <1>8, <1>9, <1>10, <1>11, <1>12, <1>13 DEF Next

(* The types of all variables, with the records of the timers.              *)
THEOREM TypeCorrect == Spec => []TypeOK
<1>1. CtrlTypes /\ TimerInv => TypeOK
  BY DEF CtrlTypes, TimerInv, TypeOK
<1> QED
  BY <1>1, InitCtrlTypes, NextCtrlTypes, InitTimers, NextTimers, PTL DEF Spec

(* What GetSwTimerValue says is what the clock still has to do.             *)
LEMMA ValueIsLeft ==
  ASSUME NEW r \in TimerType, NEW o, NEW a, NEW c, Fits(r, o, a, c), a >= 0, a \in Nat,
         ToCome(r) # Unset, ~EndsWithZero(r)
  PROVE  GetSwTimerValue(r) = Left(r) /\ Whole(r) = Duration(r) /\ Left(r) \in Nat
<1>1. r.value \in Nat \ {0} /\ r.unit \in Unit /\ r.left \in Nat /\ r.last \in BOOLEAN
  BY DEF TimerType
<1>2. ~Sets(o)
  BY DEF Fits, AgeFits
<1>3. CountIsWritten(o) /\ LastIsWritten(o)
  BY <1>2 DEF Sets, CountIsWritten, LastIsWritten
<1>4. ToCome(r) \in Nat /\ (Single(r) => ToCome(r) = 0)
  BY <1>3, PeriodTypes DEF Fits, CountFits
<1>5. Duration(r) \in Nat
  BY <1>1, Lengths DEF Duration, Unit
<1>6. Whole(r) = Duration(r)
  BY <1>5 DEF Whole, Extra
<1>7. CASE r.unit = "MS" /\ Single(r)
  <2>1. r.last /\ r.count["MS"] = 0
    BY <1>3, <1>4, <1>7 DEF Fits, LastFits, ToCome
  <2> QED
    BY <1>1, <1>6, <1>7, <2>1, Lengths DEF GetSwTimerValue, Left
<1>8. CASE r.unit = "MS" /\ ~Single(r)
  <2>1. Remainder(r) = r.value % Chunk /\ Part(r) = Chunk /\ r.value % Chunk \in Nat
    BY <1>1, <1>8, Lengths DEF Remainder, EndsWithZero, Single, Part
  <2>2. ToCome(r) = r.count["MS"] /\ ToCome(r) * Chunk \in Nat
    BY <1>4, <1>8, Lengths DEF ToCome
  <2>3. GetSwTimerValue(r) = ToCome(r) * Chunk + (IF r.last THEN 0 ELSE r.value % Chunk) + r.left
    BY <1>8, <2>2 DEF GetSwTimerValue
  <2>4. Left(r) = ToCome(r) * Chunk + (IF r.last THEN 0 ELSE r.value % Chunk) + r.left
    BY <1>1, <1>8, <2>1 DEF Left
  <2> QED
    BY <1>1, <1>6, <2>1, <2>2, <2>3, <2>4
<1>9. CASE r.unit # "MS"
  <2> DEFINE p == Part(r)
  <2>1. ~Single(r) /\ p \in Nat /\ ToCome(r) * p \in Nat
    BY <1>4, <1>9, PeriodTypes
  <2>2. GetSwTimerValue(r) = ToCome(r) * p + r.left
    BY <1>1, <1>9 DEF GetSwTimerValue, ToCome, Part, Unit
  <2>3. Left(r) = ToCome(r) * p + 0 + r.left
    BY <1>9, <2>1 DEF Left
  <2> HIDE DEF p
  <2> QED
    BY <1>1, <1>6, <2>1, <2>2, <2>3
<1> QED
  BY <1>7, <1>8, <1>9

(* What a timer says is left is never more than what is left of the period, *)
(* and exactly that unless a callback came between the counter and          *)
(* OS_RetriggerTimer (SwTimer.cpp:252-273; :162-184, :208-235), whichever   *)
(* calls on it were interrupted where; and no timeout is slept over.        *)
THEOREM TimersAlwaysFit == Spec => []TimersFit
<1>1. TimerInv => TimersFit
  <2> SUFFICES ASSUME TimerInv, NEW t \in Timer, timer[t].os = "running", age[t] >= 0,
                      Count(t) # Unset, ~EndsWithZero(timer[t])
               PROVE  /\ age[t] + GetSwTimerValue(timer[t]) <= Duration(timer[t])
                      /\ ~cut[t] => age[t] + GetSwTimerValue(timer[t]) = Duration(timer[t])
    BY DEF TimersFit, ValueIsRemaining, TimerInv
  <2>1. timer[t] \in TimerType /\ Fits(timer[t], op[t], age[t], cut[t]) /\ age[t] \in Nat
    BY DEF TimerInv, TimerTypeOK
  <2>2. GetSwTimerValue(timer[t]) = Left(timer[t]) /\ Whole(timer[t]) = Duration(timer[t])
    BY <2>1, ValueIsLeft DEF Count, ToCome
  <2> QED
    BY <2>1, <2>2 DEF Fits, AgeFits
<1> QED
  BY <1>1, InitCtrlTypes, NextCtrlTypes, InitTimers, NextTimers, PTL DEF Spec

(* A timeout goes into the queue at the end of the whole period, however    *)
(* many parts it has and wherever the calls on the timer were interrupted:  *)
(* never later, but for the period 0 at its end (SwTimer.cpp:368-370), and  *)
(* earlier only if a callback came between the counter and                  *)
(* OS_RetriggerTimer (:162-184, :208-235).                                  *)
THEOREM TimeoutsAreOnTime == Spec => TimeoutOnTime
<1>1. ASSUME TimerInv, [Next]_vars, NEW t \in Timer, Due(t), list' = Append(list, t), age[t] >= 0
      PROVE  /\ age[t] <= Duration(timer[t]) + Extra(timer[t])
             /\ ~cut[t] => age[t] = Duration(timer[t]) + Extra(timer[t])
  <2>1. list \in Seq(Timer) /\ Len(list') = Len(list) + 1 /\ list'[Len(list) + 1] = t
        /\ Len(list) \in Nat
    BY <1>1 DEF TimerInv, TimerTypeOK
  <2>2. list' # list /\ (list # <<>> => list' # Tail(list))
    BY <2>1
  <2>3. ~ UNCHANGED vars
    BY <2>2 DEF vars, timerVars
  <2>4. ~ Tick /\ ~ SwTimerTask
    BY <2>2 DEF Tick, taskVars, SwTimerTask, WaitEvent, EndOfList, TimeOut, ReadTimeOut
  <2>5. \A o \in Timer : StartSwTimer(o) \/ StopSwTimer(o) \/ RetriggerSwTimer(o) \/ Continue(o)
                         => list' = list
    BY DEF StartSwTimer, StopSwTimer, RetriggerSwTimer, taskVars, Continue, WriteUnit, WriteValue, WriteCount,
       WriteLast, SetTimerPeriod, TestStarted, RetriggerTimer, WriteStarted
  <2>6. \A o \in Timer : \A v, u, b : SetSwTimerPeriod(o, v, u, b) => list' = list
    BY DEF SetSwTimerPeriod, taskVars
  <2>7. ~ RunSubTask
    BY <2>2, <2>5, <2>6, Constants DEF RunSubTask, Begin, CheckWarningTimer, CheckFaultTimer, EvaluateInput,
       UpdateAlarmDataPoint, FaultTimer, WarningTimer, Retrigger, UseTimer, SetReady, StartDelay, timerVars
  <2>8. ~ (\E i \in Inputs : SetInput(i)) /\ ~ (\E c \in Configs : SetConfig(c))
    BY <2>2 DEF SetInput, SetConfig, timerVars
  <2>9. ~ (\E o \in Other : UseOther(o))
    BY <2>2, <2>5, <2>6, Constants DEF UseOther
  <2>10. PICK o \in Timer : Callback(o)
    BY <1>1, <2>3, <2>4, <2>7, <2>8, <2>9 DEF Next, Clock
  <2>11. RealTimeOut(o)
    BY <2>2, <2>10 DEF Callback, NextPart, LastPart, taskVars
  <2>12. o = t
    <3>1. list' = Append(list, o)
      BY <2>2, <2>11 DEF RealTimeOut
    <3>2. list'[Len(list) + 1] = o
      BY <2>1, <3>1
    <3> QED
      BY <2>1, <3>2
  <2> QED
    BY <1>1, <2>11, <2>12, ExpiresOnTime DEF Whole
<1>2. TimerInv /\ [Next]_vars =>
        [\A t \in Timer : Due(t) /\ list' = Append(list, t) /\ age[t] >= 0 =>
           /\ age[t] <= Duration(timer[t]) + Extra(timer[t])
           /\ ~cut[t] => age[t] = Duration(timer[t]) + Extra(timer[t])]_timerVars
  BY <1>1
<1> QED
  BY <1>2, InitCtrlTypes, NextCtrlTypes, InitTimers, NextTimers, PTL DEF Spec, TimeoutOnTime

-----------------------------------------------------------------------------
(* What the data point shows.  A timeout is on its way from the call of     *)
(* RetriggerSwTimer until its flag is read; what mTimerStarted says may be   *)
(* stale: WriteStarted may come after the timeout.                          *)
Begun(t) == op[t].call = "retrigger" /\ op[t].at # "started"
Coming(t) == timer[t].os = "running" \/ Queued(t) \/ t \in flag \/ Begun(t)
Started(t) == timer[t].started \/ op[t].call = "retrigger"

(* A flag is read by the run that is asked for.                             *)
FlagInv ==
  /\ "warning" \in flag => (requested /\ check) \/ pc = "warning"
  /\ "fault" \in flag => (requested /\ check) \/ pc \in {"warning", "fault"}

(* Unless a run is asked for, the one under way knows the latest input.     *)
FreshInv ==
  ~requested =>
    /\ pc = "update" => mSet = input
    /\ pc \in {"faultTimer", "faultAgain", "warningTimer", "warningAgain", "ready", "idle"}
       => temp = Present(input, config)

(* Who uses a timer, and why.                                               *)
UseInv ==
  /\ \A t \in Own : op[t].at = "started" => op[t].call = "retrigger"
  /\ ~Unused("fault") => pc \in {"faultAgain", "warningTimer"}
  /\ ~Unused("warning") => pc \in {"warningAgain", "ready"}
  /\ pc \in {"faultTimer", "faultAgain", "warningTimer", "warningAgain"} =>
       (temp = "ALARM" => config.alarm) /\ (temp = "WARNING" => config.warning)
  /\ pc = "faultAgain" => temp = "ALARM"
  /\ pc = "warningAgain" => temp = "WARNING"

(* A timer that is not wanted is stopped.                                   *)
StopInv ==
  /\ temp # "ALARM" /\ pc # "faultTimer" => ~Started("fault")
  /\ temp # "WARNING" /\ pc \notin {"faultTimer", "faultAgain", "warningTimer"} =>
       ~Started("warning") /\ timer["warning"].os # "running" /\ Unused("warning")
  /\ pc = "fault" /\ temp = "ALARM" => ~Coming("warning")

(* A timer that says it has been started, and whose timeout is no longer on *)
(* its way, has been served: the error shows it, and is not taken back, or  *)
(* it is not enabled and will be stopped in this run.                       *)
StaleInv ==
  /\ Started("fault") /\ ~Coming("fault") =>
       \/ error = "ALARM" /\ ~Coming("warning")
       \/ ~config.alarm /\ pc \in {"input", "update", "faultTimer"}
  /\ Started("warning") /\ ~Coming("warning") =>
       \/ error \in {"WARNING", "ALARM"}
       \/ ~config.warning
          /\ pc \in {"fault", "input", "update", "faultTimer", "faultAgain", "warningTimer"}

(* What the run has found present is shown, or its timeout is on its way.   *)
PendInv ==
  /\ pc \in {"warningTimer", "warningAgain", "ready", "idle"} /\ temp = "ALARM"
       => error = "ALARM" \/ Coming("fault")
  /\ pc \in {"ready", "idle"} /\ temp = "WARNING" => error = "WARNING" \/ Coming("warning")
  /\ pc = "idle" /\ temp = "READY" => error = "READY"

ErrorInv == UseInv /\ StopInv /\ StaleInv /\ PendInv

LEMMA InitError == Init => FlagInv /\ FreshInv /\ ErrorInv
<1> SUFFICES ASSUME Init PROVE FlagInv /\ FreshInv /\ ErrorInv
  OBVIOUS
<1> DEFINE x == Created(Second, "MS", FALSE, FALSE)
<1>1. x.os = "stopped" /\ x.started = FALSE
  <2>1. Second \in Nat /\ "MS" \in Unit /\ FALSE \in BOOLEAN
    BY SwTimerAssumption DEF Unit
  <2> QED
    BY <2>1, CreatedFits
<1>2. \A t \in Own : timer[t] = x /\ op[t] = Idle
  BY Constants DEF Init
<1> HIDE DEF x
<1>3. /\ pc = "idle" /\ temp = "READY" /\ error = "READY" /\ flag = {} /\ requested = TRUE
      /\ \A t \in Own : timer[t].os # "running" /\ timer[t].started = FALSE /\ op[t] = Idle
  BY <1>1, <1>2 DEF Init
<1>4. ~Started("fault") /\ ~Started("warning")
  BY <1>3, IdleType DEF Started, Own
<1> QED
  BY <1>3, <1>4, IdleType
     DEF FlagInv, FreshInv, ErrorInv, UseInv, StopInv, StaleInv, PendInv, Unused, Own

LEMMA NextFlagInv == CtrlTypes /\ FlagInv /\ [Next]_vars => FlagInv'
<1> SUFFICES ASSUME CtrlTypes, FlagInv, [Next]_vars PROVE FlagInv'
  OBVIOUS
<1>1. CASE UNCHANGED ctrlVars
  BY <1>1 DEF FlagInv, ctrlVars
<1>2. CASE TimeOut
  BY <1>2 DEF TimeOut, FlagInv, Own
<1>3. CASE Begin
  BY <1>3 DEF Begin, At, FlagInv, CtrlTypes
<1>4. CASE CheckWarningTimer
  BY <1>4 DEF CheckWarningTimer, SetErrorPresent, At, FlagInv
<1>5. CASE CheckFaultTimer
  BY <1>5 DEF CheckFaultTimer, SetErrorPresent, At, FlagInv
<1>6. CASE EvaluateInput \/ UpdateAlarmDataPoint \/ FaultTimer \/ WarningTimer \/ Retrigger
  BY <1>6 DEF EvaluateInput, UpdateAlarmDataPoint, FaultTimer, WarningTimer, Retrigger, At, FlagInv
<1>7. CASE SetReady
  BY <1>7 DEF SetReady, SetErrorPresent, At, FlagInv
<1>8. CASE \E i \in Inputs : SetInput(i)
  BY <1>8 DEF SetInput, FlagInv
<1>9. CASE \E c \in Configs : SetConfig(c)
  BY <1>9 DEF SetConfig, FlagInv
<1>10. CASE RunSubTask
  BY <1>1, <1>3, <1>4, <1>5, <1>6, <1>7, <1>10 DEF RunSubTask, UseTimer
<1>11. CASE SwTimerTask
  BY <1>1, <1>2, <1>11 DEF SwTimerTask
<1>12. CASE Clock \/ (\E t \in Other : UseOther(t)) \/ UNCHANGED vars
  BY <1>1, <1>12 DEF Clock, UseOther, vars
<1> QED
  BY <1>8, <1>9, <1>10, <1>11, <1>12 DEF Next

LEMMA NextFreshInv == CtrlTypes /\ FreshInv /\ [Next]_vars => FreshInv'
<1> SUFFICES ASSUME CtrlTypes, FreshInv, [Next]_vars PROVE FreshInv'
  OBVIOUS
<1>1. CASE UNCHANGED ctrlVars
  BY <1>1 DEF FreshInv, ctrlVars
<1>2. CASE TimeOut
  BY <1>2 DEF TimeOut, FreshInv
<1>3. CASE Begin
  BY <1>3 DEF Begin, At, FreshInv
<1>4. CASE CheckWarningTimer \/ CheckFaultTimer
  BY <1>4 DEF CheckWarningTimer, CheckFaultTimer, At, FreshInv
<1>5. CASE EvaluateInput
  BY <1>5 DEF EvaluateInput, At, FreshInv
<1>6. CASE UpdateAlarmDataPoint
  BY <1>6 DEF UpdateAlarmDataPoint, At, FreshInv
<1>7. CASE FaultTimer \/ WarningTimer \/ Retrigger
  BY <1>7 DEF FaultTimer, WarningTimer, Retrigger, At, FreshInv
<1>8. CASE SetReady
  BY <1>8 DEF SetReady, SetErrorPresent, At, FreshInv, CtrlTypes
<1>9. CASE (\E i \in Inputs : SetInput(i)) \/ (\E c \in Configs : SetConfig(c))
  BY <1>9 DEF SetInput, SetConfig, FreshInv
<1>10. CASE RunSubTask
  BY <1>1, <1>3, <1>4, <1>5, <1>6, <1>7, <1>8, <1>10 DEF RunSubTask, UseTimer
<1>11. CASE SwTimerTask
  BY <1>1, <1>2, <1>11 DEF SwTimerTask
<1>12. CASE Clock \/ (\E t \in Other : UseOther(t)) \/ UNCHANGED vars
  BY <1>1, <1>12 DEF Clock, UseOther, vars
<1> QED
  BY <1>9, <1>10, <1>11, <1>12 DEF Next

(* What does not belong to the controller's run leaves its timers alone: a  *)
(* timeout on its way is lost by nothing but the queue being full, which it *)
(* never is, and no other begins.                                           *)
LeavesAlone(t) ==
  /\ (Coming(t)' <=> Coming(t)) /\ op'[t] = op[t]
  /\ timer'[t].os = "running" => timer[t].os = "running"
  /\ timer'[t].started => timer[t].started

LEMMA Background ==
  ASSUME IsFiniteSet(Timer), Cardinality(Timer) <= Room,
         TimerInv, QueueInv, Clock \/ SwTimerTask \/ (\E o \in Other : UseOther(o)), NEW t \in Own
  PROVE  LeavesAlone(t)
<1>1. t \in Timer /\ list \in Seq(Timer) /\ timer \in [Timer -> TimerType]
  BY Constants DEF TimerInv, TimerTypeOK
<1>2. ASSUME Tick, flag' = flag
      PROVE  LeavesAlone(t)
  BY <1>1, <1>2, TickStep DEF Coming, Queued, Begun, taskVars, LeavesAlone
<1>3. ASSUME NEW s \in Timer, Callback(s), flag' = flag
      PROVE  LeavesAlone(t)
  <2>1. /\ \A o \in Timer \ {s} : timer'[o] = timer[o]
        /\ timer[s].os = "running" /\ (timer'[s].started => timer[s].started) /\ op' = op
        /\ \/ timer'[s].os = "running" /\ list' = list
           \/ RealTimeOut(s)
    BY <1>3, CallbackStep
  <2>2. CASE timer'[s].os = "running" /\ list' = list
    BY <1>1, <1>3, <2>1, <2>2 DEF Coming, Queued, Begun, LeavesAlone
  <2>3. CASE RealTimeOut(s)
    <3>1. list' = Append(list, s)
      BY <2>3, DueHasRoom DEF RealTimeOut
    <3>2. /\ Len(list) \in Nat /\ Len(list') = Len(list) + 1 /\ list'[Len(list) + 1] = s
          /\ \A i \in 1 .. Len(list) : i \in 1 .. Len(list') /\ list'[i] = list[i]
          /\ \A i \in 1 .. Len(list') : i \in 1 .. Len(list) \/ i = Len(list) + 1
      BY <1>1, <3>1
    <3>3. Queued(s)' /\ (Queued(t) => Queued(t)') /\ (Queued(t)' => Queued(t) \/ t = s)
      BY <3>2 DEF Queued
    <3> QED
      BY <1>1, <1>3, <2>1, <3>3 DEF Coming, Begun, LeavesAlone
  <2> QED
    BY <2>1, <2>2, <2>3
<1>4. CASE (WaitEvent \/ EndOfList) /\ UNCHANGED <<ctrlVars, used>>
  BY <1>4 DEF WaitEvent, EndOfList, Coming, Queued, Begun, ctrlVars, LeavesAlone
<1>5. CASE TimeOut
  <2>1. /\ list # <<>> /\ list' = Tail(list) /\ timer' = timer /\ op' = op
        /\ flag' = flag \/ flag' = flag \cup {Head(list)}
        /\ Head(list) \in Own => Head(list) \in flag'
    BY <1>5 DEF TimeOut, ReadTimeOut
  <2>2. /\ Len(list) \in Nat \ {0} /\ Len(list') = Len(list) - 1 /\ Head(list) = list[1]
        /\ \A i \in 1 .. Len(list') : list'[i] = list[i + 1] /\ i + 1 \in 1 .. Len(list)
        /\ 1 \in 1 .. Len(list)
    BY <1>1, <2>1
  <2>3. ASSUME NEW i \in 1 .. Len(list), list[i] = t
        PROVE  Queued(t)' \/ t \in flag'
    <3>1. CASE i = 1
      BY <2>1, <2>2, <2>3, <3>1
    <3>2. CASE i # 1
      <4>1. i - 1 \in 1 .. Len(list') /\ list'[i - 1] = t
        BY <2>2, <2>3, <3>2
      <4> QED
        BY <4>1 DEF Queued
    <3> QED
      BY <3>1, <3>2
  <2>4. Queued(t)' => Queued(t)
    BY <2>2 DEF Queued
  <2>5. t \in flag' => t \in flag \/ Queued(t)
    BY <2>1, <2>2 DEF Queued
  <2>6. Coming(t)' <=> Coming(t)
    BY <2>1, <2>3, <2>4, <2>5 DEF Coming, Queued, Begun
  <2> QED
    BY <2>1, <2>6 DEF LeavesAlone
<1>6. ASSUME NEW o \in Other, UseOther(o)
      PROVE  LeavesAlone(t)
  <2>1. t # o /\ o \in Timer /\ UserStep(o) /\ list' = list /\ flag' = flag
    BY <1>6, OtherTimers, AlarmDelayAssumption DEF UseOther, ctrlVars
  <2>2. timer'[t] = timer[t] /\ op'[t] = op[t]
    BY <1>1, <2>1 DEF UserStep
  <2> QED
    BY <2>1, <2>2 DEF Coming, Queued, Begun, LeavesAlone
<1> QED
  BY <1>2, <1>3, <1>4, <1>5, <1>6 DEF Clock, SwTimerTask, ctrlVars

LEMMA KeepError ==
  ASSUME ErrorInv, LeavesAlone("fault"), LeavesAlone("warning"), UNCHANGED <<config, error, pc, temp>>
  PROVE  ErrorInv'
<1>1. /\ \A t \in Own : op'[t] = op[t] /\ (Coming(t)' <=> Coming(t)) /\ (Started(t)' => Started(t))
      /\ timer'["warning"].os = "running" => timer["warning"].os = "running"
      /\ (Unused("warning")' <=> Unused("warning")) /\ (Unused("fault")' <=> Unused("fault"))
  BY DEF LeavesAlone, Started, Own, Unused
<1>2. UseInv'
  BY <1>1 DEF ErrorInv, UseInv, Own
<1>3. StopInv'
  BY <1>1 DEF ErrorInv, StopInv, Own
<1>4. StaleInv'
  BY <1>1 DEF ErrorInv, StaleInv, Own
<1>5. PendInv'
  BY <1>1 DEF ErrorInv, PendInv, Own
<1> QED
  BY <1>2, <1>3, <1>4, <1>5 DEF ErrorInv

(* A timer that the step does not use.                                      *)
LEMMA Untouched ==
  ASSUME NEW t, timer'[t] = timer[t], op'[t] = op[t], list' = list, flag' = flag
  PROVE  LeavesAlone(t) /\ (Started(t)' <=> Started(t)) /\ (Unused(t)' <=> Unused(t))
  BY DEF LeavesAlone, Coming, Queued, Begun, Started, Unused

(* While the controller runs, the queue is empty.                           *)
LEMMA NothingQueued ==
  ASSUME TimerInv, Quiet, NEW t
  PROVE  ~Queued(t)
<1>1. list = <<>>
  BY DEF TimerInv, NoTimeoutWaits, Quiet
<1> QED
  BY <1>1 DEF Queued

(* Between two calls, what is coming runs or is in its flag.                *)
LEMMA AtStep ==
  ASSUME TimerInv, NEW from, NEW to, At(from, to), NEW t \in Own
  PROVE  /\ Coming(t) <=> timer[t].os = "running" \/ t \in flag
         /\ Started(t) <=> timer[t].started
         /\ ~Queued(t) /\ op[t] = Idle /\ ~Interrupt /\ t \in Timer
         /\ list' = list => ~Queued(t)'
<1>1. ~Queued(t) /\ op[t] = Idle /\ ~Interrupt
  BY NothingQueued DEF At, Unused, Quiet
<1>2. Coming(t) <=> timer[t].os = "running" \/ t \in flag
  BY <1>1, IdleType DEF Coming, Begun
<1>3. Started(t) <=> timer[t].started
  BY <1>1, IdleType DEF Started
<1>4. list' = list => ~Queued(t)'
  BY <1>1 DEF Queued
<1> QED
  BY <1>1, <1>2, <1>3, <1>4, Constants

(* The steps that do not use the timers.                                    *)
LEMMA PlainStep ==
  ASSUME TimerInv, NEW from, NEW to, At(from, to), UNCHANGED timerVars, NEW t \in Own
  PROVE  /\ Coming(t) <=> timer[t].os = "running" \/ t \in flag
         /\ Coming(t)' <=> timer[t].os = "running" \/ t \in flag'
         /\ Started(t)' <=> Started(t)
         /\ timer' = timer /\ Unused(t) /\ Unused(t)' /\ op'[t].at # "started"
<1>1. timer' = timer /\ op' = op /\ list' = list
  BY DEF timerVars
<1>2. (Coming(t) <=> timer[t].os = "running" \/ t \in flag) /\ ~Queued(t)' /\ op[t] = Idle
  BY <1>1, AtStep
<1>3. Coming(t)' <=> timer[t].os = "running" \/ t \in flag'
  BY <1>1, <1>2, IdleType DEF Coming, Begun
<1> QED
  BY <1>1, <1>2, <1>3, IdleType DEF Started, Unused

LEMMA CheckError ==
  ASSUME CtrlTypes, TimerInv, ErrorInv, CheckWarningTimer \/ CheckFaultTimer
  PROVE  ErrorInv'
<1>1. CASE CheckWarningTimer
  <2>1. /\ pc = "warning" /\ pc' = "fault" /\ UNCHANGED <<config, temp>>
        /\ \A t \in Own : /\ Coming(t) <=> timer[t].os = "running" \/ t \in flag
                          /\ Coming(t)' <=> timer[t].os = "running" \/ t \in flag'
                          /\ Started(t)' <=> Started(t)
                          /\ timer' = timer /\ Unused(t) /\ Unused(t)' /\ op'[t].at # "started"
    BY <1>1, PlainStep DEF CheckWarningTimer, At
  <2>2. /\ "warning" \in flag =>
             /\ flag' = flag \ {"warning"}
             /\ error' = IF config.warning THEN "WARNING" ELSE "READY"
        /\ "warning" \notin flag => flag' = flag /\ error' = error
    BY <1>1 DEF CheckWarningTimer, SetErrorPresent
  <2>3. UseInv'
    BY <2>1 DEF UseInv, Own
  <2>4. StopInv'
    BY <2>1, <2>2 DEF ErrorInv, StopInv, Own
  <2>5. StaleInv'
    BY <2>1, <2>2 DEF ErrorInv, StaleInv, Own
  <2>6. PendInv'
    BY <2>1 DEF PendInv
  <2> QED
    BY <2>3, <2>4, <2>5, <2>6 DEF ErrorInv
<1>2. CASE CheckFaultTimer
  <2>1. /\ pc = "fault" /\ pc' = "input" /\ UNCHANGED <<config, temp>>
        /\ \A t \in Own : /\ Coming(t) <=> timer[t].os = "running" \/ t \in flag
                          /\ Coming(t)' <=> timer[t].os = "running" \/ t \in flag'
                          /\ Started(t)' <=> Started(t)
                          /\ timer' = timer /\ Unused(t) /\ Unused(t)' /\ op'[t].at # "started"
    BY <1>2, PlainStep DEF CheckFaultTimer, At
  <2>2. /\ "fault" \in flag => flag' = flag \ {"fault"} /\ error' = IF config.alarm THEN "ALARM" ELSE error
        /\ "fault" \notin flag => flag' = flag /\ error' = error
    BY <1>2 DEF CheckFaultTimer, SetErrorPresent
  <2>3. UseInv'
    BY <2>1 DEF UseInv, Own
  <2>4. StopInv'
    BY <2>1, <2>2 DEF ErrorInv, StopInv, Own
  <2>5. StaleInv'
    BY <2>1, <2>2 DEF ErrorInv, StaleInv, StopInv, Own
  <2>6. PendInv'
    BY <2>1 DEF PendInv
  <2> QED
    BY <2>3, <2>4, <2>5, <2>6 DEF ErrorInv
<1> QED
  BY <1>1, <1>2

LEMMA OtherError ==
  ASSUME CtrlTypes, TimerInv, ErrorInv, Begin \/ EvaluateInput \/ UpdateAlarmDataPoint \/ SetReady
  PROVE  ErrorInv'
<1>1. ASSUME NEW from, NEW to, At(from, to), UNCHANGED timerVars, flag' = flag
      PROVE  \A t \in Own : /\ (Coming(t)' <=> Coming(t)) /\ (Started(t)' <=> Started(t))
                            /\ timer' = timer /\ Unused(t) /\ Unused(t)' /\ op'[t].at # "started"
  BY <1>1, PlainStep
<1>2. \A t \in Own : /\ (Coming(t)' <=> Coming(t)) /\ (Started(t)' <=> Started(t))
                     /\ timer' = timer /\ Unused(t) /\ Unused(t)' /\ op'[t].at # "started"
  BY <1>1 DEF Begin, EvaluateInput, UpdateAlarmDataPoint, SetReady
<1>3. CASE Begin
  BY <1>2, <1>3 DEF Begin, At, ErrorInv, UseInv, StopInv, StaleInv, PendInv, Own
<1>4. CASE EvaluateInput
  BY <1>2, <1>4 DEF EvaluateInput, At, ErrorInv, UseInv, StopInv, StaleInv, PendInv, Own
<1>5. CASE UpdateAlarmDataPoint
  <2>1. pc = "update" /\ pc' = "faultTimer" /\ UNCHANGED <<config, error>> /\ temp' = Present(mSet, config)
    BY <1>5 DEF UpdateAlarmDataPoint, At
  <2>2. (temp' = "ALARM" => config.alarm) /\ (temp' = "WARNING" => config.warning)
    BY <2>1 DEF Present
  <2> QED
    BY <1>2, <2>1, <2>2 DEF ErrorInv, UseInv, StopInv, StaleInv, PendInv, Own
<1>6. CASE SetReady
  <2>1. /\ pc = "ready" /\ pc' = "idle" /\ UNCHANGED <<config, temp>>
        /\ error' = IF temp = "READY" THEN "READY" ELSE error
    BY <1>6 DEF SetReady, SetErrorPresent, At
  <2> QED
    BY <1>2, <2>1 DEF ErrorInv, UseInv, StopInv, StaleInv, PendInv, Own
<1> QED
  BY <1>3, <1>4, <1>5, <1>6

(* A delay is set, not begun; a stop is the end of it.                      *)
LEMMA FaultTimerError ==
  ASSUME CtrlTypes, TimerInv, ErrorInv, FaultTimer
  PROVE  ErrorInv'
<1>1. CASE At("faultTimer", "faultAgain")
  <2> DEFINE t == "fault"
  <2>1. /\ pc = "faultTimer" /\ pc' = "faultAgain" /\ UNCHANGED <<config, error, temp, flag>>
        /\ temp = "ALARM" /\ ~timer[t].started /\ StartDelay(t, config.delay)
    BY <1>1 DEF FaultTimer, At
  <2>2. UserStep(t) /\ timer'[t].os = timer[t].os /\ timer'[t].started = timer[t].started
        /\ op'[t].call = "set" /\ op'[t].at = "unit"
    BY <1>1, <2>1, AtStep, Constants, DelayStep DEF CtrlTypes, Own
  <2>3. LeavesAlone("warning") /\ (Started("warning")' <=> Started("warning")) /\ op'["warning"] = op["warning"]
        /\ timer'["warning"] = timer["warning"] /\ Unused("warning")'
    BY <1>1, <2>1, <2>2, Untouched, AtStep, Constants DEF UserStep, taskVars, Own, Unused
  <2>4. ~Started(t)'
    BY <2>1, <2>2 DEF Started
  <2> QED
    BY <2>1, <2>2, <2>3, <2>4 DEF ErrorInv, UseInv, StopInv, StaleInv, PendInv, Own, LeavesAlone, Unused
<1>2. CASE At("faultTimer", "warningTimer") /\ temp = "ALARM"
  <2>1. /\ pc = "faultTimer" /\ pc' = "warningTimer" /\ UNCHANGED <<config, error, temp, flag>>
        /\ error = "ALARM" \/ timer["fault"].started
    BY <1>2 DEF FaultTimer, At
  <2>2. UNCHANGED timerVars
    BY <1>2 DEF FaultTimer, At
  <2>3. \A t \in Own : /\ (Coming(t)' <=> Coming(t)) /\ (Started(t)' <=> Started(t))
                       /\ timer' = timer /\ Unused(t) /\ Unused(t)' /\ op'[t].at # "started"
    BY <1>2, <2>1, <2>2, PlainStep
  <2>4. timer["fault"].started => Started("fault")
    BY DEF Started
  <2> QED
    BY <1>2, <2>1, <2>3, <2>4 DEF ErrorInv, UseInv, StopInv, StaleInv, PendInv, Own
<1>3. CASE At("faultTimer", "warningTimer") /\ temp # "ALARM"
  <2>1. /\ pc = "faultTimer" /\ pc' = "warningTimer" /\ UNCHANGED <<config, error, temp, flag>>
        /\ StopSwTimer("fault")
    BY <1>3 DEF FaultTimer, At
  <2>2. UserStep("fault") /\ op' = op /\ timer'["fault"].started = FALSE /\ op["fault"] = Idle
    BY <1>3, <2>1, AtStep, Constants, StopStep DEF Own
  <2>3. LeavesAlone("warning") /\ (Started("warning")' <=> Started("warning")) /\ op'["warning"] = op["warning"]
        /\ timer'["warning"] = timer["warning"] /\ Unused("warning")'
    BY <1>3, <2>1, <2>2, Untouched, AtStep, Constants DEF UserStep, taskVars, Own, Unused
  <2>4. ~Started("fault")' /\ op'["fault"].at # "started"
    BY <2>2, IdleType DEF Started
  <2> QED
    BY <1>3, <2>1, <2>2, <2>3, <2>4 DEF ErrorInv, UseInv, StopInv, StaleInv, PendInv, Own, LeavesAlone, Unused
<1> QED
  BY <1>1, <1>2, <1>3 DEF FaultTimer

LEMMA WarningTimerError ==
  ASSUME CtrlTypes, TimerInv, ErrorInv, WarningTimer
  PROVE  ErrorInv'
<1>1. CASE At("warningTimer", "warningAgain")
  <2> DEFINE t == "warning"
  <2>1. /\ pc = "warningTimer" /\ pc' = "warningAgain" /\ UNCHANGED <<config, error, temp, flag>>
        /\ temp = "WARNING" /\ (~timer[t].started \/ error = "ALARM")
        /\ \E v \in Nat : StartDelay(t, v)
    <3>1. config.delay \in Nat /\ 0 \in Nat
      BY Constants DEF CtrlTypes
    <3>2. (IF error = "ALARM" THEN 0 ELSE config.delay) \in Nat
      BY <3>1
    <3> QED
      BY <1>1, <3>2 DEF WarningTimer, At
  <2>2. UserStep(t) /\ timer'[t].os = timer[t].os /\ timer'[t].started = timer[t].started
        /\ op'[t].call = "set" /\ op'[t].at = "unit"
    BY <1>1, <2>1, AtStep, Constants, DelayStep DEF Own
  <2>3. LeavesAlone("fault") /\ (Started("fault")' <=> Started("fault")) /\ op'["fault"] = op["fault"]
        /\ Unused("fault")'
    BY <1>1, <2>1, <2>2, Untouched, AtStep, Constants DEF UserStep, taskVars, Own, Unused
  <2>4. Started(t)' => error = "ALARM"
    BY <2>1, <2>2 DEF Started
  <2> QED
    BY <2>1, <2>2, <2>3, <2>4 DEF ErrorInv, UseInv, StopInv, StaleInv, PendInv, Own, LeavesAlone, Unused
<1>2. CASE At("warningTimer", "ready") /\ temp = "WARNING"
  <2>1. /\ pc = "warningTimer" /\ pc' = "ready" /\ UNCHANGED <<config, error, temp, flag>>
        /\ error # "READY" \/ timer["warning"].started
        /\ error # "ALARM"
    BY <1>2 DEF WarningTimer, At
  <2>2. UNCHANGED timerVars
    BY <1>2 DEF WarningTimer, At
  <2>3. \A t \in Own : /\ (Coming(t)' <=> Coming(t)) /\ (Started(t)' <=> Started(t))
                       /\ timer' = timer /\ Unused(t) /\ Unused(t)' /\ op'[t].at # "started"
    BY <1>2, <2>1, <2>2, PlainStep
  <2>4. timer["warning"].started => Started("warning")
    BY DEF Started
  <2> QED
    BY <1>2, <2>1, <2>3, <2>4 DEF CtrlTypes, ErrorInv, UseInv, StopInv, StaleInv, PendInv, Own
<1>3. CASE At("warningTimer", "ready") /\ temp # "WARNING"
  <2>1. /\ pc = "warningTimer" /\ pc' = "ready" /\ UNCHANGED <<config, error, temp, flag>>
        /\ StopSwTimer("warning")
    BY <1>3 DEF WarningTimer, At
  <2>2. UserStep("warning") /\ op' = op /\ timer'["warning"].started = FALSE
        /\ timer'["warning"].os # "running" /\ op["warning"] = Idle /\ list' = list
    BY <1>3, <2>1, AtStep, Constants, StopStep DEF Own, UserStep, taskVars
  <2>3. LeavesAlone("fault") /\ (Started("fault")' <=> Started("fault")) /\ op'["fault"] = op["fault"]
        /\ Unused("fault")'
    BY <1>3, <2>1, <2>2, Untouched, AtStep, Constants DEF UserStep, taskVars, Own, Unused
  <2>4. ~Started("warning")' /\ op'["warning"].at # "started" /\ Unused("warning")'
    BY <2>2, IdleType DEF Started, Unused
  <2>5. Coming("warning")' => Coming("warning")
    BY <2>1, <2>2 DEF Coming, Queued, Begun
  <2> QED
    BY <1>3, <2>1, <2>2, <2>3, <2>4, <2>5
       DEF ErrorInv, UseInv, StopInv, StaleInv, PendInv, Own, LeavesAlone, Unused
<1> QED
  BY <1>1, <1>2, <1>3 DEF WarningTimer

(* From here on, the timeout is on its way.                                 *)
LEMMA RetriggerError ==
  ASSUME CtrlTypes, TimerInv, ErrorInv, Retrigger
  PROVE  ErrorInv'
<1>1. CASE At("faultAgain", "warningTimer") /\ RetriggerSwTimer("fault")
  <2>1. pc = "faultAgain" /\ pc' = "warningTimer" /\ UNCHANGED <<config, error, temp, flag>>
    BY <1>1 DEF Retrigger, At
  <2>2. UserStep("fault") /\ op'["fault"].call = "retrigger" /\ op'["fault"].at = "count"
    BY <1>1, AtStep, Constants, RetriggerStep DEF Own
  <2>3. LeavesAlone("warning") /\ (Started("warning")' <=> Started("warning")) /\ op'["warning"] = op["warning"]
        /\ timer'["warning"] = timer["warning"] /\ Unused("warning")'
    BY <1>1, <2>1, <2>2, Untouched, AtStep, Constants DEF UserStep, taskVars, Own, Unused
  <2>4. Coming("fault")'
    BY <2>2 DEF Coming, Begun
  <2> QED
    BY <2>1, <2>2, <2>3, <2>4 DEF ErrorInv, UseInv, StopInv, StaleInv, PendInv, Own, LeavesAlone, Unused
<1>2. CASE At("warningAgain", "ready") /\ RetriggerSwTimer("warning")
  <2>1. pc = "warningAgain" /\ pc' = "ready" /\ UNCHANGED <<config, error, temp, flag>>
    BY <1>2 DEF Retrigger, At
  <2>2. UserStep("warning") /\ op'["warning"].call = "retrigger" /\ op'["warning"].at = "count"
    BY <1>2, AtStep, Constants, RetriggerStep DEF Own
  <2>3. LeavesAlone("fault") /\ (Started("fault")' <=> Started("fault")) /\ op'["fault"] = op["fault"]
    BY <1>2, <2>1, <2>2, Untouched, Constants DEF UserStep, taskVars
  <2>4. Coming("warning")'
    BY <2>2 DEF Coming, Begun
  <2> QED
    BY <2>1, <2>2, <2>3, <2>4 DEF ErrorInv, UseInv, StopInv, StaleInv, PendInv, Own, LeavesAlone, Unused
<1> QED
  BY <1>1, <1>2 DEF Retrigger

(* A call goes on: nothing that was coming is lost, and a timer that was    *)
(* only set, and comes now, is one that the run wants.                      *)
LEMMA UseTimerError ==
  ASSUME CtrlTypes, TimerInv, ErrorInv, UseTimer
  PROVE  ErrorInv'
<1>1. PICK s \in Own : Continue(s)
  BY DEF UseTimer
<1>2. UserStep(s) /\ Continued(s) /\ s \in Timer /\ ~Queued(s) /\ ~Queued(s)' /\ list' = list
      /\ UNCHANGED <<config, error, pc, temp, flag>>
  <2>1. ~Queued(s) /\ s \in Timer /\ ~Interrupt /\ UNCHANGED <<config, error, pc, temp, flag>>
    BY NothingQueued, Constants DEF UseTimer, Quiet, ctrlVars
  <2>2. UserStep(s) /\ Continued(s)
    BY <1>1, <2>1, ContinueStep
  <2> QED
    BY <2>1, <2>2 DEF UserStep, taskVars, Queued
<1>3. /\ Coming(s) => Coming(s)'
      /\ Started(s)' => Started(s)
      /\ op'[s].at = "started" => op'[s].call = "retrigger"
      /\ ~Unused(s)
  <2>1. op[s].at = "started" => op[s].call = "retrigger"
    BY DEF ErrorInv, UseInv
  <2>2. Coming(s) => Coming(s)'
    BY <1>2 DEF Continued, Coming, Begun
  <2>3. Started(s)' => Started(s)
    BY <1>2, <2>1, IdleType DEF Continued, Started
  <2> QED
    BY <1>2, <2>2, <2>3 DEF Continued, Unused
<1>4. \A t \in Own \ {s} :
        /\ Coming(t)' <=> Coming(t)
        /\ Started(t)' <=> Started(t)
        /\ timer'[t] = timer[t] /\ op'[t] = op[t] /\ (Unused(t)' <=> Unused(t))
  <2> TAKE t \in Own \ {s}
  <2>1. timer'[t] = timer[t] /\ op'[t] = op[t]
    BY <1>2, Constants DEF UserStep
  <2> QED
    BY <1>2, <2>1, Untouched DEF LeavesAlone
<1>5. CASE s = "fault"
  <2>1. UseInv'
    BY <1>2, <1>3, <1>4, <1>5 DEF ErrorInv, UseInv, Own
  <2>2. StopInv' /\ StaleInv' /\ PendInv'
    BY <1>2, <1>3, <1>4, <1>5 DEF ErrorInv, StopInv, StaleInv, PendInv, Own
  <2> QED
    BY <2>1, <2>2 DEF ErrorInv
<1>6. CASE s = "warning"
  <2>1. temp = "WARNING" /\ pc \in {"warningAgain", "ready"} /\ ~Started("fault")
    BY <1>3, <1>6 DEF ErrorInv, UseInv, StopInv
  <2>2. UseInv'
    BY <1>2, <1>3, <1>4, <1>6, <2>1 DEF ErrorInv, UseInv, Own
  <2>3. StopInv' /\ StaleInv' /\ PendInv'
    BY <1>2, <1>3, <1>4, <1>6, <2>1 DEF ErrorInv, StopInv, StaleInv, PendInv, Own
  <2> QED
    BY <2>2, <2>3 DEF ErrorInv
<1> QED
  BY <1>5, <1>6 DEF Own

LEMMA NextError ==
  ASSUME IsFiniteSet(Timer), Cardinality(Timer) <= Room,
         CtrlTypes, TimerInv, QueueInv, ErrorInv, [Next]_vars
  PROVE  ErrorInv'
<1>1. CASE Clock \/ SwTimerTask \/ (\E t \in Other : UseOther(t))
  <2>1. UNCHANGED <<config, error, pc, temp>>
    BY <1>1 DEF Clock, SwTimerTask, UseOther, TimeOut, ctrlVars
  <2>2. LeavesAlone("fault") /\ LeavesAlone("warning")
    BY <1>1, Background DEF Own
  <2> QED
    BY <2>1, <2>2, KeepError
<1>2. CASE RunSubTask
  BY <1>2, CheckError, OtherError, FaultTimerError, WarningTimerError, RetriggerError, UseTimerError
     DEF RunSubTask
<1>3. CASE (\E i \in Inputs : SetInput(i)) \/ UNCHANGED vars
  <2>1. UNCHANGED <<timer, op, list, flag, config, error, pc, temp>>
    BY <1>3 DEF SetInput, vars, timerVars, ctrlVars
  <2>2. LeavesAlone("fault") /\ LeavesAlone("warning")
    BY <2>1, Untouched
  <2> QED
    BY <2>1, <2>2, KeepError
<1>4. ASSUME NEW c \in Configs, SetConfig(c)
      PROVE  ErrorInv'
  <2>1. UNCHANGED <<timer, op, list, flag, error, pc, temp>> /\ pc = "idle"
    BY <1>4 DEF SetConfig, timerVars
  <2>2. \A t \in Own : /\ (Coming(t)' <=> Coming(t)) /\ (Started(t)' <=> Started(t))
                       /\ (Unused(t)' <=> Unused(t))
    BY <2>1, Untouched DEF LeavesAlone
  <2> QED
    BY <2>1, <2>2 DEF ErrorInv, UseInv, StopInv, StaleInv, PendInv, Own
<1> QED
  BY <1>1, <1>2, <1>3, <1>4 DEF Next

(* At rest, with no delay running and no timeout to come, the data point    *)
(* shows what input and configuration ask for (AlarmDelay.cpp:88-235), as   *)
(* long as mTimeOutList has room for every timer.                           *)
THEOREM ErrorsFitInputs ==
  ASSUME IsFiniteSet(Timer), Cardinality(Timer) <= Room
  PROVE  Spec => []ErrorFitsInput
<1>1. CtrlTypes /\ FlagInv /\ FreshInv /\ ErrorInv => ErrorFitsInput
  <2> SUFFICES ASSUME CtrlTypes, FlagInv, FreshInv, ErrorInv, pc = "idle", ~requested,
                      \A t \in Own : timer[t].os # "running" /\ \A i \in 1 .. Len(list) : list[i] # t
               PROVE  error = Present(input, config)
    BY DEF ErrorFitsInput
  <2>1. ~Coming("fault") /\ ~Coming("warning")
    <3>1. op["fault"] = Idle /\ op["warning"] = Idle
      BY DEF ErrorInv, UseInv, Unused
    <3> QED
      BY <3>1, IdleType DEF FlagInv, Coming, Queued, Begun, Own
  <2>2. temp = Present(input, config)
    BY DEF FreshInv
  <2> QED
    BY <2>1, <2>2 DEF PendInv, CtrlTypes, ErrorInv
<1>2. CtrlTypes /\ TimerInv /\ QueueInv /\ ErrorInv /\ [Next]_vars => ErrorInv'
  BY NextError
<1> QED
  BY <1>1, <1>2, InitCtrlTypes, NextCtrlTypes, InitTimers, NextTimers, InitError, NextFlagInv, NextFreshInv,
     PTL DEF Spec
==============================================================================

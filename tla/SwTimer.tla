------------------------------- MODULE SwTimer -------------------------------
(***************************************************************************)
(* The software timers of src/util (SwTimer.cpp, SwTimerTask.cpp): each has *)
(* an embOS timer that runs a part of the period, at most 32000 ms, and a   *)
(* counter of the parts to come.  The timer interrupt calls call_back; when *)
(* the last part is over the timer goes into a queue, and SwTimerTask (of   *)
(* higher priority than every user of timers but PowerDownTask) takes it    *)
(* out and notifies the observer.                                           *)
(*                                                                         *)
(* Nothing holds the interrupt off while a task sets a timer: each write to *)
(* a member that call_back uses, and each call of embOS, is a step of its   *)
(* own (op says which one is next), and any number of ticks and callbacks   *)
(* may come between two of them.  OS_GetTimerStatus belongs to the call     *)
(* before it.                                                               *)
(*                                                                         *)
(* A Tick is 1 ms of the operating system, Callback what the interrupt does *)
(* for one timer that is due: nothing else happens until it is done for all *)
(* of them.  A task that holds off task switches may use a timer between    *)
(* its expiry and its TimeOut; all other tasks have to wait for SwTimerTask *)
(* (Quiet).                                                                 *)
(*                                                                         *)
(* External: OS_StartTimer goes on with the time left and does nothing for  *)
(* a timer that has expired; OS_RetriggerTimer starts any timer anew; the   *)
(* period 0 is outside what embOS allows, it lasts ZeroPeriod here.         *)
(***************************************************************************)
EXTENDS Integers, Sequences

CONSTANTS
  Timer,
  Chunk,        (* the longest period of an embOS timer in use, 32000 ms   *)
  Second,       (* the period for S, 1000 ms                               *)
  HalfMinute,   (* the period for MINUTE, 30000 ms                         *)
  ZeroPeriod,   (* how long embOS takes for the period 0                   *)
  Room,         (* of mTimeOutList, 50                                     *)
  Unset         (* a counter nobody has written: it may hold any number    *)

ASSUME SwTimerAssumption ==
  /\ Chunk \in Nat \ {0} /\ Second \in Nat \ {0} /\ HalfMinute \in Nat \ {0}
  /\ ZeroPeriod \in Nat \ {0} /\ Room \in Nat /\ Unset \notin Nat

Unit == {"MS", "S", "MINUTE"}

VARIABLES
  timer,      (* the members of each SwTimer and of its embOS timer        *)
  op,         (* what its user is doing with it: the next step, the call   *)
              (* and its arguments                                         *)
  list,       (* mTimeOutList                                              *)
  signalled,  (* RUN_EVENT of SwTimerTask                                  *)
  draining,   (* SwTimerTask is in its loop, with interrupts off           *)
  age,        (* history: ms the timer has run since it was set going; -1  *)
              (* from the next call that sets it until it is set going     *)
  cut         (* history: when it was set last, a callback came between    *)
              (* the counter and OS_RetriggerTimer                         *)

timerVars == <<timer, op, list, signalled, draining, age, cut>>
taskVars == <<list, signalled, draining>>

-----------------------------------------------------------------------------
(* What the operations do to the members.                                   *)

(* A period of one part, which needs no counter.                            *)
Single(r) == r.unit = "MS" /\ r.value <= Chunk

(* Mutants: a period of one part is not told apart; one chunk too many.     *)
Full_Always(r) ==
  CASE r.unit = "MS" -> r.value \div Chunk - 1
    [] r.unit = "S" -> r.value - 1
    [] OTHER -> 2 * r.value - 1

Full_NoMinusOne(r) ==
  CASE r.unit = "MS" -> IF Single(r) THEN 0 ELSE r.value \div Chunk
    [] r.unit = "S" -> r.value - 1
    [] OTHER -> 2 * r.value - 1

(* The counter at the start of the period, and the length of its parts.     *)
Full(r) ==
  CASE r.unit = "MS" -> IF Single(r) THEN 0 ELSE r.value \div Chunk - 1
    [] r.unit = "S" -> r.value - 1
    [] OTHER -> 2 * r.value - 1

Part(r) ==
  CASE r.unit = "MS" -> IF Single(r) THEN r.value ELSE Chunk
    [] r.unit = "S" -> Second
    [] OTHER -> HalfMinute

Retriggered(r) ==
  [r EXCEPT !.os = "running", !.left = IF r.period = 0 THEN ZeroPeriod ELSE r.period]

(* RealTimeOut of a timer that repeats.                                     *)
Reloaded(r) ==
  LET c == [r EXCEPT !.count[r.unit] = Full(r)]
  IN  IF r.unit = "MS" THEN [c EXCEPT !.last = Single(r), !.period = Part(r)] ELSE c

(* A timer as the constructor makes it.  It writes the counter of the unit  *)
(* alone, and none for a single part.                                       *)
Created(v, u, a, start) ==
  LET given == IF v = 0 THEN [value |-> 1, unit |-> "MS", auto |-> FALSE]
                        ELSE [value |-> v, unit |-> u, auto |-> a]
  IN  [value |-> given.value, unit |-> given.unit, auto |-> given.auto,
       started |-> start, last |-> Single(given),
       os |-> IF start THEN "running" ELSE "stopped",
       period |-> Part(given), left |-> Part(given),
       count |-> [k \in Unit |-> IF k = given.unit /\ ~Single(given) THEN Full(given) ELSE Unset]]

(* Nothing is left for the last part.                                       *)
EndsWithZero(r) == r.unit = "MS" /\ r.value > Chunk /\ r.value % Chunk = 0

Duration(r) ==
  CASE r.unit = "MS" -> r.value
    [] r.unit = "S" -> Second * r.value
    [] OTHER -> HalfMinute * (2 * r.value)

(* What GetSwTimerValue says: for the units S and MINUTE in ms and with the *)
(* part that runs, which the code leaves out.                               *)
GetSwTimerValue(r) ==
  CASE r.unit = "MS" -> r.count["MS"] * Chunk + (IF r.last THEN 0 ELSE r.value % Chunk) + r.left
    [] r.unit = "S" -> r.count["S"] * Second + r.left
    [] OTHER -> r.count["MINUTE"] * HalfMinute + r.left

-----------------------------------------------------------------------------
(* Users of the timer t: the first step of each call, if none is under way. *)

Becomes(t, r) == timer' = [timer EXCEPT ![t] = r]

Interrupt == \E t \in Timer : timer[t].os = "running" /\ timer[t].left = 0

(* Nothing of higher priority wants to run.                                 *)
Quiet == ~Interrupt /\ ~signalled /\ ~draining

Idle == [at |-> "done", call |-> "none", value |-> 1, unit |-> "MS", auto |-> FALSE]
Unused(t) == op[t] = Idle
GoesOn(t, at) == op' = [op EXCEPT ![t].at = at]
Returns(t) == op' = [op EXCEPT ![t] = Idle]

StartSwTimer(t) ==
  /\ Unused(t)
  /\ IF timer[t].os = "expired"
     THEN Becomes(t, [timer[t] EXCEPT !.started = FALSE]) /\ UNCHANGED op
     ELSE /\ Becomes(t, [timer[t] EXCEPT !.os = "running"])
          /\ op' = [op EXCEPT ![t] = [Idle EXCEPT !.at = "started", !.call = "start"]]
  /\ UNCHANGED <<taskVars, age, cut>>

StopSwTimer(t) ==
  /\ Unused(t)
  /\ Becomes(t, [timer[t] EXCEPT !.os = IF @ = "running" THEN "stopped" ELSE @, !.started = FALSE])
  /\ UNCHANGED <<op, taskVars, age, cut>>

RetriggerSwTimer(t) ==
  /\ Unused(t)
  /\ op' = [op EXCEPT ![t] = [Idle EXCEPT !.at = "count", !.call = "retrigger"]]
  /\ age' = [age EXCEPT ![t] = -1]
  /\ UNCHANGED <<timer, taskVars, cut>>

(* The period 0 becomes 1 ms, once.                                         *)
SetSwTimerPeriod(t, v, u, a) ==
  /\ Unused(t)
  /\ LET given == IF v = 0 THEN [value |-> 1, unit |-> "MS", auto |-> FALSE]
                           ELSE [value |-> v, unit |-> u, auto |-> a]
     IN  /\ Becomes(t, [timer[t] EXCEPT !.auto = given.auto])
         /\ op' = [op EXCEPT ![t] = [at |-> "unit", call |-> "set", value |-> given.value,
                                     unit |-> given.unit, auto |-> given.auto]]
  /\ age' = [age EXCEPT ![t] = -1]
  /\ UNCHANGED <<taskVars, cut>>

(* The steps that follow.                                                   *)

WriteUnit(t) ==
  /\ op[t].at = "unit" /\ GoesOn(t, "value")
  /\ Becomes(t, [timer[t] EXCEPT !.unit = op[t].unit])
  /\ UNCHANGED <<taskVars, age, cut>>

WriteValue(t) ==
  /\ op[t].at = "value" /\ GoesOn(t, "count")
  /\ Becomes(t, [timer[t] EXCEPT !.value = op[t].value])
  /\ UNCHANGED <<taskVars, age, cut>>

WriteCount(t) ==
  /\ op[t].at = "count"
  /\ GoesOn(t, IF timer[t].unit = "MS" THEN "last"
               ELSE IF op[t].call = "set" THEN "period" ELSE "go")
  /\ Becomes(t, [timer[t] EXCEPT !.count[timer[t].unit] = Full(timer[t])])
  /\ cut' = [cut EXCEPT ![t] = FALSE]
  /\ UNCHANGED <<taskVars, age>>

WriteLast(t) ==
  /\ op[t].at = "last" /\ GoesOn(t, "period")
  /\ Becomes(t, [timer[t] EXCEPT !.last = Single(timer[t])])
  /\ UNCHANGED <<taskVars, age, cut>>

SetTimerPeriod(t) ==
  /\ op[t].at = "period" /\ GoesOn(t, IF op[t].call = "set" THEN "test" ELSE "go")
  /\ Becomes(t, [timer[t] EXCEPT !.period = Part(timer[t])])
  /\ UNCHANGED <<taskVars, age, cut>>

(* Only a timer that runs, or is to repeat, begins anew.                    *)
TestStarted(t) ==
  /\ op[t].at = "test"
  /\ IF timer[t].started \/ timer[t].auto THEN GoesOn(t, "go") ELSE Returns(t)
  /\ UNCHANGED <<timer, taskVars, age, cut>>

RetriggerTimer(t) ==
  /\ op[t].at = "go"
  /\ IF op[t].call = "set" THEN Returns(t) ELSE GoesOn(t, "started")
  /\ Becomes(t, Retriggered(timer[t]))
  /\ age' = [age EXCEPT ![t] = 0]
  /\ UNCHANGED <<taskVars, cut>>

WriteStarted(t) ==
  /\ op[t].at = "started" /\ Returns(t)
  /\ Becomes(t, [timer[t] EXCEPT !.started = TRUE])
  /\ UNCHANGED <<taskVars, age, cut>>

Continue(t) ==
  \/ WriteUnit(t) \/ WriteValue(t) \/ WriteCount(t) \/ WriteLast(t) \/ SetTimerPeriod(t)
  \/ TestStarted(t) \/ RetriggerTimer(t) \/ WriteStarted(t)

-----------------------------------------------------------------------------
(* The interrupt of the operating system's clock.                           *)

(* SwTimerTask is done within the ms: no region lasts that long.            *)
Tick ==
  /\ Quiet
  /\ \E t \in Timer : timer[t].os = "running"
  /\ timer' = [t \in Timer |-> IF timer[t].os = "running"
                               THEN [timer[t] EXCEPT !.left = @ - 1] ELSE timer[t]]
  /\ age' = [t \in Timer |-> IF timer[t].os = "running" /\ age[t] >= 0
                             THEN age[t] + 1 ELSE age[t]]
  /\ UNCHANGED <<op, taskVars, cut>>

Due(t) == timer[t].os = "running" /\ timer[t].left = 0

(* What the counter of the unit holds, for one that may be unset.           *)
Count(t) == timer[t].count[timer[t].unit]
MayBeZero(t) == Count(t) \in {0, Unset}

(* The user has written the counter and not yet set the timer going.        *)
Between(t) == op[t].at \in {"last", "period", "test", "go"}
Setting(t) == op[t].at \notin {"done", "started"}

(* RealCallback before the last part.                                       *)
NextPart(t) ==
  /\ Due(t) /\ ~Single(timer[t]) /\ Count(t) # 0
  /\ Becomes(t, Retriggered(IF Count(t) = Unset THEN timer[t]
                            ELSE [timer[t] EXCEPT !.count[timer[t].unit] = @ - 1]))
  /\ cut' = [cut EXCEPT ![t] = @ \/ Between(t)]
  /\ UNCHANGED <<op, taskVars, age>>

(* Mutant: the last part takes a whole chunk.                               *)
LastPart_Whole(t) ==
  /\ Due(t) /\ timer[t].unit = "MS" /\ ~Single(timer[t]) /\ MayBeZero(t) /\ ~timer[t].last
  /\ Becomes(t, Retriggered([timer[t] EXCEPT !.last = TRUE, !.count["MS"] = 0]))
  /\ cut' = [cut EXCEPT ![t] = @ \/ Between(t)]
  /\ UNCHANGED <<op, taskVars, age>>

LastPart(t) ==
  /\ Due(t) /\ timer[t].unit = "MS" /\ ~Single(timer[t]) /\ MayBeZero(t) /\ ~timer[t].last
  /\ Becomes(t, Retriggered([timer[t] EXCEPT !.last = TRUE, !.count["MS"] = 0,
                                             !.period = timer[t].value % Chunk]))
  /\ cut' = [cut EXCEPT ![t] = @ \/ Between(t)]
  /\ UNCHANGED <<op, taskVars, age>>

(* mSec and mMin follow the value, but only after it is written.            *)
Repeated(t) ==
  IF timer[t].unit # "MS" /\ op[t].at \in {"value", "count"} /\ op[t].call = "set"
  THEN Retriggered([timer[t] EXCEPT !.count[timer[t].unit] = Unset])
  ELSE Retriggered(Reloaded(timer[t]))

(* RealTimeOut: a full queue forgets the timeout.                           *)
RealTimeOut(t) ==
  /\ Due(t)
  /\ Single(timer[t]) \/ (MayBeZero(t) /\ (timer[t].unit = "MS" => timer[t].last))
  /\ IF timer[t].auto
     THEN Becomes(t, Repeated(t)) /\ age' = [age EXCEPT ![t] = IF Setting(t) THEN @ ELSE 0]
     ELSE Becomes(t, [timer[t] EXCEPT !.started = FALSE, !.os = "expired"]) /\ UNCHANGED age
  /\ cut' = [cut EXCEPT ![t] = Between(t)]
  /\ list' = IF Len(list) < Room THEN Append(list, t) ELSE list
  /\ signalled' = TRUE
  /\ UNCHANGED <<op, draining>>

Callback(t) == NextPart(t) \/ LastPart(t) \/ RealTimeOut(t)

-----------------------------------------------------------------------------
(* SwTimerTask::Run.                                                        *)

WaitEvent ==
  /\ ~Interrupt /\ signalled /\ ~draining
  /\ signalled' = FALSE /\ draining' = TRUE
  /\ UNCHANGED <<timer, op, list, age, cut>>

(* The next timer, whose TimeOut notifies the observer.                     *)
ReadTimeOut ==
  /\ draining /\ list # <<>>
  /\ list' = Tail(list)
  /\ UNCHANGED <<timer, op, signalled, draining, age, cut>>

EndOfList ==
  /\ draining /\ list = <<>>
  /\ draining' = FALSE
  /\ UNCHANGED <<timer, op, list, signalled, age, cut>>

-----------------------------------------------------------------------------
(* Types of all variables.                                                  *)
TimerType ==
  [unit : Unit, value : Nat \ {0}, auto : BOOLEAN, started : BOOLEAN,
   count : [Unit -> Nat \cup {Unset}], last : BOOLEAN, period : Nat,
   os : {"stopped", "running", "expired"}, left : Nat]

OpType ==
  [at : {"done", "unit", "value", "count", "last", "period", "test", "go", "started"},
   call : {"none", "start", "retrigger", "set"},
   value : Nat \ {0}, unit : Unit, auto : BOOLEAN]

TimerTypeOK ==
  /\ timer \in [Timer -> TimerType]
  /\ op \in [Timer -> OpType]
  /\ list \in Seq(Timer)
  /\ signalled \in BOOLEAN /\ draining \in BOOLEAN
  /\ age \in [Timer -> Nat \cup {-1}]
  /\ cut \in [Timer -> BOOLEAN]

(* What a timer that runs has run and what GetSwTimerValue says is left are *)
(* never more than its period, through all chunks and whatever was done to  *)
(* it before; and they add up to it exactly, unless a callback came between *)
(* the counter and OS_RetriggerTimer when it was set (SwTimer.cpp:162-184,  *)
(* :208-235; :252-273).  Two kinds of period are left out: a single part of *)
(* a timer that was only created and started, whose counter is unset, and a *)
(* period that ends with the period 0.                                      *)
ValueIsRemaining ==
  \A t \in Timer : LET r == timer[t] IN
    r.os = "running" /\ age[t] >= 0 /\ Count(t) # Unset /\ ~EndsWithZero(r) =>
      /\ age[t] + GetSwTimerValue(r) <= Duration(r)
      /\ ~cut[t] => age[t] + GetSwTimerValue(r) = Duration(r)

(* SwTimerTask does not sleep over a timeout: its event is one bit for all. *)
NoTimeoutWaits == list # <<>> => signalled \/ draining

(* What a timer says of itself is so, and its timeout will be delivered.    *)
TimersFit == ValueIsRemaining /\ NoTimeoutWaits

(* The last part of a period that the chunks fill is the period 0 of embOS. *)
Extra(r) == IF EndsWithZero(r) THEN ZeroPeriod ELSE 0

(* A timeout is never late, but for the period 0 at its end, and exactly on *)
(* time unless a callback came between the counter and OS_RetriggerTimer    *)
(* when the timer was set (then it is early by the parts that were lost).   *)
TimeoutOnTime ==
  [][\A t \in Timer :
       Due(t) /\ list' = Append(list, t) /\ age[t] >= 0 =>
         /\ age[t] <= Duration(timer[t]) + Extra(timer[t])
         /\ ~cut[t] => age[t] = Duration(timer[t]) + Extra(timer[t])]_timerVars

=============================================================================

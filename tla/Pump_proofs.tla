----------------------------- MODULE Pump_proofs -----------------------------
(***************************************************************************)
(* Proofs about the pumps, for any number of them, any delays and inputs,   *)
(* and whether or not the task keeps up with the timers: active delays end, *)
(* outputs and relays are as they should be, alarms are reset.  And in a    *)
(* pit of two pumps, events of a kind are apart.                            *)
(***************************************************************************)
EXTENDS Pump, TLAPS

-----------------------------------------------------------------------------
(* The inductive invariant: a timeout that is noted has its pump queued, so *)
(* neither the end of a run nor a new one forgets it.                       *)

TimerTypes ==
  /\ <<noOfPumps, cnf>> \in Configs
  /\ runReq \in [Pumps -> BOOLEAN]
  /\ active \in [Delays -> BOOLEAN]
  /\ timer \in [Pumps -> [Timers -> 0 .. MaxTime]]
  /\ period \in [Pumps -> [Delays -> 1 .. MaxTime]]
  /\ timeOut \in [Pumps -> SUBSET Delays]

TimeOutQueued == \A p \in Pumps : timeOut[p] # {} => runReq[p]

(* The delay d has a timer or a timeout to end it.                          *)
Ending(d) == \E p \in Pumps : timer[p][d] > 0 \/ d \in timeOut[p]

DelayInv ==
  /\ TimerTypes
  /\ TimeOutQueued
  /\ \A d \in Delays : active[d] => Ending(d)

-----------------------------------------------------------------------------
(* The delays of a configuration are at least one second.                   *)
LEMMA ConfigDelays ==
  ASSUME NEW n, NEW c, <<n, c>> \in Configs
  PROVE  c \in [Delays -> 1 .. MaxTime]
<1>1. <<n, c>> \in Nat \X [Delays -> 1 .. MaxTime]
  BY PumpAssumption
<1>2. QED
  BY <1>1

LEMMA Constants ==
  /\ MaxTime \in Nat /\ IgnoreTime \in 1 .. MaxTime
  /\ Delays \subseteq Timers
  /\ "contactorIgnore" \notin Delays /\ "alarmReset" \notin Delays
  /\ 1 \in 0 .. MaxTime /\ 0 \in 0 .. MaxTime
  /\ \A n \in 1 .. MaxTime : n \in 0 .. MaxTime /\ n > 0
BY PumpAssumption DEF Delays, Timers

LEMMA InitDelayInv == Init => DelayInv
<1> SUFFICES ASSUME Init PROVE DelayInv
  OBVIOUS
<1>1. <<noOfPumps, cnf>> \in Configs
  <2>1. PICK c \in Configs : noOfPumps = c[1] /\ cnf = c[2]
    BY DEF Init
  <2>2. c \in Nat \X [Delays -> 1 .. MaxTime]
    BY PumpAssumption
  <2>3. c = <<c[1], c[2]>>
    BY <2>2
  <2>4. QED
    BY <2>1, <2>3
<1>2. cnf \in [Delays -> 1 .. MaxTime]
  BY <1>1, ConfigDelays
<1>3. TimerTypes
  BY <1>1, <1>2, Constants DEF Init, TimerTypes
<1>4. QED
  BY <1>3 DEF Init, DelayInv, TimeOutQueued

-----------------------------------------------------------------------------
(* What others do: the requests grow, the timers stay.                      *)
LEMMA InputStep ==
  ASSUME DelayInv, NEW p \in Pumps, NEW r \in Inputs, SetInput(p, r)
  PROVE  DelayInv'
<1>1. runReq' \in [Pumps -> BOOLEAN] /\ \A q \in Pumps : runReq[q] => runReq'[q]
  BY DEF DelayInv, TimerTypes, SetInput
<1>2. UNCHANGED <<noOfPumps, cnf, active, timer, period, timeOut>>
  BY DEF SetInput
<1>3. QED
  BY <1>1, <1>2 DEF DelayInv, TimerTypes, TimeOutQueued, Ending

LEMMA ConfigStep ==
  ASSUME DelayInv, NEW c \in NewConfigs, SetConfig(c[1], c[2])
  PROVE  DelayInv'
<1>1. <<noOfPumps, cnf>>' \in Configs
  <2>1. c \in Configs /\ c \in Nat \X [Delays -> 1 .. MaxTime]
    BY PumpAssumption
  <2>2. c = <<c[1], c[2]>>
    BY <2>1
  <2>3. QED
    BY <2>1, <2>2 DEF SetConfig
<1>2. runReq' = [q \in Pumps |-> TRUE] /\ UNCHANGED <<active, timer, period, timeOut>>
  BY DEF SetConfig
<1>3. QED
  BY <1>1, <1>2 DEF DelayInv, TimerTypes, TimeOutQueued, Ending

(* A timer goes on or its timeout is noted.                                 *)
LEMMA TickStep ==
  ASSUME DelayInv, Tick
  PROVE  DelayInv'
<1> DEFINE Expired(p) == {t \in Timers : timer[p][t] = 1}
<1>1. /\ timer' = [p \in Pumps |-> [t \in Timers |-> CountDown(timer[p][t])]]
      /\ timeOut' = [p \in Pumps |-> TimedOut(p, Expired(p))]
      /\ runReq' = [p \in Pumps |-> runReq[p] \/ Expired(p) # {}]
      /\ UNCHANGED <<noOfPumps, cnf, active, period>>
  BY DEF Tick, inputs
<1>2. \A n \in 0 .. MaxTime :
        CountDown(n) \in 0 .. MaxTime /\ (n > 0 /\ n # 1 => CountDown(n) > 0)
  BY Constants DEF CountDown
<1>3. \A p \in Pumps, t \in Timers : timer[p][t] \in 0 .. MaxTime
  BY DEF DelayInv, TimerTypes
<1>4. TimerTypes'
  <2>1. timer' \in [Pumps -> [Timers -> 0 .. MaxTime]]
    BY <1>1, <1>2, <1>3
  <2>2. timeOut' \in [Pumps -> SUBSET Delays]
    BY <1>1 DEF TimedOut, DelayInv, TimerTypes
  <2>3. runReq' \in [Pumps -> BOOLEAN]
    BY <1>1
  <2>4. QED
    BY <2>1, <2>2, <2>3, <1>1 DEF DelayInv, TimerTypes
<1>5. TimeOutQueued'
  BY <1>1 DEF DelayInv, TimeOutQueued, TimedOut
<1>6. ASSUME NEW d \in Delays, active'[d]
      PROVE  Ending(d)'
  <2>1. PICK p \in Pumps : timer[p][d] > 0 \/ d \in timeOut[p]
    BY <1>1, <1>6 DEF DelayInv, Ending
  <2>2. d \in Timers
    BY Constants
  <2>3. CASE timer[p][d] = 1 \/ d \in timeOut[p]
    BY <2>1, <2>2, <2>3, <1>1 DEF TimedOut, Ending
  <2>4. CASE timer[p][d] > 0 /\ timer[p][d] # 1
    BY <2>2, <2>4, <1>1, <1>2, <1>3 DEF Ending
  <2>5. QED
    BY <2>1, <2>3, <2>4
<1>7. QED
  BY <1>4, <1>5, <1>6 DEF DelayInv

-----------------------------------------------------------------------------
(* Configure clears the delays whose timeout of this pump is noted, and     *)
(* starts a timer for those that a disabled pump begins.                    *)
LEMMA ConfigureStep ==
  ASSUME DelayInv, NEW p \in Pumps, Configure(p)
  PROVE  DelayInv'
<1> DEFINE counted == "noOfPumps" \in updated[p]
           removed == counted /\ p > noOfPumps
           installed == IF counted THEN ~removed ELSE st[p].installed
           enable == input[p].enable /\ ~removed
           asked == installed /\ (counted \/ "enable" \in updated[p])
           disabled == asked /\ ~enable
           stop == /\ disabled
                   /\ (IF removed THEN "notInstalled" ELSE IF counted THEN "stopped" ELSE st[p].act)
                        = "started"
           off == removed \/ disabled
           delays == [d \in Delays |-> active[d] \/ (stop /\ d # "startStart")]
           changed == delays # active \/ active' # delays
<1>1. /\ active' = [d \in Delays |-> delays[d] /\ d \notin timeOut[p]]
      /\ timer' = [timer EXCEPT ![p] = [t \in Timers |->
           IF t = "alarmReset" /\ off /\ contactor[p].flag THEN 1
           ELSE IF t \in Delays /\ Retriggered(p, t, stop) THEN period'[p][t] ELSE @[t]]]
      /\ runReq' = [Requested(p, changed) EXCEPT ![p] = changed \/ (removed /\ input[p].enable)]
  BY DEF Configure
<1> HIDE DEF off, stop, changed
<1>2. /\ period' = [period EXCEPT ![p] = [d \in Delays |->
                      IF d \in updated[p] THEN cnf[d] ELSE @[d]]]
      /\ timeOut' = [timeOut EXCEPT ![p] = {}]
      /\ UNCHANGED <<noOfPumps, cnf>>
  BY DEF Configure
<1>3. cnf \in [Delays -> 1 .. MaxTime]
  BY ConfigDelays DEF DelayInv, TimerTypes
<1>4. period' \in [Pumps -> [Delays -> 1 .. MaxTime]]
  BY <1>2, <1>3 DEF DelayInv, TimerTypes
<1>5. timer' \in [Pumps -> [Timers -> 0 .. MaxTime]]
  <2> DEFINE new(t) == IF t = "alarmReset" /\ off /\ contactor[p].flag THEN 1
                       ELSE IF t \in Delays /\ Retriggered(p, t, stop) THEN period'[p][t]
                       ELSE timer[p][t]
  <2>1. timer' = [timer EXCEPT ![p] = [t \in Timers |-> new(t)]]
    BY <1>1
  <2>2. \A t \in Timers : new(t) \in 0 .. MaxTime
    BY <1>4, Constants DEF DelayInv, TimerTypes
  <2> HIDE DEF new
  <2>3. QED
    BY <2>1, <2>2 DEF DelayInv, TimerTypes
<1>6. timeOut' \in [Pumps -> SUBSET Delays] /\ active' \in [Delays -> BOOLEAN]
  BY <1>1, <1>2 DEF DelayInv, TimerTypes
<1>7. runReq' \in [Pumps -> BOOLEAN] /\ \A q \in Pumps \ {p} : runReq[q] => runReq'[q]
  BY <1>1 DEF Requested, DelayInv, TimerTypes
<1>8. TimerTypes'
  BY <1>2, <1>4, <1>5, <1>6, <1>7 DEF DelayInv, TimerTypes
<1>9. TimeOutQueued'
  BY <1>2, <1>7 DEF DelayInv, TimeOutQueued, TimerTypes
<1>10. ASSUME NEW d \in Delays, active'[d]
       PROVE  Ending(d)'
  <2>1. d \notin timeOut[p] /\ (active[d] \/ (stop /\ d # "startStart"))
    BY <1>1, <1>10
  <2>2. /\ d \in Timers /\ d # "alarmReset"
        /\ timer'[p][d] = IF Retriggered(p, d, stop) THEN period'[p][d] ELSE timer[p][d]
    BY <1>1, Constants DEF DelayInv, TimerTypes
  <2>3. period'[p][d] > 0
    BY <1>4, Constants
  <2>4. CASE stop /\ d # "startStart"
    <3>1. Retriggered(p, d, stop)
      BY <2>4 DEF Retriggered, Delays
    <3>2. QED
      BY <3>1, <2>2, <2>3 DEF Ending
  <2>5. CASE active[d]
    <3>1. PICK q \in Pumps : timer[q][d] > 0 \/ d \in timeOut[q]
      BY <2>5 DEF DelayInv, Ending
    <3>2. CASE q = p
      BY <3>1, <3>2, <2>1, <2>2, <2>3 DEF Ending
    <3>3. CASE q # p
      <4>1. timer'[q] = timer[q] /\ timeOut'[q] = timeOut[q]
        BY <3>3, <1>1, <1>2 DEF DelayInv, TimerTypes
      <4>2. QED
        BY <3>1, <4>1 DEF Ending
    <3>4. QED
      BY <3>2, <3>3
  <2>6. QED
    BY <2>1, <2>4, <2>5
<1>11. QED
  BY <1>8, <1>9, <1>10 DEF DelayInv

LEMMA SkipStep ==
  ASSUME DelayInv, NEW p \in Pumps, Skip(p)
  PROVE  DelayInv'
BY DEF Skip, inputs, DelayInv, TimerTypes, TimeOutQueued, Ending

(* Operate starts a timer for every delay that it begins.                   *)
LEMMA OperateStep ==
  ASSUME DelayInv, NEW p \in Pumps, Operate(p)
  PROVE  DelayInv'
<1> DEFINE in == input[p]
           start == Wanted(in) /\ st[p].act = "stopped" /\ MayStart(p)
           halt == ~Wanted(in) /\ st[p].act = "started" /\ MayStop(p)
           act == IF start THEN "started" ELSE IF halt THEN "stopped" ELSE st[p].act
           event == IF start THEN {"startStart", "startStopStart"}
                    ELSE IF halt THEN {"stopStop", "startStopStart"} ELSE {}
           r == IF in.vfd = "none" THEN DirectRelays(act, in) ELSE VfdRelays(act, in, out[p].relay)
           seen == in.vfd # "none" /\ act = "started" /\ in.vfd \in VfdRuns
           switched == r.relay # out[p].relay /\ (r.comparable \/ r.relay)
           ignore == \/ switched
                     \/ seen /\ "vfd" \in updated[p]
                     \/ start /\ timer[p]["contactorIgnore"] > 0
           comparable == r.comparable /\ in.feedback # "none"
           judged == ~comparable \/ in.reference
           alarm == comparable
                    /\ (IF in.feedback = "active" THEN "started" ELSE "stopped") # act
           reset == judged /\ ~alarm /\ contactor[p].flag
           new(t) == IF t \in event THEN period[p][t]
                     ELSE IF t = "contactorIgnore" /\ ignore THEN IgnoreTime
                     ELSE IF t = "alarmReset" /\ reset THEN 1
                     ELSE timer[p][t]
<1>1. /\ active' = [d \in Delays |-> active[d] \/ d \in event]
      /\ timer' = [timer EXCEPT ![p] = [t \in Timers |-> new(t)]]
  BY DEF Operate
<1>0. event \subseteq Delays
  BY DEF Delays
<1> HIDE DEF event, ignore, reset
<1>2. /\ runReq' = [q \in Pumps |-> runReq[q] \/ active' # active]
      /\ UNCHANGED <<noOfPumps, cnf, period, timeOut>>
  BY DEF Operate, inputs
<1>3. \A d \in Delays : period[p][d] \in 1 .. MaxTime
  BY DEF DelayInv, TimerTypes
<1>4. timer' \in [Pumps -> [Timers -> 0 .. MaxTime]]
  <2>1. \A t \in Timers : new(t) \in 0 .. MaxTime
    BY <1>0, <1>3, Constants DEF DelayInv, TimerTypes
  <2> HIDE DEF new
  <2>2. QED
    BY <1>1, <2>1 DEF DelayInv, TimerTypes
<1>5. TimerTypes' /\ TimeOutQueued'
  BY <1>1, <1>2, <1>4 DEF DelayInv, TimerTypes, TimeOutQueued
<1>6. ASSUME NEW d \in Delays, active'[d]
      PROVE  Ending(d)'
  <2>1. /\ d \in Timers
        /\ timer'[p][d] = IF d \in event THEN period[p][d] ELSE timer[p][d]
        /\ period[p][d] > 0
    BY <1>1, <1>3, Constants DEF DelayInv, TimerTypes
  <2>2. CASE d \in event
    BY <2>1, <2>2 DEF Ending
  <2>3. CASE d \notin event
    <3>1. PICK q \in Pumps : timer[q][d] > 0 \/ d \in timeOut[q]
      BY <1>1, <1>6, <2>3 DEF DelayInv, Ending
    <3>2. timer'[q][d] = timer[q][d] /\ timeOut'[q] = timeOut[q]
      BY <1>1, <1>2, <2>1, <2>3 DEF DelayInv, TimerTypes
    <3>3. QED
      BY <3>1, <3>2 DEF Ending
  <2>4. QED
    BY <2>2, <2>3
<1>7. QED
  BY <1>5, <1>6 DEF DelayInv

-----------------------------------------------------------------------------
LEMMA NextDelayInv == DelayInv /\ [Next]_vars => DelayInv'
<1> SUFFICES ASSUME DelayInv, [Next]_vars PROVE DelayInv'
  OBVIOUS
<1>1. CASE UNCHANGED vars
  BY <1>1 DEF vars, inputs, DelayInv, TimerTypes, TimeOutQueued, Ending
<1>2. CASE \E p \in Pumps, r \in Inputs : SetInput(p, r)
  BY <1>2, InputStep
<1>3. CASE \E c \in NewConfigs : SetConfig(c[1], c[2])
  BY <1>3, ConfigStep
<1>4. CASE Tick
  BY <1>4, TickStep
<1>5. CASE \E p \in Pumps : RunSubTask(p)
  BY <1>5, ConfigureStep, SkipStep, OperateStep DEF RunSubTask
<1>6. QED
  BY <1>1, <1>2, <1>3, <1>4, <1>5 DEF Next

(* No delay is active for ever: whatever the pumps do and whenever they are *)
(* run, an active delay has a running timer or a timeout whose pump is      *)
(* queued (Pump::NormalRun :427-428, :444-459, :518-521).                   *)
THEOREM EveryDelayEnds == Spec => []DelayEnds
<1>1. DelayInv => DelayEnds
  BY DEF DelayInv, DelayEnds, Ending, TimeOutQueued, TimerTypes
<1>2. QED
  BY <1>1, InitDelayInv, NextDelayInv, PTL DEF Spec

-----------------------------------------------------------------------------
(* A pump that is disabled or not installed.  The inductive invariant says  *)
(* that a pump without a mark on the number of pumps or on its enable flag  *)
(* knows them, and that its outputs follow what it knows.                   *)

InputTypes ==
  /\ noOfPumps \in Nat
  /\ DOMAIN input = Pumps
  /\ \A p \in Pumps : DOMAIN input[p] = InputFields /\ input[p].enable \in BOOLEAN

StateTypes ==
  /\ runReq \in [Pumps -> BOOLEAN]
  /\ DOMAIN updated = Pumps
  /\ st \in [Pumps -> [installed : BOOLEAN, enabled : BOOLEAN,
                       act : {"notInstalled", "disabled", "stopped", "started"}]]
  /\ DOMAIN out = Pumps
  /\ \A p \in Pumps : DOMAIN out[p] = {"relay", "reverse", "vfdStart", "ready", "available", "mode"}

Marked(p) == "noOfPumps" \in updated[p] \/ "enable" \in updated[p]

(* What the pump knows of the number of pumps and of its enable flag.       *)
Knows(p) ==
  /\ "noOfPumps" \notin updated[p] => (st[p].installed <=> p <= noOfPumps)
  /\ ~Marked(p) /\ st[p].installed => (st[p].enabled <=> input[p].enable)

Off(p) ==
  /\ ~out[p].relay /\ ~out[p].reverse /\ out[p].vfdStart = "no" /\ ~out[p].ready
  /\ out[p].mode = IF st[p].installed THEN "disabled" ELSE "notInstalled"

OutputInv ==
  /\ InputTypes
  /\ StateTypes
  /\ \A p \in Pumps :
       /\ Marked(p) => runReq[p]
       /\ Knows(p)
       /\ ~(st[p].installed /\ st[p].enabled) => Off(p)
       /\ ~(st[p].installed /\ st[p].enabled) /\ running # p => ~out[p].available

LEMMA InitOutputInv == Init => OutputInv
<1> SUFFICES ASSUME Init PROVE OutputInv
  OBVIOUS
<1>1. noOfPumps \in Nat
  <2>1. PICK c \in Configs : noOfPumps = c[1]
    BY DEF Init
  <2>2. QED
    BY <2>1, PumpAssumption
<1>2. InputTypes /\ StateTypes
  BY <1>1, PumpAssumption DEF Init, InputTypes, StateTypes
<1>3. \A p \in Pumps : Marked(p) /\ runReq[p]
  BY DEF Init, Marked
<1>4. \A p \in Pumps : Off(p) /\ ~out[p].available
  BY DEF Init, Off
<1>5. QED
  <2>1. \A p \in Pumps : Knows(p)
    BY DEF Init, Knows, Marked
  <2>2. QED
    BY <1>2, <1>3, <1>4, <2>1 DEF OutputInv

(* Another value of the enable flag comes with a mark.                      *)
LEMMA InputOutputStep ==
  ASSUME OutputInv, NEW p \in Pumps, NEW r \in Inputs, SetInput(p, r)
  PROVE  OutputInv'
<1> DEFINE new == [f \in InputFields |-> IF f \in DOMAIN r THEN r[f] ELSE input[p][f]]
<1>1. /\ input' = [input EXCEPT ![p] = new]
      /\ updated' = [updated EXCEPT ![p] = @ \cup {f \in {"enable", "vfd"} : new[f] # input[p][f]}]
      /\ runReq' = [runReq EXCEPT ![p] = TRUE]
      /\ UNCHANGED <<noOfPumps, running, st, out>>
  BY DEF SetInput
<1>2. DOMAIN new = InputFields /\ new.enable \in BOOLEAN
  BY PumpAssumption DEF InputFields, OutputInv, InputTypes
<1> HIDE DEF new
<1>3. InputTypes'
  BY <1>1, <1>2 DEF OutputInv, InputTypes
<1>4. StateTypes'
  BY <1>1 DEF OutputInv, StateTypes
<1>5. ASSUME NEW q \in Pumps
      PROVE  (Marked(q) => runReq[q])' /\ Knows(q)'
  <2>1. CASE q # p
    BY <2>1, <1>1, <1>5 DEF OutputInv, InputTypes, StateTypes, Marked, Knows
  <2>2. CASE q = p
    <3>1. runReq'[p]
      BY <1>1 DEF OutputInv, StateTypes
    <3>2. updated'[p] = updated[p] \cup {f \in {"enable", "vfd"} : new[f] # input[p][f]}
      BY <1>1 DEF OutputInv, StateTypes
    <3>3. input'[p].enable = new.enable
      BY <1>1 DEF OutputInv, InputTypes
    <3>4. /\ "noOfPumps" \in updated'[p] <=> "noOfPumps" \in updated[p]
          /\ ~Marked(p)' => ~Marked(p) /\ new.enable = input[p].enable
      BY <3>2 DEF Marked
    <3>5. QED
      BY <2>2, <3>1, <3>3, <3>4, <1>1 DEF OutputInv, Knows
  <2>3. QED
    BY <2>1, <2>2
<1>6. QED
  BY <1>1, <1>3, <1>4, <1>5 DEF OutputInv, Off

LEMMA ConfigOutputStep ==
  ASSUME OutputInv, NEW c \in NewConfigs, SetConfig(c[1], c[2])
  PROVE  OutputInv'
<1> DEFINE new == {d \in Delays : c[2][d] # cnf[d]} \cup {f \in {"noOfPumps"} : c[1] # noOfPumps}
<1>1. /\ noOfPumps' = c[1]
      /\ updated' = [q \in Pumps |-> updated[q] \cup new]
      /\ runReq' = [q \in Pumps |-> TRUE]
      /\ UNCHANGED <<input, running, st, out>>
  BY DEF SetConfig
<1>2. noOfPumps' \in Nat
  BY <1>1, PumpAssumption
<1>3. InputTypes' /\ StateTypes'
  BY <1>1, <1>2 DEF OutputInv, InputTypes, StateTypes
<1>4. ASSUME NEW q \in Pumps
      PROVE  Knows(q)'
  <2>1. updated'[q] = updated[q] \cup new
    BY <1>1
  <2>2. "noOfPumps" \notin updated'[q] => "noOfPumps" \notin updated[q] /\ noOfPumps' = noOfPumps
    BY <1>1, <2>1
  <2>3. ~Marked(q)' => ~Marked(q)
    BY <2>1 DEF Marked
  <2>4. QED
    BY <2>2, <2>3, <1>1 DEF OutputInv, Knows
<1>5. QED
  BY <1>1, <1>3, <1>4 DEF OutputInv, Off

LEMMA TickOutputStep ==
  ASSUME OutputInv, Tick
  PROVE  OutputInv'
<1>1. /\ UNCHANGED <<noOfPumps, input, updated, running, st, out>>
      /\ runReq' \in [Pumps -> BOOLEAN] /\ \A p \in Pumps : runReq[p] => runReq'[p]
  BY DEF Tick, inputs
<1>2. QED
  BY <1>1 DEF OutputInv, InputTypes, StateTypes, Marked, Knows, Off

(* Configure takes in both marks, and switches off or leaves alone.         *)
LEMMA ConfigureOutputStep ==
  ASSUME OutputInv, NEW p \in Pumps, Configure(p)
  PROVE  OutputInv'
<1> DEFINE counted == "noOfPumps" \in updated[p]
           removed == counted /\ p > noOfPumps
           installed == IF counted THEN ~removed ELSE st[p].installed
           enable == input[p].enable /\ ~removed
           asked == installed /\ (counted \/ "enable" \in updated[p])
           disabled == asked /\ ~enable
           act == IF removed THEN "notInstalled" ELSE IF counted THEN "stopped" ELSE st[p].act
           off == removed \/ disabled
           new == [installed |-> installed, enabled |-> IF asked THEN enable ELSE st[p].enabled,
                   act |-> IF disabled THEN "disabled" ELSE IF asked THEN "stopped" ELSE act]
<1>1. /\ running = NONE /\ running' = p /\ runReq[p]
      /\ input' = [input EXCEPT ![p].enable = enable]
      /\ updated' = [updated EXCEPT ![p] = @ \cap {"vfd"}]
      /\ st' = [st EXCEPT ![p] = new]
      /\ out' = IF off THEN [out EXCEPT ![p] = SwitchedOff(@, new.act)] ELSE out
      /\ UNCHANGED noOfPumps
  <2>1. /\ st' = [st EXCEPT ![p] = new]
        /\ out' = IF off THEN [out EXCEPT ![p] = SwitchedOff(@, st'[p].act)] ELSE out
    BY DEF Configure
  <2>2. st'[p] = new
    BY <2>1 DEF OutputInv, StateTypes
  <2>3. running = NONE /\ running' = p /\ runReq[p] /\ UNCHANGED noOfPumps
    BY SMTT(20) DEF Configure
  <2>4. /\ input' = [input EXCEPT ![p].enable = enable]
        /\ updated' = [updated EXCEPT ![p] = @ \cap {"vfd"}]
    BY SMTT(20) DEF Configure
  <2> HIDE DEF off, new, enable
  <2>5. out' = IF off THEN [out EXCEPT ![p] = SwitchedOff(@, new.act)] ELSE out
    <3>1. out' = IF off THEN [out EXCEPT ![p] = SwitchedOff(@, st'[p].act)] ELSE out
      BY <2>1
    <3> QED
      BY <2>2, <3>1, Zenon
  <2>6. QED
    BY <2>1, <2>3, <2>4, <2>5
<1>2. runReq' \in [Pumps -> BOOLEAN] /\ \A q \in Pumps \ {p} : runReq[q] => runReq'[q]
  BY DEF Configure, Requested
<1>3. p \in Nat /\ noOfPumps \in Nat
  BY PumpAssumption DEF OutputInv, InputTypes
<1>4. InputTypes'
  BY <1>1, <1>3 DEF OutputInv, InputTypes, InputFields
<1>5. new \in [installed : BOOLEAN, enabled : BOOLEAN,
               act : {"notInstalled", "disabled", "stopped", "started"}]
  BY DEF OutputInv, StateTypes, InputTypes
<1>6. StateTypes'
  BY <1>1, <1>2, <1>5 DEF OutputInv, StateTypes, SwitchedOff
<1>7. ASSUME NEW q \in Pumps, q # p
      PROVE  /\ (Marked(q) => runReq[q])' /\ Knows(q)'
             /\ (~(st[q].installed /\ st[q].enabled) => Off(q) /\ ~out[q].available)'
  <2>1. /\ input'[q] = input[q] /\ updated'[q] = updated[q] /\ st'[q] = st[q] /\ out'[q] = out[q]
        /\ running # q
    BY <1>1, <1>7, PumpAssumption DEF OutputInv, InputTypes, StateTypes
  <2>2. QED
    BY <2>1, <1>1, <1>2, <1>7 DEF OutputInv, Marked, Knows, Off
<1>8. ~Marked(p)' /\ Knows(p)'
  <2>1. updated'[p] = updated[p] \cap {"vfd"} /\ st'[p] = new
    BY <1>1 DEF OutputInv, StateTypes
  <2>2. input'[p].enable = enable
    BY <1>1 DEF OutputInv, InputTypes, InputFields
  <2>3. installed <=> p <= noOfPumps
    <3>1. CASE counted
      BY <3>1, <1>3
    <3>2. CASE ~counted
      BY <3>2 DEF OutputInv, Knows
    <3>3. QED
      BY <3>1, <3>2
  <2>4. installed => (new.enabled <=> enable)
    BY DEF OutputInv, Marked, Knows
  <2>5. ~Marked(p)'
    BY <2>1 DEF Marked
  <2>6. new.installed = installed
    OBVIOUS
  <2> HIDE DEF new, installed, enable
  <2>7. QED
    BY <2>1, <2>2, <2>3, <2>4, <2>5, <2>6, <1>1 DEF Knows
<1>9. ~(st[p].installed /\ st[p].enabled)' => Off(p)'
  <2>1. st'[p] = new
    BY <1>1 DEF OutputInv, StateTypes
  <2>2. CASE off
    <3>1. out'[p] = SwitchedOff(out[p], new.act)
      BY <1>1, <2>2 DEF OutputInv, StateTypes
    <3>2. new.act = IF new.installed THEN "disabled" ELSE "notInstalled"
      BY <2>2
    <3>3. QED
      BY <2>1, <3>1, <3>2 DEF SwitchedOff, Off, OutputInv, StateTypes
  <2>3. CASE ~off
    <3>1. out'[p] = out[p]
      BY <1>1, <2>3
    <3>2. ASSUME ~(new.installed /\ new.enabled)
          PROVE  ~(st[p].installed /\ st[p].enabled) /\ (new.installed <=> st[p].installed)
      BY <2>3, <3>2 DEF OutputInv, StateTypes
    <3>3. QED
      BY <2>1, <3>1, <3>2 DEF OutputInv, Off
  <2>4. QED
    BY <2>2, <2>3
<1>10. QED
  BY <1>1, <1>4, <1>6, <1>7, <1>8, <1>9 DEF OutputInv

LEMMA SkipOutputStep ==
  ASSUME OutputInv, NEW p \in Pumps, Skip(p)
  PROVE  OutputInv'
<1>1. /\ running = p /\ running' = NONE
      /\ out' = [out EXCEPT ![p].available = FALSE]
      /\ UNCHANGED <<noOfPumps, input, updated, runReq, st>>
  BY DEF Skip, inputs
<1>2. InputTypes' /\ StateTypes'
  BY <1>1 DEF OutputInv, InputTypes, StateTypes
<1>3. ASSUME NEW q \in Pumps, ~(st[q].installed /\ st[q].enabled)
      PROVE  Off(q)' /\ ~out'[q].available
  <2>1. CASE q = p
    BY <2>1, <1>1, <1>3 DEF OutputInv, StateTypes, Off
  <2>2. CASE q # p
    BY <2>2, <1>1, <1>3 DEF OutputInv, StateTypes, Off
  <2>3. QED
    BY <2>1, <2>2
<1>4. QED
  BY <1>1, <1>2, <1>3 DEF OutputInv, Marked, Knows

(* Only a pump that is installed and enabled gets to Operate.               *)
LEMMA OperateOutputStep ==
  ASSUME OutputInv, NEW p \in Pumps, Operate(p)
  PROVE  OutputInv'
<1>1. /\ running = p /\ running' = NONE /\ st[p].installed /\ st[p].enabled
      /\ UNCHANGED <<noOfPumps, input>>
      /\ runReq' = [q \in Pumps |-> runReq[q] \/ active' # active]
  BY DEF Operate, inputs
<1>2. /\ DOMAIN updated' = Pumps
      /\ \A q \in Pumps : /\ "noOfPumps" \in updated'[q] <=> "noOfPumps" \in updated[q]
                          /\ "enable" \in updated'[q] <=> "enable" \in updated[q]
  BY DEF Operate, OutputInv, StateTypes
<1>3. PICK act \in {"notInstalled", "disabled", "stopped", "started"} :
        st' = [st EXCEPT ![p].act = act]
  BY DEF Operate, OutputInv, StateTypes
<1>4. /\ DOMAIN out' = Pumps
      /\ \A q \in Pumps \ {p} : out'[q] = out[q]
      /\ DOMAIN out'[p] = {"relay", "reverse", "vfdStart", "ready", "available", "mode"}
  BY DEF Operate, OutputInv, StateTypes
<1>5. InputTypes' /\ StateTypes'
  <2>1. runReq' \in [Pumps -> BOOLEAN]
    BY <1>1 DEF OutputInv, StateTypes
  <2>2. DOMAIN updated' = Pumps
    BY <1>2
  <2>3. st' \in [Pumps -> [installed : BOOLEAN, enabled : BOOLEAN,
                           act : {"notInstalled", "disabled", "stopped", "started"}]]
    BY <1>3 DEF OutputInv, StateTypes
  <2>4. \A q \in Pumps : DOMAIN out'[q]
                           = {"relay", "reverse", "vfdStart", "ready", "available", "mode"}
    BY <1>4 DEF OutputInv, StateTypes
  <2>5. QED
    BY <1>1, <1>4, <2>1, <2>2, <2>3, <2>4 DEF OutputInv, InputTypes, StateTypes
<1>6. \A q \in Pumps : st'[q].installed = st[q].installed /\ st'[q].enabled = st[q].enabled
  BY <1>3 DEF OutputInv, StateTypes
<1>7. ASSUME NEW q \in Pumps
      PROVE  (Marked(q) => runReq[q])' /\ Knows(q)'
  <2>1. Marked(q)' <=> Marked(q)
    BY <1>2 DEF Marked
  <2>2. runReq[q] => runReq'[q]
    BY <1>1
  <2>3. QED
    BY <1>1, <1>2, <1>6, <2>1, <2>2 DEF OutputInv, Knows
<1>8. ASSUME NEW q \in Pumps, ~(st[q].installed /\ st[q].enabled)'
      PROVE  Off(q)' /\ ~out'[q].available
  <2>1. q # p
    BY <1>1, <1>6, <1>8
  <2>2. QED
    BY <2>1, <1>1, <1>4, <1>6, <1>8 DEF OutputInv, Off
<1>9. QED
  BY <1>5, <1>7, <1>8 DEF OutputInv

LEMMA NextOutputInv == OutputInv /\ [Next]_vars => OutputInv'
<1> SUFFICES ASSUME OutputInv, [Next]_vars PROVE OutputInv'
  OBVIOUS
<1>1. CASE UNCHANGED vars
  BY <1>1 DEF vars, inputs, OutputInv, InputTypes, StateTypes, Marked, Knows, Off
<1>2. CASE \E p \in Pumps, r \in Inputs : SetInput(p, r)
  BY <1>2, InputOutputStep
<1>3. CASE \E c \in NewConfigs : SetConfig(c[1], c[2])
  BY <1>3, ConfigOutputStep
<1>4. CASE Tick
  BY <1>4, TickOutputStep
<1>5. CASE \E p \in Pumps : RunSubTask(p)
  BY <1>5, ConfigureOutputStep, SkipOutputStep, OperateOutputStep DEF RunSubTask
<1>6. QED
  BY <1>1, <1>2, <1>3, <1>4, <1>5 DEF Next

(* A pump that the user has disabled, or that is not installed, has all its *)
(* outputs off once it has taken that in, whatever it did before and        *)
(* whatever else changed meanwhile (Pump::NormalRun :390-464).              *)
THEOREM DisabledPumpsAreOff == Spec => []DisabledIsOff
<1>1. OutputInv => DisabledIsOff
  <2> SUFFICES ASSUME OutputInv, NEW p \in Pumps, Settled(p),
                      p > noOfPumps \/ ~input[p].enable
               PROVE  /\ ~out[p].relay /\ ~out[p].reverse /\ out[p].vfdStart = "no"
                      /\ ~out[p].ready /\ ~out[p].available
                      /\ out[p].mode = IF p > noOfPumps THEN "notInstalled" ELSE "disabled"
    BY DEF DisabledIsOff
  <2>1. Knows(p) /\ ~Marked(p) /\ running # p
    BY PumpAssumption DEF OutputInv, Settled
  <2>2. st[p].installed <=> ~(p > noOfPumps)
    <3>1. st[p].installed <=> p <= noOfPumps
      BY <2>1 DEF Knows, Marked
    <3>2. p \in Nat /\ noOfPumps \in Nat
      BY PumpAssumption DEF OutputInv, InputTypes
    <3>3. QED
      BY <3>1, <3>2
  <2>3. ~(st[p].installed /\ st[p].enabled)
    BY <2>1, <2>2 DEF Knows
  <2>4. QED
    BY <2>1, <2>2, <2>3 DEF OutputInv, Off
<1>2. QED
  BY <1>1, InitOutputInv, NextOutputInv, PTL DEF Spec

-----------------------------------------------------------------------------
(* The types.  What DelayInv and OutputInv say of them is not repeated.     *)
Modes == {"notInstalled", "disabled", "stopped", "started"}

MoreTypes ==
  /\ updated \in [Pumps -> SUBSET (Delays \cup {"noOfPumps", "enable", "vfd"})]
  /\ running \in Pumps \cup {NONE}
  /\ out \in [Pumps -> [relay : BOOLEAN, reverse : BOOLEAN,
                        vfdStart : {"no", "yes", "notAvailable"},
                        ready : BOOLEAN, available : BOOLEAN, mode : Modes]]
  /\ lastEvent \in 0 .. 1
  /\ contactor \in [Pumps -> [flag : BOOLEAN, fault : BOOLEAN]]
  /\ since \in 0 .. MaxTime

LEMMA InitMoreTypes == Init => MoreTypes
  BY PumpAssumption DEF Init, MoreTypes, Modes

LEMMA ContactorTypes ==
  ASSUME NEW c \in [flag : BOOLEAN, fault : BOOLEAN], NEW present \in BOOLEAN, NEW n
  PROVE  SetContactorAlarm(c, present, n > 0) \in [flag : BOOLEAN, fault : BOOLEAN]
  BY DEF SetContactorAlarm

LEMMA NextMoreTypes == OutputInv /\ MoreTypes /\ [Next]_vars => MoreTypes'
<1> SUFFICES ASSUME OutputInv, MoreTypes, [Next]_vars PROVE MoreTypes'
  OBVIOUS
<1>1. CASE UNCHANGED vars
  BY <1>1 DEF vars, inputs, MoreTypes
<1>2. ASSUME NEW p \in Pumps, NEW r \in Inputs, SetInput(p, r) PROVE MoreTypes'
  BY <1>2 DEF SetInput, MoreTypes
<1>3. ASSUME NEW c \in NewConfigs, SetConfig(c[1], c[2]) PROVE MoreTypes'
  BY <1>3 DEF SetConfig, MoreTypes
<1>4. CASE Tick
  <2>1. since' \in 0 .. MaxTime
    BY <1>4, PumpAssumption DEF Tick, MoreTypes
  <2> QED BY <1>4, <2>1 DEF Tick, MoreTypes
<1>5. ASSUME NEW p \in Pumps, Configure(p) PROVE MoreTypes'
  <2> DEFINE counted == "noOfPumps" \in updated[p]
             removed == counted /\ p > noOfPumps
             installed == IF counted THEN ~removed ELSE st[p].installed
             enable == input[p].enable /\ ~removed
             disabled == installed /\ (counted \/ "enable" \in updated[p]) /\ ~enable
             stop == /\ disabled
                     /\ (IF removed THEN "notInstalled"
                         ELSE IF counted THEN "stopped" ELSE st[p].act) = "started"
             off == removed \/ disabled
  <2>1. /\ out' = IF off THEN [out EXCEPT ![p] = SwitchedOff(@, st'[p].act)] ELSE out
        /\ contactor' = IF off
             THEN [contactor EXCEPT ![p] = SetContactorAlarm(@, FALSE, timer[p]["alarmReset"] > 0)]
             ELSE contactor
        /\ lastEvent' = IF stop THEN 0 ELSE lastEvent
        /\ since' = IF stop THEN 0 ELSE since
    BY <1>5 DEF Configure
  <2> HIDE DEF off, stop
  <2>2. updated' = [updated EXCEPT ![p] = updated[p] \cap {"vfd"}] /\ running' = p
    BY <1>5 DEF Configure
  <2>3. st'[p].act \in Modes
    BY <1>5, ConfigureOutputStep DEF OutputInv, StateTypes, Modes
  <2>4. out' \in [Pumps -> [relay : BOOLEAN, reverse : BOOLEAN,
                            vfdStart : {"no", "yes", "notAvailable"},
                            ready : BOOLEAN, available : BOOLEAN, mode : Modes]]
    <3>1. out[p] \in [relay : BOOLEAN, reverse : BOOLEAN,
                      vfdStart : {"no", "yes", "notAvailable"},
                      ready : BOOLEAN, available : BOOLEAN, mode : Modes]
      BY DEF MoreTypes
    <3>2. SwitchedOff(out[p], st'[p].act)
            \in [relay : BOOLEAN, reverse : BOOLEAN,
                vfdStart : {"no", "yes", "notAvailable"},
                ready : BOOLEAN, available : BOOLEAN, mode : Modes]
      BY <2>3, <3>1 DEF SwitchedOff
    <3> QED BY <2>1, <3>2 DEF MoreTypes
  <2>5. contactor' \in [Pumps -> [flag : BOOLEAN, fault : BOOLEAN]]
    <3>1. contactor[p] \in [flag : BOOLEAN, fault : BOOLEAN]
      BY DEF MoreTypes
    <3>2. SetContactorAlarm(contactor[p], FALSE, timer[p]["alarmReset"] > 0)
            \in [flag : BOOLEAN, fault : BOOLEAN]
      BY <3>1, ContactorTypes
    <3> QED BY <2>1, <3>2 DEF MoreTypes
  <2>6. lastEvent' \in 0 .. 1 /\ since' \in 0 .. MaxTime
    BY <2>1, PumpAssumption DEF MoreTypes
  <2> QED BY <2>2, <2>4, <2>5, <2>6 DEF MoreTypes
<1>6. ASSUME NEW p \in Pumps, Skip(p) PROVE MoreTypes'
  <2>1. /\ running' = NONE /\ out' = [out EXCEPT ![p].available = FALSE]
        /\ UNCHANGED <<updated, lastEvent, contactor, since>>
    BY <1>6 DEF Skip
  <2> QED BY <2>1 DEF MoreTypes
<1>7. ASSUME NEW p \in Pumps, Operate(p) PROVE MoreTypes'
  <2> DEFINE in == input[p]
             start == Wanted(in) /\ st[p].act = "stopped" /\ MayStart(p)
             halt == ~Wanted(in) /\ st[p].act = "started" /\ MayStop(p)
             act == IF start THEN "started" ELSE IF halt THEN "stopped" ELSE st[p].act
             event == IF start THEN {"startStart", "startStopStart"}
                      ELSE IF halt THEN {"stopStop", "startStopStart"} ELSE {}
             r == IF in.vfd = "none" THEN DirectRelays(act, in)
                  ELSE VfdRelays(act, in, out[p].relay)
             comparable == r.comparable /\ in.feedback # "none"
             feedback == IF in.feedback = "active" THEN "started" ELSE "stopped"
             judged == ~comparable \/ in.reference
             alarm == comparable /\ feedback # act
             mode == IF comparable /\ timer'[p]["contactorIgnore"] = 0 THEN feedback
                     ELSE IF r.relay THEN "started" ELSE act
  <2>1. /\ out' = [out EXCEPT ![p] =
             [relay |-> r.relay, reverse |-> r.reverse, vfdStart |-> r.vfdStart,
              ready |-> in.req = "auto" /\ ~in.alarm, available |-> TRUE, mode |-> mode]]
        /\ contactor' = IF judged
             THEN [contactor EXCEPT ![p] = SetContactorAlarm(@, alarm, timer[p]["alarmReset"] > 0)]
             ELSE contactor
        /\ lastEvent' = IF start THEN 1 ELSE IF halt THEN 0 ELSE lastEvent
        /\ since' = IF event # {} THEN 0 ELSE since
    BY <1>7 DEF Operate
  <2>2. act \in Modes
    BY DEF OutputInv, StateTypes, Modes
  <2> HIDE DEF act, start, halt, event
  <2>3. /\ r.relay \in BOOLEAN /\ r.reverse \in BOOLEAN
        /\ r.vfdStart \in {"no", "yes", "notAvailable"}
    BY DEF DirectRelays, VfdRelays, MoreTypes
  <2> HIDE DEF r
  <2>4. mode \in Modes /\ alarm \in BOOLEAN
    BY <2>2 DEF Modes
  <2> HIDE DEF mode, alarm, judged
  <2>5. out' \in [Pumps -> [relay : BOOLEAN, reverse : BOOLEAN,
                            vfdStart : {"no", "yes", "notAvailable"},
                            ready : BOOLEAN, available : BOOLEAN, mode : Modes]]
    BY <2>1, <2>3, <2>4 DEF MoreTypes
  <2>6. contactor' \in [Pumps -> [flag : BOOLEAN, fault : BOOLEAN]]
    <3>1. contactor[p] \in [flag : BOOLEAN, fault : BOOLEAN]
      BY DEF MoreTypes
    <3>2. SetContactorAlarm(contactor[p], alarm, timer[p]["alarmReset"] > 0)
            \in [flag : BOOLEAN, fault : BOOLEAN]
      BY <2>4, <3>1, ContactorTypes
    <3> QED BY <2>1, <3>2 DEF MoreTypes
  <2>7. lastEvent' \in 0 .. 1 /\ since' \in 0 .. MaxTime
    BY <2>1, PumpAssumption DEF MoreTypes
  <2>8. running' = NONE /\ (updated' = updated \/ updated' = [updated EXCEPT ![p] = @ \ {"vfd"}])
    BY <1>7 DEF Operate, MoreTypes
  <2>9. updated' \in [Pumps -> SUBSET (Delays \cup {"noOfPumps", "enable", "vfd"})]
    BY <2>8 DEF MoreTypes
  <2> QED BY <2>5, <2>6, <2>7, <2>8, <2>9 DEF MoreTypes
<1> QED
  BY <1>1, <1>2, <1>3, <1>4, <1>5, <1>6, <1>7 DEF Next, RunSubTask

(* All variables keep their types (Pump.cpp), for any number of pumps.      *)
THEOREM TypeCorrect == Spec => []TypeOK
<1>1. DelayInv /\ OutputInv /\ MoreTypes => TypeOK
  BY DEF DelayInv, TimerTypes, OutputInv, InputTypes, StateTypes, MoreTypes, Modes, TypeOK
<1> QED
  BY <1>1, InitDelayInv, NextDelayInv, InitOutputInv, NextOutputInv, InitMoreTypes,
     NextMoreTypes, PTL DEF Spec

-----------------------------------------------------------------------------
(* The relays.  A pump that is neither queued nor between Configure and     *)
(* Operate has set them by what it sees now.                                *)
Fits(p) ==
  out[p].relay \/ out[p].reverse =>
    IF input[p].vfd = "none"
    THEN st[p].act = "started" /\ ~(out[p].relay /\ out[p].reverse)
    ELSE st[p].act = "started" \/ input[p].vfd \notin VfdStopped

RelayInv == \A p \in Pumps : ~runReq[p] /\ running # p => Fits(p)

LEMMA NextRelayInv == OutputInv /\ MoreTypes /\ RelayInv /\ [Next]_vars => RelayInv'
<1> SUFFICES ASSUME OutputInv, MoreTypes, RelayInv, [Next]_vars PROVE RelayInv'
  OBVIOUS
<1>1. CASE UNCHANGED vars
  BY <1>1 DEF vars, inputs, RelayInv, Fits
<1>2. ASSUME NEW p \in Pumps, NEW r \in Inputs, SetInput(p, r) PROVE RelayInv'
  <2>1. \A q \in Pumps \ {p} : input'[q] = input[q] /\ (runReq'[q] <=> runReq[q])
    BY <1>2 DEF SetInput, OutputInv, InputTypes, StateTypes
  <2>2. runReq'[p]
    BY <1>2 DEF SetInput, OutputInv, StateTypes
  <2> QED BY <1>2, <2>1, <2>2 DEF SetInput, RelayInv, Fits
<1>3. ASSUME NEW c \in NewConfigs, SetConfig(c[1], c[2]) PROVE RelayInv'
  BY <1>3 DEF SetConfig, RelayInv
<1>4. CASE Tick
  <2>1. \A q \in Pumps : runReq[q] => runReq'[q]
    BY <1>4 DEF Tick
  <2> QED BY <1>4, <2>1 DEF Tick, inputs, RelayInv, Fits
<1>5. ASSUME NEW p \in Pumps, Configure(p) PROVE RelayInv'
  <2>1. running' = p /\ running = NONE /\ NONE \notin Pumps
    BY <1>5, PumpAssumption DEF Configure
  <2>2. ASSUME NEW q \in Pumps \ {p}
        PROVE  /\ runReq[q] => runReq'[q]
               /\ input'[q] = input[q] /\ out'[q] = out[q] /\ st'[q] = st[q]
    BY <1>5 DEF Configure, Requested, OutputInv, InputTypes, StateTypes
  <2> QED BY <2>1, <2>2 DEF RelayInv, Fits
<1>6. ASSUME NEW p \in Pumps, Skip(p) PROVE RelayInv'
  <2>1. ~out[p].relay /\ ~out[p].reverse /\ running = p /\ UNCHANGED <<input, st, runReq>>
    BY <1>6 DEF Skip, inputs, OutputInv, Off
  <2>2. \A q \in Pumps : out'[q].relay = out[q].relay /\ out'[q].reverse = out[q].reverse
    BY <1>6 DEF Skip, OutputInv, StateTypes
  <2> QED BY <2>1, <2>2 DEF RelayInv, Fits
<1>7. ASSUME NEW p \in Pumps, Operate(p) PROVE RelayInv'
  <2>1. /\ running = p /\ input' = input
        /\ \A q \in Pumps \ {p} : out'[q] = out[q] /\ st'[q] = st[q] /\ (runReq[q] => runReq'[q])
    BY <1>7 DEF Operate, inputs, OutputInv, StateTypes
  <2>2. Fits(p)'
    <3>1. PICK act : /\ st' = [st EXCEPT ![p].act = act]
                     /\ LET r == IF input[p].vfd = "none" THEN DirectRelays(act, input[p])
                                 ELSE VfdRelays(act, input[p], out[p].relay)
                        IN  out'[p].relay = r.relay /\ out'[p].reverse = r.reverse
      BY <1>7 DEF Operate, OutputInv, StateTypes
    <3>2. st'[p].act = act
      BY <3>1 DEF OutputInv, StateTypes
    <3> QED BY <2>1, <3>1, <3>2 DEF Fits, DirectRelays, VfdRelays, VfdStopped
  <2> QED BY <2>1, <2>2 DEF RelayInv, Fits
<1> QED
  BY <1>1, <1>2, <1>3, <1>4, <1>5, <1>6, <1>7 DEF Next, RunSubTask

(* The relays of every pump fit its state and its frequency drive, and the  *)
(* two directions are never on together without one (Pump.cpp:543-641).     *)
THEOREM RelaysAlwaysAgree == Spec => []RelaysAgree
<1>1. Init => RelayInv
  BY DEF Init, RelayInv
<1>2. RelayInv => RelaysAgree
  BY PumpAssumption DEF RelayInv, RelaysAgree, Settled, Fits
<1> QED
  BY <1>1, <1>2, InitOutputInv, NextOutputInv, InitMoreTypes, NextMoreTypes, NextRelayInv,
     PTL DEF Spec

-----------------------------------------------------------------------------
(* The contactor alarm.  The end of its timer queues the pump.              *)
FaultInv ==
  \A p \in Pumps :
    /\ ~runReq[p] /\ running # p /\ st[p].installed /\ st[p].enabled
    /\ input[p].reference /\ contactor[p].fault
    => contactor[p].flag \/ timer[p]["alarmReset"] > 0

LEMMA NextFaultInv ==
  DelayInv /\ OutputInv /\ MoreTypes /\ FaultInv /\ [Next]_vars => FaultInv'
<1> SUFFICES ASSUME DelayInv, OutputInv, MoreTypes, FaultInv, [Next]_vars PROVE FaultInv'
  OBVIOUS
<1>0. "alarmReset" \in Timers
  BY DEF Timers
<1>1. CASE UNCHANGED vars
  BY <1>1 DEF vars, inputs, FaultInv
<1>2. ASSUME NEW p \in Pumps, NEW r \in Inputs, SetInput(p, r) PROVE FaultInv'
  <2>1. \A q \in Pumps \ {p} : input'[q] = input[q] /\ (runReq'[q] <=> runReq[q])
    BY <1>2 DEF SetInput, OutputInv, InputTypes, StateTypes
  <2>2. runReq'[p]
    BY <1>2 DEF SetInput, OutputInv, StateTypes
  <2> QED BY <1>2, <2>1, <2>2 DEF SetInput, FaultInv
<1>3. ASSUME NEW c \in NewConfigs, SetConfig(c[1], c[2]) PROVE FaultInv'
  BY <1>3 DEF SetConfig, FaultInv
<1>4. CASE Tick
  <2>1. ASSUME NEW q \in Pumps
        PROVE  /\ runReq[q] => runReq'[q]
               /\ timer[q]["alarmReset"] > 0 => timer'[q]["alarmReset"] > 0 \/ runReq'[q]
    <3>1. timer[q]["alarmReset"] \in Nat
      BY <1>0, PumpAssumption DEF DelayInv, TimerTypes
    <3>2. /\ runReq'[q] <=> runReq[q] \/ {t \in Timers : timer[q][t] = 1} # {}
          /\ timer'[q]["alarmReset"] = CountDown(timer[q]["alarmReset"])
      BY <1>0, <1>4 DEF Tick
    <3> QED BY <1>0, <3>1, <3>2 DEF CountDown
  <2> QED BY <1>4, <2>1 DEF Tick, inputs, FaultInv
<1>5. ASSUME NEW p \in Pumps, Configure(p) PROVE FaultInv'
  <2>1. running' = p /\ running = NONE /\ NONE \notin Pumps
    BY <1>5, PumpAssumption DEF Configure
  <2>2. ASSUME NEW q \in Pumps \ {p}
        PROVE  /\ runReq[q] => runReq'[q]
               /\ input'[q] = input[q] /\ st'[q] = st[q]
               /\ contactor'[q] = contactor[q] /\ timer'[q] = timer[q]
    BY <1>5 DEF Configure, Requested, OutputInv, InputTypes, StateTypes, MoreTypes, DelayInv,
                TimerTypes
  <2> QED BY <2>1, <2>2 DEF FaultInv
<1>6. ASSUME NEW p \in Pumps, Skip(p) PROVE FaultInv'
  BY <1>6 DEF Skip, inputs, FaultInv
<1>7. ASSUME NEW p \in Pumps, Operate(p) PROVE FaultInv'
  <2>1. /\ running = p /\ input' = input
        /\ \A q \in Pumps \ {p} :
             /\ st'[q] = st[q] /\ (runReq[q] => runReq'[q])
             /\ contactor'[q] = contactor[q] /\ timer'[q] = timer[q]
    BY <1>7 DEF Operate, inputs, OutputInv, StateTypes, MoreTypes, DelayInv, TimerTypes
  <2>2. ASSUME input[p].reference, contactor'[p].fault
        PROVE  contactor'[p].flag \/ timer'[p]["alarmReset"] > 0
    <3>1. PICK alarm \in BOOLEAN :
            /\ contactor' = [contactor EXCEPT ![p] =
                               SetContactorAlarm(@, alarm, timer[p]["alarmReset"] > 0)]
            /\ timer'[p]["alarmReset"] = IF ~alarm /\ contactor[p].flag THEN 1
                                         ELSE timer[p]["alarmReset"]
      BY <1>0, <1>7, <2>2 DEF Operate, DelayInv, TimerTypes
    <3>2. contactor'[p] = SetContactorAlarm(contactor[p], alarm, timer[p]["alarmReset"] > 0)
      BY <3>1 DEF MoreTypes
    <3> QED BY <2>2, <3>1, <3>2 DEF SetContactorAlarm, MoreTypes
  <2> QED BY <2>1, <2>2 DEF FaultInv
<1> QED
  BY <1>1, <1>2, <1>3, <1>4, <1>5, <1>6, <1>7 DEF Next, RunSubTask

(* A contactor alarm whose cause is gone is never left without the timer    *)
(* that resets it (Pump.cpp:665-721).                                       *)
THEOREM FaultsAreCleared == Spec => []FaultIsCleared
<1>1. Init => FaultInv
  BY DEF Init, FaultInv
<1>2. FaultInv => FaultIsCleared
  BY PumpAssumption DEF FaultInv, FaultIsCleared, Settled
<1> QED
  BY <1>1, <1>2, InitDelayInv, NextDelayInv, InitOutputInv, NextOutputInv, InitMoreTypes,
     NextMoreTypes, NextFaultInv, PTL DEF Spec

-----------------------------------------------------------------------------
(* Events apart.  With two pumps a delay may end early only by a timer that *)
(* the other pump started before; the longer start-stop-start delay keeps   *)
(* such timers from running when it matters.                                *)
(*                                                                         *)
(* What matters of a state: the time left of the delays of each pump (0     *)
(* when the timeout is yet to be handled, -1 when none runs), which pumps   *)
(* are up, the active delays, the last event and the time since.            *)
Left(p, d) == IF timer[p][d] > 0 THEN timer[p][d] ELSE IF d \in timeOut[p] THEN 0 ELSE -1

View == [left |-> [p \in Pumps |-> [d \in Delays |-> Left(p, d)]],
         up |-> [p \in Pumps |-> st[p].act = "started"],
         active |-> active, last |-> lastEvent, since |-> since]

ViewType == [left : [Pumps -> [Delays -> Int]], up : [Pumps -> BOOLEAN],
             active : [Delays -> BOOLEAN], last : 0 .. 1, since : Nat]

(* Events are 1, start, and 0, stop; each has a delay of its own.           *)
Reversal == "startStopStart"
Own(e) == IF e = 1 THEN "startStart" ELSE "stopStop"
Is(v, p, e) == v.up[p] <=> e = 1

(* The delay of reversals is the longest.                                   *)
Orderly(c) == c \in [Delays -> Nat \ {0}] /\ \A d \in Delays : c[d] <= c[Reversal]

TwoPumps == Pumps # {} /\ \A p, q, r \in Pumps : p # q => r \in {p, q}

-----------------------------------------------------------------------------
(* The steps that matter.  Pump p handles its timeouts.                     *)
Handles(v, w, p) ==
  /\ w.up = v.up /\ w.last = v.last /\ w.since = v.since
  /\ \A d \in Delays :
       /\ w.left[p][d] = IF v.left[p][d] = 0 THEN -1 ELSE v.left[p][d]
       /\ w.active[d] <=> v.active[d] /\ v.left[p][d] # 0
  /\ \A q \in Pumps \ {p}, d \in Delays : w.left[q][d] = v.left[q][d]

(* Pump p starts or stops when the delays allow it.                         *)
Allowed(v, e) == IF v.last = e THEN ~v.active[Own(e)] ELSE ~v.active[Reversal]

Happens(v, w, p, e, c) ==
  /\ Is(v, p, 1 - e) /\ Allowed(v, e)
  /\ Is(w, p, e) /\ \A q \in Pumps \ {p} : w.up[q] = v.up[q]
  /\ w.last = e /\ w.since = 0
  /\ \A d \in Delays :
       /\ w.left[p][d] = IF d \in {Own(e), Reversal} THEN c[d] ELSE v.left[p][d]
       /\ w.active[d] <=> v.active[d] \/ d \in {Own(e), Reversal}
  /\ \A q \in Pumps \ {p}, d \in Delays : w.left[q][d] = v.left[q][d]

(* Time passes when all timeouts are handled.                               *)
Elapses(v, w, c) ==
  /\ w.up = v.up /\ w.last = v.last /\ w.active = v.active
  /\ \A p \in Pumps, d \in Delays :
       v.left[p][d] # 0 /\ w.left[p][d] = IF v.left[p][d] > 0 THEN v.left[p][d] - 1 ELSE -1
  /\ \/ w.since = v.since + 1
     \/ w.since = v.since /\ \A d \in Delays : c[d] <= v.since

-----------------------------------------------------------------------------
(* The invariant on these, for the two kinds of events alike.               *)

(* An own delay ends with the reversal delay at the latest, and together    *)
(* with it if they are equal and no event came after.                       *)
OwnFits(v, c) == \A p \in Pumps, e \in 0 .. 1 :
  /\ v.left[p][Own(e)] <= v.left[p][Reversal]
  /\ c[Own(e)] = c[Reversal] /\ Is(v, p, e) => v.left[p][Own(e)] = v.left[p][Reversal]

Bounded(v, c) == \A p \in Pumps, d \in Delays : v.left[p][d] \in -1 .. c[d]

LastFits(v) == \E p \in Pumps : Is(v, p, v.last)

(* p had the last event: its delay runs, and only p can end it.             *)
LastRuns(v, c) == \A p, q \in Pumps, e \in 0 .. 1 :
  Is(v, p, e) /\ Is(v, q, 1 - e) /\ v.last = e =>
    /\ v.since < c[Own(e)] => v.left[p][Own(e)] >= c[Own(e)] - v.since
    /\ v.left[p][Own(e)] >= 0 => /\ v.active[Own(e)] /\ v.left[q][Own(e)] = -1
                                 /\ v.active[Reversal] \/ v.left[q][Reversal] = -1

(* q turned back while its own delay runs: no event until that is over.     *)
Back(v) == \A p, q \in Pumps, e \in 0 .. 1 :
  p # q /\ Is(v, p, 1 - e) /\ Is(v, q, 1 - e) /\ v.left[q][Own(e)] >= 0 =>
    /\ v.active[Reversal]
    /\ v.left[p][Reversal] = -1 \/ v.left[p][Reversal] > v.left[q][Own(e)]

(* q turned after p's event.                                                *)
Turned(v, c) == \A p, q \in Pumps, e \in 0 .. 1 :
  Is(v, p, e) /\ Is(v, q, 1 - e) /\ v.last = 1 - e /\ v.left[p][Own(e)] >= 0 =>
    /\ v.left[q][Reversal] > v.left[p][Own(e)]
    /\ c[Own(e)] = c[Reversal] => v.active[Reversal]

(* When the delays are equal, what happens within one tick matters as well. *)
SameTick(v, c) == \A p, q \in Pumps, e \in 0 .. 1 :
  p # q /\ c[Own(e)] = c[Reversal] /\ Is(v, p, e) =>
    /\ Is(v, q, e) /\ v.left[q][Reversal] = c[Reversal] =>
         v.active[Reversal] /\ v.left[p][Reversal] # 0
    /\ Is(v, q, 1 - e) => v.left[q][Own(e)] < c[Reversal]

ApartInv(v, c) ==
  /\ v \in ViewType /\ Bounded(v, c) /\ OwnFits(v, c) /\ LastFits(v)
  /\ LastRuns(v, c) /\ Back(v) /\ Turned(v, c) /\ SameTick(v, c)

LEMMA Events ==
  ASSUME NEW e \in 0 .. 1
  PROVE  /\ 1 - e \in 0 .. 1 /\ 1 - (1 - e) = e /\ e # 1 - e
         /\ {Own(e), Own(1 - e), Reversal} \subseteq Delays
         /\ Own(e) # Own(1 - e) /\ Own(e) # Reversal /\ Own(1 - e) # Reversal
         /\ \A f \in 0 .. 1 : f = e \/ f = 1 - e
         /\ \A v, p : Is(v, p, 1 - e) <=> ~Is(v, p, e)
<1>1. CASE e = 0
  BY <1>1 DEF Own, Reversal, Delays, Is
<1>2. CASE e = 1
  BY <1>2 DEF Own, Reversal, Delays, Is
<1> QED
  BY <1>1, <1>2

(* Handling timeouts.                                                       *)
LEMMA HandlesFits ==
  ASSUME TwoPumps, NEW c, Orderly(c), NEW v, NEW w \in ViewType, ApartInv(v, c),
         NEW z \in Pumps, Handles(v, w, z)
  PROVE  ApartInv(w, c)
<1>1. \A p \in Pumps, d \in Delays :
        /\ v.left[p][d] \in Int /\ c[d] \in Nat \ {0}
        /\ w.left[p][d] = v.left[p][d] \/ (w.left[p][d] = -1 /\ v.left[p][d] = 0 /\ p = z)
        /\ p = z => w.left[p][d] # 0
  BY DEF ApartInv, ViewType, Orderly, Handles
<1>2. \A d \in Delays : w.active[d] <=> v.active[d] /\ v.left[z][d] # 0
  BY DEF Handles
<1>3. \A p \in Pumps, e \in 0 .. 1 : Is(w, p, e) <=> Is(v, p, e)
  BY DEF Handles, Is
<1>4. w.last = v.last /\ w.since = v.since /\ v.since \in Nat
  BY DEF Handles, ApartInv, ViewType
<1>5. Bounded(w, c)
  BY <1>1 DEF Bounded, ApartInv
<1>6. OwnFits(w, c)
  <2> SUFFICES ASSUME NEW p \in Pumps, NEW e \in 0 .. 1
               PROVE  /\ w.left[p][Own(e)] <= w.left[p][Reversal]
                      /\ c[Own(e)] = c[Reversal] /\ Is(w, p, e) => w.left[p][Own(e)] = w.left[p][Reversal]
    BY DEF OwnFits
  <2>1. Own(e) \in Delays /\ Reversal \in Delays
    BY Events
  <2>2. /\ v.left[p][Own(e)] <= v.left[p][Reversal]
        /\ c[Own(e)] = c[Reversal] /\ Is(v, p, e) => v.left[p][Own(e)] = v.left[p][Reversal]
    BY DEF ApartInv, OwnFits
  <2>3. v.left[p][Own(e)] >= -1 /\ v.left[p][Reversal] >= -1
    BY <2>1, <1>1 DEF ApartInv, Bounded
  <2>4. \A d \in Delays : w.left[p][d] = IF v.left[p][d] = 0 /\ p = z THEN -1 ELSE v.left[p][d]
    BY <1>1
  <2> QED
    BY <1>1, <1>3, <2>1, <2>2, <2>3, <2>4
<1>7. LastFits(w)
  BY <1>3, <1>4 DEF LastFits, ApartInv, ViewType
<1>8. ASSUME NEW p \in Pumps, NEW q \in Pumps, NEW e \in 0 .. 1
      PROVE  /\ {Own(e), Reversal} \subseteq Delays
             /\ v.left[p][Own(e)] \in Int /\ v.left[q][Own(e)] \in Int
             /\ v.left[p][Reversal] \in Int /\ v.left[q][Reversal] \in Int
             /\ v.left[q][Own(e)] <= v.left[q][Reversal] /\ v.left[p][Own(e)] <= v.left[p][Reversal]
             /\ c[Own(e)] \in Nat /\ c[Reversal] \in Nat /\ c[Reversal] > 0
  <2>1. {Own(e), Reversal} \subseteq Delays
    BY Events
  <2> QED
    BY <1>1, <2>1 DEF ApartInv, OwnFits
<1>9. LastRuns(w, c)
  <2> SUFFICES ASSUME NEW p \in Pumps, NEW q \in Pumps, NEW e \in 0 .. 1,
                      Is(w, p, e) /\ Is(w, q, 1 - e) /\ w.last = e
               PROVE  /\ w.since < c[Own(e)] => w.left[p][Own(e)] >= c[Own(e)] - w.since
                      /\ w.left[p][Own(e)] >= 0 => /\ w.active[Own(e)] /\ w.left[q][Own(e)] = -1
                                                   /\ w.active[Reversal] \/ w.left[q][Reversal] = -1
    BY DEF LastRuns
  <2>1. Is(v, p, e) /\ Is(v, q, 1 - e) /\ v.last = e
    BY <1>3, <1>4, Events
  <2>2. /\ v.since < c[Own(e)] => v.left[p][Own(e)] >= c[Own(e)] - v.since
        /\ v.left[p][Own(e)] >= 0 => /\ v.active[Own(e)] /\ v.left[q][Own(e)] = -1
                                     /\ v.active[Reversal] \/ v.left[q][Reversal] = -1
    BY <2>1 DEF ApartInv, LastRuns
  <2>3. z \in {p, q}
    BY <2>1, Events DEF TwoPumps
  <2> QED
    BY <1>1, <1>2, <1>4, <1>8, <2>2, <2>3
<1>10. Back(w)
  <2> SUFFICES ASSUME NEW p \in Pumps, NEW q \in Pumps, NEW e \in 0 .. 1,
                      p # q, Is(w, p, 1 - e), Is(w, q, 1 - e), w.left[q][Own(e)] >= 0
               PROVE  /\ w.active[Reversal]
                      /\ w.left[p][Reversal] = -1 \/ w.left[p][Reversal] > w.left[q][Own(e)]
    BY DEF Back
  <2>1. Is(v, p, 1 - e) /\ Is(v, q, 1 - e) /\ v.left[q][Own(e)] >= 0
    BY <1>1, <1>3, <1>8, Events
  <2>2. /\ v.active[Reversal]
        /\ v.left[p][Reversal] = -1 \/ v.left[p][Reversal] > v.left[q][Own(e)]
    BY <2>1 DEF ApartInv, Back
  <2>3. z \in {p, q}
    BY <2>1, Events DEF TwoPumps
  <2> QED
    BY <1>1, <1>2, <1>8, <2>1, <2>2, <2>3
<1>11. Turned(w, c)
  <2> SUFFICES ASSUME NEW p \in Pumps, NEW q \in Pumps, NEW e \in 0 .. 1,
                      Is(w, p, e), Is(w, q, 1 - e), w.last = 1 - e, w.left[p][Own(e)] >= 0
               PROVE  /\ w.left[q][Reversal] > w.left[p][Own(e)]
                      /\ c[Own(e)] = c[Reversal] => w.active[Reversal]
    BY DEF Turned
  <2>1. Is(v, p, e) /\ Is(v, q, 1 - e) /\ v.last = 1 - e /\ v.left[p][Own(e)] >= 0
    BY <1>1, <1>3, <1>4, <1>8, Events
  <2>2. /\ v.left[q][Reversal] > v.left[p][Own(e)]
        /\ c[Own(e)] = c[Reversal] => v.active[Reversal] /\ v.left[p][Own(e)] = v.left[p][Reversal]
    BY <2>1 DEF ApartInv, Turned, OwnFits
  <2>3. z \in {p, q}
    BY <2>1, Events DEF TwoPumps
  <2> QED
    BY <1>1, <1>2, <1>8, <2>1, <2>2, <2>3
<1>12. SameTick(w, c)
  <2> SUFFICES ASSUME NEW p \in Pumps, NEW q \in Pumps, NEW e \in 0 .. 1,
                      p # q, c[Own(e)] = c[Reversal], Is(w, p, e)
               PROVE  /\ Is(w, q, e) /\ w.left[q][Reversal] = c[Reversal] =>
                           w.active[Reversal] /\ w.left[p][Reversal] # 0
                      /\ Is(w, q, 1 - e) => w.left[q][Own(e)] < c[Reversal]
    BY DEF SameTick
  <2>1. /\ Is(v, q, e) /\ v.left[q][Reversal] = c[Reversal] =>
             v.active[Reversal] /\ v.left[p][Reversal] # 0
        /\ Is(v, q, 1 - e) => v.left[q][Own(e)] < c[Reversal]
    BY <1>3 DEF ApartInv, SameTick
  <2>2. (Is(w, q, e) <=> Is(v, q, e)) /\ (Is(w, q, 1 - e) <=> Is(v, q, 1 - e))
    BY <1>3, Events
  <2>3. z \in {p, q}
    BY <2>1, Events DEF TwoPumps
  <2> QED
    BY <1>1, <1>2, <1>8, <2>1, <2>2, <2>3
<1> QED
  BY <1>5, <1>6, <1>7, <1>9, <1>10, <1>11, <1>12 DEF ApartInv

(* A tick.                                                                  *)
LEMMA ElapsesFits ==
  ASSUME NEW c, Orderly(c), NEW v, NEW w \in ViewType, ApartInv(v, c), Elapses(v, w, c)
  PROVE  ApartInv(w, c)
<1>1. \A p \in Pumps, d \in Delays :
        /\ v.left[p][d] \in Int /\ v.left[p][d] # 0 /\ v.left[p][d] >= -1 /\ v.left[p][d] <= c[d]
        /\ c[d] \in Nat \ {0}
        /\ w.left[p][d] = IF v.left[p][d] > 0 THEN v.left[p][d] - 1 ELSE -1
  BY DEF ApartInv, ViewType, Orderly, Elapses, Bounded
<1>2. w.active = v.active
  BY DEF Elapses
<1>3. \A p \in Pumps, e \in 0 .. 1 : Is(w, p, e) <=> Is(v, p, e)
  BY DEF Elapses, Is
<1>4. /\ w.last = v.last /\ v.since \in Nat
      /\ w.since = v.since + 1 \/ (w.since = v.since /\ \A d \in Delays : c[d] <= v.since)
  BY DEF Elapses, ApartInv, ViewType
<1>5. Bounded(w, c)
  BY <1>1 DEF Bounded, ApartInv
<1>6. OwnFits(w, c)
  <2> SUFFICES ASSUME NEW p \in Pumps, NEW e \in 0 .. 1
               PROVE  /\ w.left[p][Own(e)] <= w.left[p][Reversal]
                      /\ c[Own(e)] = c[Reversal] /\ Is(w, p, e) => w.left[p][Own(e)] = w.left[p][Reversal]
    BY DEF OwnFits
  <2>1. Own(e) \in Delays /\ Reversal \in Delays
    BY Events
  <2>2. /\ v.left[p][Own(e)] <= v.left[p][Reversal]
        /\ c[Own(e)] = c[Reversal] /\ Is(v, p, e) => v.left[p][Own(e)] = v.left[p][Reversal]
    BY DEF ApartInv, OwnFits
  <2>3. v.left[p][Own(e)] >= -1 /\ v.left[p][Reversal] >= -1
    BY <2>1, <1>1 DEF ApartInv, Bounded
  <2> QED
    BY <1>1, <1>3, <2>1, <2>2, <2>3
<1>7. LastFits(w)
  BY <1>3, <1>4 DEF LastFits, ApartInv, ViewType
<1>8. ASSUME NEW p \in Pumps, NEW q \in Pumps, NEW e \in 0 .. 1
      PROVE  /\ {Own(e), Reversal} \subseteq Delays
             /\ v.left[p][Own(e)] \in Int /\ v.left[q][Own(e)] \in Int
             /\ v.left[p][Reversal] \in Int /\ v.left[q][Reversal] \in Int
             /\ v.left[q][Own(e)] <= v.left[q][Reversal] /\ v.left[p][Own(e)] <= v.left[p][Reversal]
             /\ c[Own(e)] \in Nat /\ c[Reversal] \in Nat /\ c[Reversal] > 0
  <2>1. {Own(e), Reversal} \subseteq Delays
    BY Events
  <2> QED
    BY <1>1, <2>1 DEF ApartInv, OwnFits
<1>9. LastRuns(w, c)
  <2> SUFFICES ASSUME NEW p \in Pumps, NEW q \in Pumps, NEW e \in 0 .. 1,
                      Is(w, p, e) /\ Is(w, q, 1 - e) /\ w.last = e
               PROVE  /\ w.since < c[Own(e)] => w.left[p][Own(e)] >= c[Own(e)] - w.since
                      /\ w.left[p][Own(e)] >= 0 => /\ w.active[Own(e)] /\ w.left[q][Own(e)] = -1
                                                   /\ w.active[Reversal] \/ w.left[q][Reversal] = -1
    BY DEF LastRuns
  <2>1. Is(v, p, e) /\ Is(v, q, 1 - e) /\ v.last = e
    BY <1>3, <1>4, Events
  <2>2. /\ v.since < c[Own(e)] => v.left[p][Own(e)] >= c[Own(e)] - v.since
        /\ v.left[p][Own(e)] >= 0 => /\ v.active[Own(e)] /\ v.left[q][Own(e)] = -1
                                     /\ v.active[Reversal] \/ v.left[q][Reversal] = -1
    BY <2>1 DEF ApartInv, LastRuns
  <2> QED
    BY <1>1, <1>2, <1>4, <1>8, <2>2
<1>10. Back(w)
  <2> SUFFICES ASSUME NEW p \in Pumps, NEW q \in Pumps, NEW e \in 0 .. 1,
                      p # q, Is(w, p, 1 - e), Is(w, q, 1 - e), w.left[q][Own(e)] >= 0
               PROVE  /\ w.active[Reversal]
                      /\ w.left[p][Reversal] = -1 \/ w.left[p][Reversal] > w.left[q][Own(e)]
    BY DEF Back
  <2>1. Is(v, p, 1 - e) /\ Is(v, q, 1 - e) /\ v.left[q][Own(e)] >= 0
    BY <1>1, <1>3, <1>8, Events
  <2>2. /\ v.active[Reversal]
        /\ v.left[p][Reversal] = -1 \/ v.left[p][Reversal] > v.left[q][Own(e)]
    BY <2>1 DEF ApartInv, Back
  <2> QED
    BY <1>1, <1>2, <1>8, <2>1, <2>2
<1>11. Turned(w, c)
  <2> SUFFICES ASSUME NEW p \in Pumps, NEW q \in Pumps, NEW e \in 0 .. 1,
                      Is(w, p, e), Is(w, q, 1 - e), w.last = 1 - e, w.left[p][Own(e)] >= 0
               PROVE  /\ w.left[q][Reversal] > w.left[p][Own(e)]
                      /\ c[Own(e)] = c[Reversal] => w.active[Reversal]
    BY DEF Turned
  <2>1. Is(v, p, e) /\ Is(v, q, 1 - e) /\ v.last = 1 - e /\ v.left[p][Own(e)] >= 0
    BY <1>1, <1>3, <1>4, <1>8, Events
  <2>2. /\ v.left[q][Reversal] > v.left[p][Own(e)]
        /\ c[Own(e)] = c[Reversal] => v.active[Reversal] /\ v.left[p][Own(e)] = v.left[p][Reversal]
    BY <2>1 DEF ApartInv, Turned, OwnFits
  <2> QED
    BY <1>1, <1>2, <1>8, <2>1, <2>2
<1>12. SameTick(w, c)
  <2> SUFFICES ASSUME NEW p \in Pumps, NEW q \in Pumps, NEW e \in 0 .. 1,
                      p # q, c[Own(e)] = c[Reversal], Is(w, p, e)
               PROVE  /\ Is(w, q, e) /\ w.left[q][Reversal] = c[Reversal] =>
                           w.active[Reversal] /\ w.left[p][Reversal] # 0
                      /\ Is(w, q, 1 - e) => w.left[q][Own(e)] < c[Reversal]
    BY DEF SameTick
  <2>1. /\ Is(v, q, e) /\ v.left[q][Reversal] = c[Reversal] =>
             v.active[Reversal] /\ v.left[p][Reversal] # 0
        /\ Is(v, q, 1 - e) => v.left[q][Own(e)] < c[Reversal]
    BY <1>3 DEF ApartInv, SameTick
  <2>2. (Is(w, q, e) <=> Is(v, q, e)) /\ (Is(w, q, 1 - e) <=> Is(v, q, 1 - e))
    BY <1>3, Events
  <2> QED
    BY <1>1, <1>2, <1>8, <2>1, <2>2
<1> QED
  BY <1>5, <1>6, <1>7, <1>9, <1>10, <1>11, <1>12 DEF ApartInv

(* An event.                                                                *)
LEMMA HappensFits ==
  ASSUME TwoPumps, NEW c, Orderly(c), NEW v, NEW w \in ViewType, ApartInv(v, c),
         NEW x \in Pumps, NEW k \in 0 .. 1, Happens(v, w, x, k, c)
  PROVE  ApartInv(w, c)
<1> DEFINE j == 1 - k
<1>1. /\ j \in 0 .. 1 /\ 1 - j = k /\ k # j /\ \A e \in 0 .. 1 : e = k \/ e = j
      /\ Own(k) \in Delays /\ Own(j) \in Delays /\ Reversal \in Delays
      /\ Own(k) # Own(j) /\ Own(k) # Reversal /\ Own(j) # Reversal
      /\ \A z, p : Is(z, p, j) <=> ~Is(z, p, k)
  BY Events
<1> HIDE DEF j
<1>2. /\ \A d \in Delays : c[d] \in Nat \ {0} /\ c[d] <= c[Reversal]
      /\ \A p \in Pumps, d \in Delays : v.left[p][d] \in Int /\ -1 <= v.left[p][d] /\ v.left[p][d] <= c[d]
      /\ \A p \in Pumps : v.left[p][Own(k)] <= v.left[p][Reversal] /\ v.left[p][Own(j)] <= v.left[p][Reversal]
  BY <1>1 DEF ApartInv, ViewType, Orderly, Bounded, OwnFits
<1>3. \A q \in Pumps \ {x} : /\ \A d \in Delays : w.left[q][d] = v.left[q][d]
                             /\ Is(w, q, k) <=> Is(v, q, k)
  BY DEF Happens, Is
<1>4. /\ w.left[x][Own(k)] = c[Own(k)] /\ w.left[x][Reversal] = c[Reversal]
      /\ w.left[x][Own(j)] = v.left[x][Own(j)]
      /\ w.active[Own(k)] /\ w.active[Reversal]
      /\ Is(w, x, k) /\ ~Is(v, x, k) /\ w.last = k /\ w.since = 0
  BY <1>1 DEF Happens, j
<1>5. \A p, q \in Pumps : p # q => x \in {p, q}
  BY DEF TwoPumps
<1>6. /\ v.last = k \/ v.last = j
      /\ v.last = k => ~v.active[Own(k)]
      /\ v.last = j => ~v.active[Reversal]
  BY <1>1 DEF Happens, Allowed, ApartInv, ViewType
<1>7. ASSUME NEW y \in Pumps \ {x}, ~Is(v, y, k)
      PROVE  /\ v.left[y][Own(k)] = -1 /\ ~v.active[Reversal]
             /\ c[Own(j)] = c[Reversal] =>
                  v.left[y][Reversal] < c[Reversal] /\ v.left[x][Reversal] < c[Reversal]
  <2>1. v.last = j
    <3>1. PICK p \in Pumps : Is(v, p, v.last)
      BY DEF ApartInv, LastFits
    <3> QED
      BY <1>4, <1>5, <1>6, <1>7, <3>1
  <2>2. ~(v.left[y][Own(k)] >= 0)
    BY <1>1, <1>4, <1>6, <1>7, <2>1 DEF ApartInv, Back, j
  <2>3. c[Own(j)] = c[Reversal] => v.left[y][Reversal] # c[Reversal] /\ v.left[x][Reversal] # c[Reversal]
    BY <1>1, <1>4, <1>6, <1>7, <2>1 DEF ApartInv, SameTick
  <2> QED
    BY <1>1, <1>2, <1>6, <2>1, <2>2, <2>3
<1>8. ASSUME NEW y \in Pumps \ {x}, Is(v, y, k)
      PROVE  /\ v.left[x][Own(j)] >= 0 =>
                  v.left[y][Reversal] = -1 \/ v.left[y][Reversal] > v.left[x][Own(j)]
             /\ v.left[y][Own(j)] < c[Reversal]
             /\ c[Own(k)] = c[Reversal] => v.left[y][Reversal] # 0
  <2>1. v.left[x][Own(j)] >= 0 =>
          v.left[y][Reversal] = -1 \/ v.left[y][Reversal] > v.left[x][Own(j)]
    <3>1. CASE v.last = j
      BY <1>1, <1>4, <1>6, <1>8, <3>1 DEF ApartInv, LastRuns
    <3>2. CASE v.last = k
      BY <1>1, <1>4, <1>8, <3>2 DEF ApartInv, Turned
    <3> QED
      BY <1>6, <3>1, <3>2
  <2>2. v.left[y][Own(j)] < c[Reversal]
    <3>1. CASE c[Own(j)] = c[Reversal]
      BY <1>1, <1>4, <1>8, <3>1 DEF ApartInv, SameTick
    <3>2. CASE c[Own(j)] # c[Reversal]
      BY <1>1, <1>2, <3>2
    <3> QED
      BY <3>1, <3>2
  <2>3. ASSUME c[Own(k)] = c[Reversal]
        PROVE  v.left[y][Reversal] # 0
    <3>1. v.left[y][Own(k)] = v.left[y][Reversal]
      BY <1>8, <2>3 DEF ApartInv, OwnFits
    <3>2. CASE v.last = k
      <4>1. ~(v.left[y][Own(k)] >= 0)
        BY <1>1, <1>4, <1>6, <1>8, <3>2 DEF ApartInv, LastRuns, j
      <4> QED
        BY <3>1, <4>1
    <3>3. CASE v.last = j
      <4>1. ~(v.left[y][Own(k)] >= 0)
        BY <1>1, <1>4, <1>6, <1>8, <2>3, <3>3 DEF ApartInv, Turned, j
      <4> QED
        BY <3>1, <4>1
    <3> QED
      BY <1>6, <3>2, <3>3
  <2> QED
    BY <2>1, <2>2, <2>3
<1>9. Bounded(w, c)
  <2>1. \A d \in Delays : w.left[x][d] = c[d] \/ w.left[x][d] = v.left[x][d]
    BY DEF Happens
  <2> QED
    BY <1>2, <1>3, <2>1 DEF Bounded
<1>10. OwnFits(w, c)
  <2> SUFFICES ASSUME NEW p \in Pumps, NEW e \in 0 .. 1
               PROVE  /\ w.left[p][Own(e)] <= w.left[p][Reversal]
                      /\ c[Own(e)] = c[Reversal] /\ Is(w, p, e) => w.left[p][Own(e)] = w.left[p][Reversal]
    BY DEF OwnFits
  <2>1. CASE p = x
    <3>1. v.left[x][Own(j)] <= c[Reversal]
      BY <1>1, <1>2
    <3> QED
      BY <1>1, <1>2, <1>4, <2>1, <3>1
  <2>2. CASE p # x
    <3>1. /\ v.left[p][Own(e)] <= v.left[p][Reversal]
          /\ c[Own(e)] = c[Reversal] /\ Is(v, p, e) => v.left[p][Own(e)] = v.left[p][Reversal]
      BY DEF ApartInv, OwnFits
    <3>2. (Is(w, p, e) <=> Is(v, p, e)) /\ Own(e) \in Delays
      BY <1>1, <1>3, <2>2
    <3> QED
      BY <1>1, <1>3, <2>2, <3>1, <3>2
  <2> QED
    BY <2>1, <2>2
<1>11. LastFits(w)
  BY <1>4 DEF LastFits
<1>12. LastRuns(w, c)
  <2> SUFFICES ASSUME NEW p \in Pumps, NEW q \in Pumps, NEW e \in 0 .. 1,
                      Is(w, p, e) /\ Is(w, q, 1 - e) /\ w.last = e
               PROVE  /\ w.since < c[Own(e)] => w.left[p][Own(e)] >= c[Own(e)] - w.since
                      /\ w.left[p][Own(e)] >= 0 => /\ w.active[Own(e)] /\ w.left[q][Own(e)] = -1
                                                   /\ w.active[Reversal] \/ w.left[q][Reversal] = -1
    BY DEF LastRuns
  <2>1. e = k /\ p = x /\ q # x /\ ~Is(v, q, k)
    BY <1>1, <1>3, <1>4, <1>5, Events
  <2>2. v.left[q][Own(k)] = -1
    BY <1>7, <2>1
  <2> QED
    BY <1>1, <1>2, <1>3, <1>4, <2>1, <2>2
<1>13. Back(w)
  <2> SUFFICES ASSUME NEW p \in Pumps, NEW q \in Pumps, NEW e \in 0 .. 1,
                      p # q, Is(w, p, 1 - e), Is(w, q, 1 - e), w.left[q][Own(e)] >= 0
               PROVE  w.left[p][Reversal] = -1 \/ w.left[p][Reversal] > w.left[q][Own(e)]
    BY <1>4 DEF Back
  <2>1. e = j /\ Is(w, p, k) /\ Is(w, q, k)
    BY <1>1, <1>4, <1>5, Events
  <2>2. CASE p = x
    <3>1. Is(v, q, k) /\ v.left[q][Own(j)] < c[Reversal]
      BY <1>3, <1>8, <2>1, <2>2
    <3> QED
      BY <1>1, <1>3, <1>4, <2>1, <2>2, <3>1
  <2>3. CASE q = x
    <3>1. Is(v, p, k)
      BY <1>3, <2>1, <2>3
    <3>2. v.left[x][Own(j)] >= 0
      BY <1>4, <2>1, <2>3
    <3>3. v.left[p][Reversal] = -1 \/ v.left[p][Reversal] > v.left[x][Own(j)]
      BY <1>8, <2>3, <3>1, <3>2
    <3> QED
      BY <1>1, <1>3, <1>4, <2>1, <2>3, <3>3
  <2> QED
    BY <1>5, <2>2, <2>3
<1>14. Turned(w, c)
  <2> SUFFICES ASSUME NEW p \in Pumps, NEW q \in Pumps, NEW e \in 0 .. 1,
                      Is(w, p, e), Is(w, q, 1 - e), w.last = 1 - e, w.left[p][Own(e)] >= 0
               PROVE  w.left[q][Reversal] > w.left[p][Own(e)]
    BY <1>4 DEF Turned
  <2>1. e = j /\ q = x /\ p # x /\ ~Is(v, p, k)
    BY <1>1, <1>3, <1>4, <1>5, Events
  <2>2. c[Own(j)] = c[Reversal] => v.left[p][Reversal] < c[Reversal]
    BY <1>7, <2>1
  <2>3. v.left[p][Own(j)] < c[Reversal]
    BY <1>1, <1>2, <2>2
  <2> QED
    BY <1>1, <1>3, <1>4, <2>1, <2>3
<1>15. SameTick(w, c)
  <2> SUFFICES ASSUME NEW p \in Pumps, NEW q \in Pumps, NEW e \in 0 .. 1,
                      p # q, c[Own(e)] = c[Reversal], Is(w, p, e)
               PROVE  /\ Is(w, q, e) => w.left[p][Reversal] # 0
                      /\ Is(w, q, 1 - e) => w.left[q][Own(e)] < c[Reversal]
    BY <1>4 DEF SameTick
  <2>1. CASE p = x
    <3>1. e = k
      BY <1>1, <1>4, <2>1
    <3>2. Is(w, q, 1 - e) => w.left[q][Own(k)] = -1
      BY <1>1, <1>3, <1>7, <2>1, <3>1, Events
    <3> QED
      BY <1>1, <1>2, <1>4, <2>1, <3>1, <3>2
  <2>2. CASE q = x /\ e = k
    <3>1. Is(v, p, k)
      BY <1>3, <2>2
    <3>2. v.left[p][Reversal] # 0
      BY <1>8, <2>2, <3>1
    <3> QED
      BY <1>1, <1>3, <1>4, <2>2, <3>2, Events
  <2>3. CASE q = x /\ e = j
    <3>1. ~Is(v, p, k)
      BY <1>1, <1>3, <2>3
    <3>2. v.left[x][Reversal] < c[Reversal]
      BY <1>7, <2>3, <3>1
    <3>3. v.left[x][Own(j)] < c[Reversal]
      BY <1>1, <1>2, <3>2
    <3> QED
      BY <1>1, <1>4, <2>3, <3>3
  <2> QED
    BY <1>1, <1>5, <2>1, <2>2, <2>3
<1> QED
  BY <1>9, <1>10, <1>11, <1>12, <1>13, <1>14, <1>15 DEF ApartInv

-----------------------------------------------------------------------------
(* The steps of the pumps are such steps, in a pit of at most two pumps     *)
(* where reversals have the longest delay, nothing is configured anew, no   *)
(* pump is disabled or overruled by a digital input, and the task is        *)
(* prompt.                                                                  *)
PlainPit ==
  /\ TwoPumps /\ Prompt /\ NewConfigs = {}
  /\ \A c \in Configs, d \in Delays : c[2][d] <= c[2][Reversal]
  /\ Initial.source # "di"
  /\ \A r \in Inputs : "enable" \notin DOMAIN r /\ ("source" \in DOMAIN r => r.source # "di")

EventTypes == DelayInv /\ OutputInv /\ MoreTypes

EventInv ==
  /\ Orderly(cnf)
  /\ \A p \in Pumps :
       /\ input[p].source # "di" /\ period[p] = cnf
       /\ updated[p] \ {"vfd"} # {} =>
            st[p].act = "notInstalled" /\ \A d \in Delays : timer[p][d] = 0
       /\ running = p => timeOut[p] = {}
       /\ \A d \in Delays : timer[p][d] > 0 => d \notin timeOut[p]
  /\ ApartInv(View, cnf)

LEMMA ViewTypes == EventTypes => View \in ViewType
<1> SUFFICES ASSUME EventTypes PROVE View \in ViewType
  OBVIOUS
<1>1. \A p \in Pumps, d \in Delays : timer[p][d] \in 0 .. MaxTime
  BY Constants DEF EventTypes, DelayInv, TimerTypes
<1>2. \A p \in Pumps, d \in Delays : Left(p, d) \in Int
  BY <1>1, Constants DEF Left
<1>3. \A p \in Pumps : (st[p].act = "started") \in BOOLEAN
  OBVIOUS
<1>4. active \in [Delays -> BOOLEAN] /\ lastEvent \in 0 .. 1 /\ since \in Nat
  BY Constants DEF EventTypes, DelayInv, TimerTypes, MoreTypes
<1> QED
  BY <1>2, <1>3, <1>4 DEF View, ViewType

LEMMA InitEventInv ==
  ASSUME PlainPit, Init
  PROVE  EventInv
<1>1. PICK c \in Configs : noOfPumps = c[1] /\ cnf = c[2]
  BY DEF Init
<1>2. <<noOfPumps, cnf>> \in Configs
  BY InitDelayInv DEF DelayInv, TimerTypes
<1>3. cnf \in [Delays -> 1 .. MaxTime]
  BY <1>2, ConfigDelays
<1>4. Orderly(cnf)
  BY <1>1, <1>3, Constants DEF Orderly, PlainPit
<1>5. View \in ViewType
  BY ViewTypes, InitDelayInv, InitOutputInv, InitMoreTypes DEF EventTypes
<1>6. \A p \in Pumps, d \in Delays : View.left[p][d] = -1
  BY Constants DEF View, Left, Init
<1>7. /\ \A p \in Pumps : ~View.up[p]
      /\ View.last = 0 /\ View.since = MaxTime /\ \A d \in Delays : ~View.active[d]
  BY DEF View, Init
<1>8. \A d \in Delays : cnf[d] \in 1 .. MaxTime
  BY <1>3
<1>9. ApartInv(View, cnf)
  <2> DEFINE v == View
  <2> HIDE DEF v
  <2>1. v \in ViewType /\ \A p \in Pumps, d \in Delays : v.left[p][d] = -1
    BY <1>5, <1>6 DEF v
  <2>2. (\A p \in Pumps : ~v.up[p]) /\ v.last = 0 /\ v.since = MaxTime
    BY <1>7 DEF v
  <2>3. \A p \in Pumps, e \in 0 .. 1 :
          v.left[p][Own(e)] = -1 /\ v.left[p][Reversal] = -1 /\ cnf[Own(e)] <= MaxTime /\ cnf[Reversal] > 0
    BY <1>8, <2>1, Events, Constants
  <2>4. Bounded(v, cnf) /\ OwnFits(v, cnf)
    BY <1>8, <2>1, <2>3, Constants DEF Bounded, OwnFits
  <2>7. Back(v) /\ Turned(v, cnf)
    BY <2>3 DEF Back, Turned
  <2>8. LastRuns(v, cnf)
    <3>1. MaxTime \in Nat /\ \A e \in 0 .. 1 : cnf[Own(e)] \in Int
      BY <1>8, Events, Constants
    <3> QED
      BY <2>2, <2>3, <3>1 DEF LastRuns
  <2>5. LastFits(v)
    BY <2>2 DEF LastFits, Is, PlainPit, TwoPumps
  <2>6. SameTick(v, cnf)
    BY <1>8, <2>3, Events, Constants DEF SameTick
  <2> QED
    BY <2>1, <2>4, <2>5, <2>6, <2>7, <2>8 DEF ApartInv, v
<1>10. ASSUME NEW p \in Pumps
       PROVE  /\ input[p].source # "di" /\ period[p] = cnf
              /\ st[p].act = "notInstalled" /\ timeOut[p] = {} /\ \A d \in Delays : timer[p][d] = 0
  BY Constants DEF Init, PlainPit
<1> QED
  BY <1>4, <1>9, <1>10 DEF EventInv

LEMMA TickApart ==
  ASSUME PlainPit, EventTypes, EventTypes', EventInv, Tick
  PROVE  EventInv'
<1> DEFINE Expired(p) == {t \in Timers : timer[p][t] = 1}
<1>1. /\ \A p \in Pumps : ~runReq[p] /\ running # p
      /\ timer' = [p \in Pumps |-> [t \in Timers |-> CountDown(timer[p][t])]]
      /\ timeOut' = [p \in Pumps |-> TimedOut(p, Expired(p))]
      /\ since' = IF since < MaxTime THEN since + 1 ELSE since
      /\ UNCHANGED <<input, noOfPumps, cnf, updated, running, st, active, lastEvent, period>>
  BY PumpAssumption DEF Tick, inputs, PlainPit
<1>2. \A p \in Pumps : timeOut[p] = {}
  BY <1>1 DEF EventTypes, DelayInv, TimeOutQueued
<1>3. \A p \in Pumps, d \in Delays : timer[p][d] \in Nat /\ d \in Timers
  BY Constants DEF EventTypes, DelayInv, TimerTypes
<1>4. ASSUME NEW p \in Pumps, NEW d \in Delays
      PROVE  /\ timer'[p][d] = CountDown(timer[p][d])
             /\ d \in timeOut'[p] <=> timer[p][d] = 1
  BY <1>1, <1>2, <1>3 DEF TimedOut
<1>5. \A p \in Pumps, d \in Delays :
        /\ View.left[p][d] = IF timer[p][d] > 0 THEN timer[p][d] ELSE -1
        /\ View'.left[p][d] = IF timer'[p][d] > 0 THEN timer'[p][d]
                              ELSE IF d \in timeOut'[p] THEN 0 ELSE -1
  BY <1>2 DEF View, Left
<1>6. \A p \in Pumps, d \in Delays :
        /\ View.left[p][d] # 0
        /\ View'.left[p][d] = IF View.left[p][d] > 0 THEN View.left[p][d] - 1 ELSE -1
  BY <1>3, <1>4, <1>5 DEF CountDown
<1>7. View'.up = View.up /\ View'.last = View.last /\ View'.active = View.active
  BY <1>1 DEF View
<1>8. \/ View'.since = View.since + 1
      \/ View'.since = View.since /\ \A d \in Delays : cnf[d] <= View.since
  <2>1. since \in 0 .. MaxTime /\ \A d \in Delays : cnf[d] \in 1 .. MaxTime
    BY ConfigDelays DEF EventTypes, MoreTypes, DelayInv, TimerTypes
  <2>2. View.since = since /\ View'.since = since'
    BY DEF View
  <2> QED
    BY <1>1, <2>1, <2>2, Constants
<1>9. Elapses(View, View', cnf)
  BY <1>6, <1>7, <1>8 DEF Elapses
<1>10. View' \in ViewType
  <2>1. (View \in ViewType)'
    BY ViewTypes, PTL
  <2> QED
    BY <2>1
<1>11. ApartInv(View', cnf)
  BY <1>9, <1>10, ElapsesFits DEF EventInv
<1>12. ASSUME NEW p \in Pumps, NEW d \in Delays
       PROVE  /\ timer'[p][d] > 0 => d \notin timeOut'[p]
              /\ timer[p][d] = 0 => timer'[p][d] = 0
  BY <1>3, <1>4 DEF CountDown
<1> QED
  BY <1>1, <1>11, <1>12 DEF EventInv

LEMMA ConfigureApart ==
  ASSUME PlainPit, EventTypes, EventTypes', EventInv, NEW p \in Pumps, Configure(p)
  PROVE  EventInv'
<1> DEFINE u == updated[p]
           counted == "noOfPumps" \in u
           removed == counted /\ p > noOfPumps
           installed == IF counted THEN ~removed ELSE st[p].installed
           enable == input[p].enable /\ ~removed
           act == IF removed THEN "notInstalled" ELSE IF counted THEN "stopped" ELSE st[p].act
           asked == installed /\ (counted \/ "enable" \in u)
           disabled == asked /\ ~enable
           stop == disabled /\ act = "started"
           off == removed \/ disabled
           delays == [d \in Delays |-> active[d] \/ (stop /\ d # "startStart")]
<1>1. /\ input' = [input EXCEPT ![p].enable = enable]
      /\ updated' = [updated EXCEPT ![p] = u \cap {"vfd"}]
      /\ period' = [period EXCEPT ![p] = [d \in Delays |-> IF d \in u THEN cnf[d] ELSE @[d]]]
      /\ st' = [st EXCEPT ![p] =
           [installed |-> installed, enabled |-> IF asked THEN enable ELSE @.enabled,
            act |-> IF disabled THEN "disabled" ELSE IF asked THEN "stopped" ELSE act]]
      /\ active' = [d \in Delays |-> delays[d] /\ d \notin timeOut[p]]
      /\ timeOut' = [timeOut EXCEPT ![p] = {}]
      /\ lastEvent' = IF stop THEN 0 ELSE lastEvent
      /\ since' = IF stop THEN 0 ELSE since
      /\ timer' = [timer EXCEPT ![p] = [t \in Timers |->
           IF t = "alarmReset" /\ off /\ contactor[p].flag THEN 1
           ELSE IF t \in Delays /\ Retriggered(p, t, stop) THEN period'[p][t] ELSE @[t]]]
      /\ running' = p /\ cnf' = cnf
  BY DEF Configure
<1>2. /\ u \subseteq Delays \cup {"noOfPumps", "enable", "vfd"}
      /\ u \ {"vfd"} # {} => st[p].act = "notInstalled" /\ \A d \in Delays : timer[p][d] = 0
  BY DEF EventTypes, MoreTypes, EventInv
<1>3. ~stop /\ (act = "started" <=> st[p].act = "started") /\ (asked => act # "started")
  BY <1>2
<1>4. \A d \in Delays : /\ d \in Timers /\ d # "alarmReset" /\ timer[p][d] \in Nat
                        /\ ~Retriggered(p, d, stop)
  BY <1>2, <1>3, Constants DEF Retriggered, EventTypes, DelayInv, TimerTypes, Delays
<1>5. st'[p].act = "started" <=> st[p].act = "started"
  BY <1>1, <1>3 DEF EventTypes, OutputInv, StateTypes
<1> HIDE DEF stop, removed, disabled, asked, act, installed, enable
<1>6. \A q \in Pumps \ {p} :
        /\ timer'[q] = timer[q] /\ timeOut'[q] = timeOut[q] /\ st'[q] = st[q]
        /\ input'[q] = input[q] /\ updated'[q] = updated[q] /\ period'[q] = period[q]
  BY <1>1 DEF EventTypes, DelayInv, TimerTypes, OutputInv, InputTypes, StateTypes
<1>7. timeOut'[p] = {} /\ \A d \in Delays : timer'[p][d] = timer[p][d]
  BY <1>1, <1>4 DEF EventTypes, DelayInv, TimerTypes
<1>8. period'[p] = cnf
  <2>1. period[p] = cnf /\ cnf \in [Delays -> 1 .. MaxTime]
    BY ConfigDelays DEF EventInv, EventTypes, DelayInv, TimerTypes
  <2> QED
    BY <1>1, <2>1 DEF EventTypes, DelayInv, TimerTypes
<1>9. input'[p].source = input[p].source /\ updated'[p] \subseteq {"vfd"}
  BY <1>1 DEF EventTypes, OutputInv, InputTypes, StateTypes, InputFields
<1>10. Handles(View, View', p)
  <2>1. View'.up = View.up
    BY <1>5, <1>6 DEF View
  <2>2. View'.last = View.last /\ View'.since = View.since
    BY <1>1, <1>3 DEF View
  <2>3. ASSUME NEW d \in Delays
        PROVE  /\ View'.left[p][d] = IF View.left[p][d] = 0 THEN -1 ELSE View.left[p][d]
               /\ View'.active[d] <=> View.active[d] /\ View.left[p][d] # 0
    <3>1. View.left[p][d] = Left(p, d) /\ View'.left[p][d] = Left(p, d)'
      BY DEF View
    <3>2. timer[p][d] > 0 => d \notin timeOut[p]
      BY DEF EventInv
    <3>3. Left(p, d)' = IF timer[p][d] > 0 THEN timer[p][d] ELSE -1
      BY <1>7 DEF Left
    <3>4. active'[d] <=> active[d] /\ d \notin timeOut[p]
      BY <1>1, <1>3
    <3>5. View'.active[d] = active'[d] /\ View.active[d] = active[d]
      BY DEF View
    <3> QED
      BY <1>4, <3>1, <3>2, <3>3, <3>4, <3>5 DEF Left
  <2>4. \A q \in Pumps \ {p}, d \in Delays : View'.left[q][d] = View.left[q][d]
    BY <1>6 DEF View, Left
  <2> QED
    BY <2>1, <2>2, <2>3, <2>4 DEF Handles
<1>11. View' \in ViewType
  <2>1. (View \in ViewType)'
    BY ViewTypes, PTL
  <2> QED
    BY <2>1
<1>12. ApartInv(View', cnf)
  BY <1>10, <1>11, HandlesFits DEF EventInv, PlainPit
<1>13. ASSUME NEW q \in Pumps
       PROVE  /\ input'[q].source # "di" /\ period'[q] = cnf
              /\ updated'[q] \ {"vfd"} # {} =>
                   st'[q].act = "notInstalled" /\ \A d \in Delays : timer'[q][d] = 0
              /\ running' = q => timeOut'[q] = {}
              /\ \A d \in Delays : timer'[q][d] > 0 => d \notin timeOut'[q]
  <2>1. CASE q = p
    BY <1>7, <1>8, <1>9, <2>1 DEF EventInv
  <2>2. CASE q # p
    BY <1>1, <1>6, <2>2 DEF EventInv
  <2> QED
    BY <2>1, <2>2
<1> QED
  BY <1>1, <1>12, <1>13 DEF EventInv

LEMMA InTurn ==
  ASSUME NEW p \in Pumps
  PROVE  (Configure(p) => running = NONE) /\ (Operate(p) => running = p)
<1>1. Configure(p) => running = NONE
  BY Zenon DEF Configure
<1>2. Operate(p) => running = p
  BY Zenon DEF Operate
<1> QED
  BY <1>1, <1>2

(* An event of Operate: e is 1 for a start, 0 for a stop.                   *)
LEMMA OperateHappens ==
  ASSUME PlainPit, EventTypes, EventInv, NEW p \in Pumps, Operate(p)
  PROVE  /\ running = p /\ running' = NONE
         /\ UNCHANGED <<input, cnf, period, timeOut>>
         /\ \A q \in Pumps : updated'[q] \subseteq updated[q]
         /\ \A q \in Pumps \ {p} : st'[q] = st[q] /\ \A d \in Delays : timer'[q][d] = timer[q][d]
         /\ \/ /\ UNCHANGED <<active, lastEvent, since>> /\ st'[p].act = st[p].act
               /\ \A d \in Delays : timer'[p][d] = timer[p][d]
            \/ /\ st[p].act # "notInstalled"
               /\ \E e \in 0 .. 1 : Happens(View, View', p, e, cnf)
<1> DEFINE in == input[p]
           start == Wanted(in) /\ st[p].act = "stopped" /\ MayStart(p)
           halt == ~Wanted(in) /\ st[p].act = "started" /\ MayStop(p)
           act == IF start THEN "started" ELSE IF halt THEN "stopped" ELSE st[p].act
           event == IF start THEN {"startStart", "startStopStart"}
                    ELSE IF halt THEN {"stopStop", "startStopStart"} ELSE {}
<1>1. /\ st' = [st EXCEPT ![p].act = act]
      /\ active' = [d \in Delays |-> active[d] \/ d \in event]
      /\ lastEvent' = IF start THEN 1 ELSE IF halt THEN 0 ELSE lastEvent
      /\ since' = IF event # {} THEN 0 ELSE since
      /\ running = p /\ running' = NONE
      /\ UNCHANGED <<input, cnf, period, timeOut>>
  BY DEF Operate, inputs
<1>2. \E new : timer' = [timer EXCEPT ![p] = [t \in Timers |-> IF t \in event THEN period[p][t] ELSE new[t]]]
               /\ \A d \in Delays : new[d] = timer[p][d]
  <2>1. PICK ignore, reset \in BOOLEAN :
          timer' = [timer EXCEPT ![p] = [t \in Timers |->
             IF t \in event THEN period[p][t]
             ELSE IF t = "contactorIgnore" /\ ignore THEN IgnoreTime
             ELSE IF t = "alarmReset" /\ reset THEN 1
             ELSE @[t]]]
    BY DEF Operate
  <2> DEFINE new == [t \in Timers |-> IF t = "contactorIgnore" /\ ignore THEN IgnoreTime
                                      ELSE IF t = "alarmReset" /\ reset THEN 1 ELSE timer[p][t]]
  <2>2. timer' = [timer EXCEPT ![p] = [t \in Timers |-> IF t \in event THEN period[p][t] ELSE new[t]]]
    BY <2>1
  <2>3. \A d \in Delays : new[d] = timer[p][d]
    BY Constants
  <2> HIDE DEF new
  <2> QED
    BY <2>2, <2>3
<1>3. \A q \in Pumps : updated'[q] \subseteq updated[q]
  BY DEF Operate, EventTypes, MoreTypes
<1>4. \A q \in Pumps \ {p} : st'[q] = st[q] /\ timer'[q] = timer[q]
  BY <1>1, <1>2 DEF EventTypes, DelayInv, TimerTypes, OutputInv, StateTypes
<1>5. \A d \in Delays : timer'[p][d] = IF d \in event THEN cnf[d] ELSE timer[p][d]
  BY <1>2, Constants DEF EventTypes, DelayInv, TimerTypes, EventInv
<1>6. st'[p].act = act /\ st[p].act \in Modes
  BY <1>1 DEF EventTypes, OutputInv, StateTypes, Modes
<1>7. ~IgnoreDelays(in)
  BY DEF EventInv, IgnoreDelays
<1>8. ~(start /\ halt)
  BY DEF Wanted
<1>9. lastEvent \in 0 .. 1 /\ active \in [Delays -> BOOLEAN]
  BY DEF EventTypes, MoreTypes, DelayInv, TimerTypes
<1>10. ASSUME NEW e \in 0 .. 1, event = {Own(e), Reversal}, st[p].act = IF e = 1 THEN "stopped" ELSE "started",
              act = (IF e = 1 THEN "started" ELSE "stopped"), lastEvent' = e,
              (lastEvent = e /\ ~active[Own(e)]) \/ (lastEvent = 1 - e /\ ~active[Reversal])
       PROVE  Happens(View, View', p, e, cnf)
  <2> HIDE DEF event, start, halt, act
  <2>1. {Own(e), Reversal} \subseteq Delays /\ 1 - e \in 0 .. 1 /\ e # 1 - e
    BY Events
  <2>2. Is(View, p, 1 - e) /\ Is(View', p, e)
    <3>1. (View.up[p] <=> st[p].act = "started") /\ (View'.up[p] <=> st'[p].act = "started")
      BY DEF View
    <3>2. (st[p].act = "started" <=> e = 0) /\ (st'[p].act = "started" <=> e = 1)
      BY <1>6, <1>10
    <3>3. 1 - e = 1 <=> e = 0
      OBVIOUS
    <3> QED
      BY <3>1, <3>2, <3>3 DEF Is
  <2>3. \A q \in Pumps \ {p} : View'.up[q] = View.up[q]
    BY <1>4 DEF View
  <2>4. View'.last = e /\ View'.since = 0 /\ Allowed(View, e)
    BY <1>1, <1>10, <2>1 DEF View, Allowed
  <2>5. \A q \in Pumps \ {p}, d \in Delays : View'.left[q][d] = View.left[q][d]
    BY <1>1, <1>4 DEF View, Left
  <2>6. ASSUME NEW d \in Delays
        PROVE  /\ View'.left[p][d] = IF d \in {Own(e), Reversal} THEN cnf[d] ELSE View.left[p][d]
               /\ View'.active[d] <=> View.active[d] \/ d \in {Own(e), Reversal}
    <3>1. View.left[p][d] = Left(p, d) /\ View'.left[p][d] = Left(p, d)'
      BY DEF View
    <3>2. cnf[d] > 0 /\ timeOut[p] = {} /\ timeOut'[p] = {}
      BY <1>1 DEF EventInv, Orderly
    <3>3. View'.active[d] = active'[d] /\ View.active[d] = active[d]
      BY DEF View
    <3>4. View'.active[d] <=> View.active[d] \/ d \in {Own(e), Reversal}
      BY <1>1, <1>10, <3>3
    <3> QED
      BY <1>5, <1>10, <3>1, <3>2, <3>4 DEF Left
  <2> QED
    BY <2>2, <2>3, <2>4, <2>5, <2>6 DEF Happens
<1>11. CASE start
  <2>1. event = {Own(1), Reversal} /\ act = "started" /\ st[p].act = "stopped"
    BY <1>11 DEF Own, Reversal
  <2>2. (lastEvent = 1 /\ ~active[Own(1)]) \/ (lastEvent = 1 - 1 /\ ~active[Reversal])
    BY <1>7, <1>11 DEF MayStart, Own, Reversal
  <2>3. Happens(View, View', p, 1, cnf)
    BY <1>1, <1>10, <1>11, <2>1, <2>2
  <2> QED
    BY <1>1, <1>3, <1>4, <2>1, <2>3
<1>12. CASE halt
  <2>1. event = {Own(0), Reversal} /\ act = "stopped" /\ st[p].act = "started"
    BY <1>8, <1>12 DEF Own, Reversal
  <2>2. (lastEvent = 0 /\ ~active[Own(0)]) \/ (lastEvent = 1 - 0 /\ ~active[Reversal])
    BY <1>7, <1>12 DEF MayStop, Own, Reversal
  <2>3. Happens(View, View', p, 0, cnf)
    BY <1>1, <1>8, <1>10, <1>12, <2>1, <2>2
  <2> QED
    BY <1>1, <1>3, <1>4, <2>1, <2>3
<1>13. CASE ~start /\ ~halt
  <2>1. event = {} /\ act = st[p].act
    BY <1>13
  <2>2. active' = active
    BY <1>1, <1>9, <2>1
  <2>3. lastEvent' = lastEvent /\ since' = since
    BY <1>1, <1>13, <2>1
  <2>4. \A d \in Delays : timer'[p][d] = timer[p][d]
    BY <1>5, <2>1
  <2> QED
    BY <1>1, <1>3, <1>4, <1>6, <2>1, <2>2, <2>3, <2>4
<1> QED
  BY <1>11, <1>12, <1>13

LEMMA OperateApart ==
  ASSUME PlainPit, EventTypes, EventTypes', EventInv, NEW p \in Pumps, Operate(p)
  PROVE  EventInv'
<1>1. /\ running = p /\ running' = NONE
      /\ UNCHANGED <<input, cnf, period, timeOut>>
      /\ \A q \in Pumps : updated'[q] \subseteq updated[q]
      /\ \A q \in Pumps \ {p} : st'[q] = st[q] /\ \A d \in Delays : timer'[q][d] = timer[q][d]
  BY OperateHappens
<1>2. View' \in ViewType
  <2>1. (View \in ViewType)'
    BY ViewTypes, PTL
  <2> QED
    BY <2>1
<1>3. CASE st[p].act # "notInstalled" /\ \E e \in 0 .. 1 : Happens(View, View', p, e, cnf)
  <2>1. PICK e \in 0 .. 1 : Happens(View, View', p, e, cnf)
    BY <1>3
  <2>2. ApartInv(View', cnf)
    BY <1>2, <2>1, HappensFits DEF EventInv, PlainPit
  <2>3. ASSUME NEW q \in Pumps
        PROVE  /\ updated'[q] \ {"vfd"} # {} =>
                    st'[q].act = "notInstalled" /\ \A d \in Delays : timer'[q][d] = 0
               /\ \A d \in Delays : timer'[q][d] > 0 => d \notin timeOut'[q]
    <3>1. CASE q = p
      <4>1. updated[p] \ {"vfd"} = {}
        BY <1>3 DEF EventInv
      <4> QED
        BY <1>1, <3>1, <4>1 DEF EventInv
    <3>2. CASE q # p
      BY <1>1, <3>2 DEF EventInv
    <3> QED
      BY <3>1, <3>2
  <2>4. \A q \in Pumps : running' # q
    BY <1>1, PumpAssumption
  <2> QED
    BY <1>1, <2>2, <2>3, <2>4 DEF EventInv
<1>4. CASE /\ UNCHANGED <<active, lastEvent, since>> /\ st'[p].act = st[p].act
           /\ \A d \in Delays : timer'[p][d] = timer[p][d]
  <2>1. \A q \in Pumps : st'[q].act = st[q].act /\ \A d \in Delays : timer'[q][d] = timer[q][d]
    BY <1>1, <1>4
  <2>2. View' = View
    BY <1>1, <1>4, <2>1 DEF View, Left
  <2>3. \A q \in Pumps : running' # q
    BY <1>1, PumpAssumption
  <2> QED
    BY <1>1, <2>1, <2>2, <2>3 DEF EventInv
<1> QED
  BY <1>3, <1>4, OperateHappens

LEMMA NextEventInv == PlainPit /\ EventTypes /\ EventTypes' /\ EventInv /\ [Next]_vars => EventInv'
<1> SUFFICES ASSUME PlainPit, EventTypes, EventTypes', EventInv, [Next]_vars PROVE EventInv'
  OBVIOUS
<1>1. CASE UNCHANGED vars
  BY <1>1 DEF vars, inputs, EventInv, View, Left
<1>2. ASSUME NEW p \in Pumps, NEW r \in Inputs, SetInput(p, r) PROVE EventInv'
  <2>1. /\ UNCHANGED <<cnf, st, active, lastEvent, timer, period, timeOut, since>>
        /\ UNCHANGED running
    BY <1>2 DEF SetInput
  <2>2. ASSUME NEW q \in Pumps
        PROVE  input'[q].source # "di" /\ updated'[q] \ {"vfd"} \subseteq updated[q] \ {"vfd"}
    <3>1. CASE q = p
      <4> DEFINE new == [f \in InputFields |-> IF f \in DOMAIN r THEN r[f] ELSE input[p][f]]
      <4>1. input'[p] = new
        BY <1>2 DEF SetInput, EventTypes, OutputInv, InputTypes
      <4>2. updated'[p] = updated[p] \cup {f \in {"enable", "vfd"} : new[f] # input[p][f]}
        BY <1>2 DEF SetInput, EventTypes, MoreTypes
      <4>3. new["enable"] = input[p]["enable"] /\ new["source"] # "di"
        BY DEF InputFields, PlainPit, EventInv
      <4> QED
        BY <3>1, <4>1, <4>2, <4>3
    <3>2. CASE q # p
      BY <1>2, <3>2 DEF SetInput, EventTypes, OutputInv, InputTypes, MoreTypes, EventInv
    <3> QED
      BY <3>1, <3>2
  <2>3. View' = View
    BY <2>1 DEF View, Left
  <2> QED
    BY <2>1, <2>2, <2>3 DEF EventInv
<1>3. ASSUME NEW c \in NewConfigs, SetConfig(c[1], c[2]) PROVE EventInv'
  BY <1>3 DEF PlainPit
<1>4. CASE Tick
  BY <1>4, TickApart
<1>5. ASSUME NEW p \in Pumps, Configure(p) PROVE EventInv'
  BY <1>5, ConfigureApart
<1>6. ASSUME NEW p \in Pumps, Skip(p) PROVE EventInv'
  BY <1>6, PumpAssumption DEF Skip, inputs, EventInv, View, Left
<1>7. ASSUME NEW p \in Pumps, Operate(p) PROVE EventInv'
  BY <1>7, OperateApart
<1> QED
  BY <1>1, <1>2, <1>3, <1>4, <1>5, <1>6, <1>7 DEF Next, RunSubTask

(* An event of the kind of the last one waits until its delay is over.      *)
LEMMA AllowedApart ==
  ASSUME TwoPumps, NEW c, Orderly(c), NEW v, ApartInv(v, c), NEW p \in Pumps, NEW e \in 0 .. 1,
         Is(v, p, 1 - e), v.last = e, Allowed(v, e)
  PROVE  v.since >= c[Own(e)]
<1>1. PICK q \in Pumps : Is(v, q, e)
  BY DEF ApartInv, LastFits
<1>2. ~v.active[Own(e)]
  BY DEF Allowed
<1>3. ~(v.left[q][Own(e)] >= 0) /\ (v.since < c[Own(e)] => v.left[q][Own(e)] >= c[Own(e)] - v.since)
  BY <1>1, <1>2 DEF ApartInv, LastRuns
<1>4. Own(e) \in Delays
  BY Events
<1>5. c[Own(e)] \in Nat /\ v.since \in Nat /\ v.left[q][Own(e)] \in Int
  BY <1>4 DEF ApartInv, ViewType, Orderly
<1> QED
  BY <1>3, <1>5

(* In a pit of two pumps that is plain in the sense of PlainPit the starts  *)
(* are apart by the start-start delay and the stops by the stop-stop delay, *)
(* although each timer ends the delay of both (Pump.cpp:444-459, :513,      *)
(* :527).                                                                   *)
THEOREM EventsAreApart ==
  ASSUME PlainPit
  PROVE  Spec => EventsApart
<1> DEFINE Step == \A p \in Pumps : ~IgnoreDelays(input[p]) =>
                     /\ StartEvent(p) /\ lastEvent = 1 => since >= cnf["startStart"]
                     /\ StopEvent(p) /\ lastEvent = 0 => since >= cnf["stopStop"]
           Inv == EventTypes /\ EventInv
<1>1. Init => Inv
  BY InitEventInv, InitDelayInv, InitOutputInv, InitMoreTypes DEF EventTypes
<1>2. EventTypes /\ [Next]_vars => EventTypes'
  BY NextDelayInv, NextOutputInv, NextMoreTypes DEF EventTypes
<1>3. Inv /\ [Next]_vars => Inv'
  BY <1>2, NextEventInv
<1>4. Inv /\ [Next]_vars => [Step]_vars
  <2> SUFFICES ASSUME Inv, Next, NEW p \in Pumps
               PROVE  /\ StartEvent(p) /\ lastEvent = 1 => since >= cnf["startStart"]
                      /\ StopEvent(p) /\ lastEvent = 0 => since >= cnf["stopStop"]
    OBVIOUS
  <2>1. ASSUME running = p, st'[p].act # st[p].act
        PROVE  Operate(p)
    <3>1. running # NONE
      BY <2>1, PumpAssumption
    <3>2. ~Tick /\ \A q \in Pumps : ~Skip(q)
      BY <2>1 DEF Tick, Skip
    <3>3. \A q \in Pumps : ~Configure(q) /\ (Operate(q) => q = p)
      BY <2>1, <3>1, InTurn
    <3>4. /\ \A q \in Pumps, r \in Inputs : ~SetInput(q, r)
          /\ \A c \in NewConfigs : ~SetConfig(c[1], c[2])
      BY <3>1 DEF SetInput, SetConfig
    <3> QED
      BY <3>2, <3>3, <3>4 DEF Next, RunSubTask
  <2>2. View.last = lastEvent /\ View.since = since /\ (View.up[p] <=> st[p].act = "started")
    BY DEF View
  <2>3. ASSUME NEW e \in 0 .. 1, lastEvent = e, running = p, st'[p].act # st[p].act,
               (st[p].act = "started") <=> e = 0, (st'[p].act = "started") <=> e = 1
        PROVE  since >= cnf[Own(e)]
    <3>1. Operate(p)
      BY <2>1, <2>3
    <3>2. PICK f \in 0 .. 1 : Happens(View, View', p, f, cnf)
      BY <2>3, <3>1, OperateHappens
    <3>3. Is(View', p, f) /\ (View'.up[p] <=> st'[p].act = "started")
      BY <3>2 DEF Happens, View
    <3>4. f = e
      BY <2>3, <3>3 DEF Is
    <3>5. Is(View, p, 1 - e) /\ Allowed(View, e)
      BY <3>2, <3>4 DEF Happens
    <3> QED
      BY <2>2, <2>3, <3>5, AllowedApart DEF EventInv, PlainPit
  <2>4. ASSUME StartEvent(p), lastEvent = 1
        PROVE  since >= cnf["startStart"]
    BY <2>3, <2>4 DEF StartEvent, Own
  <2>5. ASSUME StopEvent(p), lastEvent = 0
        PROVE  since >= cnf["stopStop"]
    BY <2>3, <2>5 DEF StopEvent, Own
  <2> QED
    BY <2>4, <2>5
<1>5. EventsApart <=> [][Step]_vars
  BY PTL DEF EventsApart
<1> HIDE DEF Inv, Step
<1> QED
  BY <1>1, <1>3, <1>4, <1>5, PTL DEF Spec

==============================================================================

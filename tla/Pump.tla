-------------------------------- MODULE Pump --------------------------------
(***************************************************************************)
(* The sub tasks of class Pump (src/application/controller/Pump.cpp), one   *)
(* for each pump of the pit: from the requested operation mode, the level   *)
(* control, the frequency drive (VFD) and the contactor feedback each       *)
(* decides when its relays switch.  The pumps share the three data points   *)
(* that say a start/stop delay is active, and the static mLastEvent; each   *)
(* has timers of its own.                                                   *)
(*                                                                         *)
(* All pumps run in one task, one after the other; RunSubTask is two steps  *)
(* (Configure up to the delay timeouts, Operate after them) because the     *)
(* timer task has a higher priority and may set a timeout flag in between.  *)
(*                                                                         *)
(* Abstractions.  Time is counted in Ticks of the timers' unit; since and   *)
(* the timers are bounded by MaxTime.  What other sub tasks write into the  *)
(* data points a pump reads is SetInput; AlarmDelay is the value that was   *)
(* set last (SetFault, ResetFault).  Name_What is a mutant of Name.         *)
(***************************************************************************)
EXTENDS Integers

CONSTANTS
  Pumps,        (* pump numbers                                            *)
  Initial,      (* the input of every pump at first                        *)
  Inputs,       (* the changes of a pump's input: records of some fields   *)
  Configs,      (* <<no_of_pumps, the three delays>> at first,             *)
  NewConfigs,   (* and what they may be changed to                         *)
  IgnoreTime,   (* of the contactor feedback, after a relay switched       *)
  MaxTime,
  Prompt,       (* the task runs every queued pump before the next tick    *)
  NONE

Delays == {"startStart", "stopStop", "startStopStart"}
Timers == Delays \cup {"contactorIgnore", "alarmReset"}

(* The data points a pump reads.                                            *)
InputFields == {"enable", "req", "source", "level", "underLowest", "alarm", "vfd",
                "flush", "feedback", "reference"}

ASSUME PumpAssumption ==
  /\ Pumps \subseteq Nat /\ NONE \notin Pumps
  /\ DOMAIN Initial = InputFields /\ Initial.enable \in BOOLEAN
  /\ \A r \in Inputs : DOMAIN r \subseteq InputFields
                      /\ ("enable" \in DOMAIN r => r.enable \in BOOLEAN)
  /\ MaxTime \in Nat
  /\ Configs \subseteq Nat \X [Delays -> 1 .. MaxTime] /\ NewConfigs \subseteq Configs
  /\ IgnoreTime \in 1 .. MaxTime /\ Prompt \in BOOLEAN

VARIABLES
  input,      (* data points each pump reads                               *)
  noOfPumps, cnf,
  updated,    (* the SubjectPtr that are marked as updated                 *)
  runReq,     (* mRunRequestedFlag: the pump is queued                     *)
  running,    (* the pump that is between Configure and Operate            *)
  st,         (* mPumpInstalled, mPumpEnabled, mPumpOperationModeAct       *)
  out,        (* data points each pump writes                              *)
  active,     (* the shared data points *DelayActive                       *)
  lastEvent,  (* mLastEvent: 0 stop, 1 start                               *)
  timer,      (* ticks until a timer expires, 0 when it is not running     *)
  period,     (* of the delay timers                                       *)
  timeOut,    (* mStartStartTimeOut, mStopStopTimeOut ...                  *)
  contactor,  (* mContactorAlarmFlag, and what AlarmDelay was told last    *)
  since       (* history: ticks since the last start or stop of any pump   *)

inputs == <<input, noOfPumps, cnf>>
vars == <<inputs, updated, runReq, running, st, out, active, lastEvent, timer,
          period, timeOut, contactor, since>>

Init ==
  /\ input = [p \in Pumps |-> Initial]
  /\ \E c \in Configs : noOfPumps = c[1] /\ cnf = c[2]
  /\ updated = [p \in Pumps |-> Delays \cup {"noOfPumps", "enable"}]
  /\ runReq = [p \in Pumps |-> TRUE] /\ running = NONE
  /\ st = [p \in Pumps |-> [installed |-> FALSE, enabled |-> FALSE, act |-> "notInstalled"]]
  /\ out = [p \in Pumps |-> [relay |-> FALSE, reverse |-> FALSE, vfdStart |-> "no",
                              ready |-> FALSE, available |-> FALSE, mode |-> "notInstalled"]]
  /\ active = [d \in Delays |-> FALSE] /\ lastEvent = 0
  /\ timer = [p \in Pumps |-> [t \in Timers |-> 0]]
  /\ period = [p \in Pumps |-> cnf]
  /\ timeOut = [p \in Pumps |-> {}]
  /\ contactor = [p \in Pumps |-> [flag |-> FALSE, fault |-> FALSE]]
  /\ since = MaxTime

-----------------------------------------------------------------------------
(* What others write.  Sub tasks of the same task and tasks of lower        *)
(* priority do so while no pump is running.                                 *)

SetInput(p, r) ==
  LET new == [f \in InputFields |-> IF f \in DOMAIN r THEN r[f] ELSE input[p][f]]
  IN /\ running = NONE /\ new # input[p]
     /\ input' = [input EXCEPT ![p] = new]
     /\ updated' = [updated EXCEPT ![p] = @ \cup {f \in {"enable", "vfd"} : new[f] # input[p][f]}]
     /\ runReq' = [runReq EXCEPT ![p] = TRUE]
     /\ UNCHANGED <<noOfPumps, cnf, running, st, out, active, lastEvent, timer,
                    period, timeOut, contactor, since>>

SetConfig(n, c) ==
  LET new == {d \in Delays : c[d] # cnf[d]} \cup {f \in {"noOfPumps"} : n # noOfPumps}
  IN /\ running = NONE /\ new # {}
     /\ noOfPumps' = n /\ cnf' = c
     /\ updated' = [p \in Pumps |-> updated[p] \cup new]
     /\ runReq' = [p \in Pumps |-> TRUE]
     /\ UNCHANGED <<input, running, st, out, active, lastEvent, timer, period,
                    timeOut, contactor, since>>

(* A timer, and what Update notes when timers of a pump have expired.       *)
CountDown(n) == IF n > 0 THEN n - 1 ELSE 0

TimedOut(p, expired) == timeOut[p] \cup (expired \cap Delays)

(* The timer interrupt and the timer task: a second passes.                 *)
Tick ==
  LET Expired(p) == {t \in Timers : timer[p][t] = 1}
  IN /\ Prompt => running = NONE /\ \A p \in Pumps : ~runReq[p]
     /\ timer' = [p \in Pumps |-> [t \in Timers |-> CountDown(timer[p][t])]]
     /\ timeOut' = [p \in Pumps |-> TimedOut(p, Expired(p))]
     /\ runReq' = [p \in Pumps |-> runReq[p] \/ Expired(p) # {}]
     /\ since' = IF since < MaxTime THEN since + 1 ELSE since
     /\ UNCHANGED <<inputs, updated, running, st, out, active, lastEvent, period, contactor>>

-----------------------------------------------------------------------------
(* RunSubTask.                                                              *)

(* SetContactorAlarm: the fault is reset when the flag is already off and   *)
(* its timer has run out.                                                   *)
SetContactorAlarm_Early(c, present, resetting) ==
  [flag |-> present,
   fault |-> IF present THEN c.fault \/ ~c.flag ELSE c.fault /\ (c.flag \/ ~resetting)]
SetContactorAlarm(c, present, resetting) ==
  [flag |-> present,
   fault |-> IF present THEN c.fault \/ ~c.flag ELSE c.fault /\ (c.flag \/ resetting)]

(* Every pump observes the delay data points.                               *)
Requested_NotOthers(p, changed) == [runReq EXCEPT ![p] = changed]
Requested(p, changed) ==
  [q \in Pumps |-> changed \/ (q # p /\ runReq[q])]

(* The delay timers that are (re)started: a running one whose configuration *)
(* has changed, and those of a stop.                                        *)
Retriggered_NotOnStop(p, t, stop) == t \in updated[p] /\ timer[p][t] > 0
Retriggered(p, t, stop) ==
  \/ t \in updated[p] /\ timer[p][t] > 0
  \/ stop /\ t \in {"stopStop", "startStopStart"}

(* All outputs off.                                                         *)
SwitchedOff_KeepsReverse(o, mode) ==
  [o EXCEPT !.relay = FALSE, !.vfdStart = "no", !.ready = FALSE, !.mode = mode]
SwitchedOff(o, mode) ==
  [o EXCEPT !.relay = FALSE, !.reverse = FALSE, !.vfdStart = "no", !.ready = FALSE, !.mode = mode]

(* New configuration, number of pumps, enable; then the delay timeouts.     *)
Configure(p) ==
  LET u == updated[p]
      counted == "noOfPumps" \in u
      removed == counted /\ p > noOfPumps
      installed == IF counted THEN ~removed ELSE st[p].installed
      enable == input[p].enable /\ ~removed
      act == IF removed THEN "notInstalled" ELSE IF counted THEN "stopped" ELSE st[p].act
      asked == installed /\ (counted \/ "enable" \in u)
      disabled == asked /\ ~enable
      stop == disabled /\ act = "started"
      off == removed \/ disabled
      delays == [d \in Delays |-> active[d] \/ (stop /\ d # "startStart")]
  IN /\ running = NONE /\ runReq[p]
     /\ running' = p
     /\ input' = [input EXCEPT ![p].enable = enable]
     /\ updated' = [updated EXCEPT ![p] = u \cap {"vfd"}]
     /\ period' = [period EXCEPT ![p] = [d \in Delays |-> IF d \in u THEN cnf[d] ELSE @[d]]]
     /\ st' = [st EXCEPT ![p] =
          [installed |-> installed, enabled |-> IF asked THEN enable ELSE @.enabled,
           act |-> IF disabled THEN "disabled" ELSE IF asked THEN "stopped" ELSE act]]
     /\ out' = IF off THEN [out EXCEPT ![p] = SwitchedOff(@, st'[p].act)] ELSE out
     /\ active' = [d \in Delays |-> delays[d] /\ d \notin timeOut[p]]
     /\ timeOut' = [timeOut EXCEPT ![p] = {}]
     /\ lastEvent' = IF stop THEN 0 ELSE lastEvent
     /\ since' = IF stop THEN 0 ELSE since
     /\ timer' = [timer EXCEPT ![p] = [t \in Timers |->
          IF t = "alarmReset" /\ off /\ contactor[p].flag THEN 1
          ELSE IF t \in Delays /\ Retriggered(p, t, stop) THEN period'[p][t] ELSE @[t]]]
     /\ contactor' = IF off
          THEN [contactor EXCEPT ![p] = SetContactorAlarm(@, FALSE, timer[p]["alarmReset"] > 0)]
          ELSE contactor
     /\ LET changed == delays # active \/ active' # delays
        IN runReq' = [Requested(p, changed) EXCEPT ![p] = changed \/ (removed /\ input[p].enable)]
     /\ UNCHANGED <<noOfPumps, cnf>>

(* A pump that is not installed or not enabled.                             *)
Skip(p) ==
  /\ running = p /\ ~(st[p].installed /\ st[p].enabled)
  /\ running' = NONE
  /\ out' = [out EXCEPT ![p].available = FALSE]
  /\ UNCHANGED <<inputs, updated, runReq, st, active, lastEvent, timer, period,
                 timeOut, contactor, since>>

(* What the mode asks for, and whether it overrules the delays.             *)
Wanted(in) ==
  \/ in.req = "auto" /\ in.level
  \/ in.req = "on" /\ ~(in.source = "scada" /\ in.underLowest)
IgnoreDelays(in) == in.req # "auto" /\ in.source = "di"

MayStart_AfterStart(p) ==
  lastEvent = 1 \/ ~active["startStopStart"] \/ IgnoreDelays(input[p])
MayStart(p) ==
  \/ lastEvent = 0 /\ ~active["startStopStart"]
  \/ lastEvent = 1 /\ ~active["startStart"]
  \/ IgnoreDelays(input[p])

MayStop(p) ==
  \/ lastEvent = 1 /\ ~active["startStopStart"]
  \/ lastEvent = 0 /\ ~active["stopStop"]
  \/ IgnoreDelays(input[p])

(* Relays and VFD start request: [relay, reverse, vfdStart] and whether the *)
(* contactor feedback is comparable.                                        *)
DirectRelays_StopKeepsReverse(act, in) ==
  LET forward == act = "started" /\ in.flush \in {"idle", "forward"}
  IN [relay |-> forward, reverse |-> in.flush = "reverse",
      vfdStart |-> "notAvailable", comparable |-> forward \/ act # "started"]
DirectRelays(act, in) ==
  LET forward == act = "started" /\ in.flush \in {"idle", "forward"}
  IN [relay |-> forward, reverse |-> act = "started" /\ in.flush = "reverse",
      vfdStart |-> "notAvailable", comparable |-> forward \/ act # "started"]

VfdRuns == {"manual", "startFlush", "normal", "runFlush"}
VfdStopped == {"manual", "init", "stop"}

VfdRelays(act, in, relay) ==
  IF act = "started"
  THEN [relay |-> relay \/ in.vfd # "stop", reverse |-> in.vfd = "revFlush",
        vfdStart |-> "yes", comparable |-> in.vfd \in VfdRuns]
  ELSE [relay |-> relay /\ in.vfd \notin VfdStopped, reverse |-> FALSE,
        vfdStart |-> "no", comparable |-> in.vfd \in VfdStopped]

Operate(p) ==
  LET in == input[p]
      start == Wanted(in) /\ st[p].act = "stopped" /\ MayStart(p)
      stop == ~Wanted(in) /\ st[p].act = "started" /\ MayStop(p)
      act == IF start THEN "started" ELSE IF stop THEN "stopped" ELSE st[p].act
      event == IF start THEN {"startStart", "startStopStart"}
               ELSE IF stop THEN {"stopStop", "startStopStart"} ELSE {}
      r == IF in.vfd = "none" THEN DirectRelays(act, in) ELSE VfdRelays(act, in, out[p].relay)
      seen == in.vfd # "none" /\ act = "started" /\ in.vfd \in VfdRuns
      switched == r.relay # out[p].relay /\ (r.comparable \/ r.relay)
      ignore == switched \/ (seen /\ "vfd" \in updated[p]) \/ (start /\ timer[p]["contactorIgnore"] > 0)
      comparable == r.comparable /\ in.feedback # "none"
      feedback == IF in.feedback = "active" THEN "started" ELSE "stopped"
      judged == ~comparable \/ in.reference
      alarm == comparable /\ feedback # act
  IN /\ running = p /\ st[p].installed /\ st[p].enabled
     /\ running' = NONE
     /\ updated' = [updated EXCEPT ![p] = IF seen THEN @ \ {"vfd"} ELSE @]
     /\ st' = [st EXCEPT ![p].act = act]
     /\ active' = [d \in Delays |-> active[d] \/ d \in event]
     /\ lastEvent' = IF start THEN 1 ELSE IF stop THEN 0 ELSE lastEvent
     /\ since' = IF event # {} THEN 0 ELSE since
     /\ timer' = [timer EXCEPT ![p] = [t \in Timers |->
          IF t \in event THEN period[p][t]
          ELSE IF t = "contactorIgnore" /\ ignore THEN IgnoreTime
          ELSE IF t = "alarmReset" /\ judged /\ ~alarm /\ contactor[p].flag THEN 1
          ELSE @[t]]]
     /\ out' = [out EXCEPT ![p] =
          [relay |-> r.relay, reverse |-> r.reverse, vfdStart |-> r.vfdStart,
           ready |-> in.req = "auto" /\ ~in.alarm, available |-> TRUE,
           mode |-> IF comparable /\ timer'[p]["contactorIgnore"] = 0 THEN feedback
                    ELSE IF r.relay THEN "started" ELSE act]]
     /\ contactor' = IF judged
          THEN [contactor EXCEPT ![p] = SetContactorAlarm(@, alarm, timer[p]["alarmReset"] > 0)]
          ELSE contactor
     /\ runReq' = [q \in Pumps |-> runReq[q] \/ active' # active]
     /\ UNCHANGED <<inputs, period, timeOut>>

RunSubTask(p) == Configure(p) \/ Skip(p) \/ Operate(p)

-----------------------------------------------------------------------------
Next ==
  \/ \E p \in Pumps, r \in Inputs : SetInput(p, r)
  \/ \E c \in NewConfigs : SetConfig(c[1], c[2])
  \/ Tick
  \/ \E p \in Pumps : RunSubTask(p)

Spec == Init /\ [][Next]_vars

(* Time passes and the task runs every pump that is queued.                 *)
FairSpec == Spec /\ WF_vars(Tick) /\ \A p \in Pumps : WF_vars(RunSubTask(p))

-----------------------------------------------------------------------------
(* Types of all variables.                                                  *)
TypeOK ==
  /\ DOMAIN input = Pumps /\ <<noOfPumps, cnf>> \in Configs
  /\ updated \in [Pumps -> SUBSET (Delays \cup {"noOfPumps", "enable", "vfd"})]
  /\ runReq \in [Pumps -> BOOLEAN] /\ running \in Pumps \cup {NONE}
  /\ st \in [Pumps -> [installed : BOOLEAN, enabled : BOOLEAN,
                       act : {"notInstalled", "disabled", "stopped", "started"}]]
  /\ out \in [Pumps -> [relay : BOOLEAN, reverse : BOOLEAN,
                        vfdStart : {"no", "yes", "notAvailable"},
                        ready : BOOLEAN, available : BOOLEAN,
                        mode : {"notInstalled", "disabled", "stopped", "started"}]]
  /\ active \in [Delays -> BOOLEAN] /\ lastEvent \in 0 .. 1
  /\ timer \in [Pumps -> [Timers -> 0 .. MaxTime]]
  /\ period \in [Pumps -> [Delays -> 1 .. MaxTime]]
  /\ timeOut \in [Pumps -> SUBSET Delays]
  /\ contactor \in [Pumps -> [flag : BOOLEAN, fault : BOOLEAN]]
  /\ since \in 0 .. MaxTime

(* Every change of a pump's input has been taken in.                        *)
Settled(p) == ~runReq[p] /\ running = NONE

(* A pump that the user has disabled, or that is not installed, has all its *)
(* outputs off as soon as it has taken that in, and says so.                *)
DisabledIsOff ==
  \A p \in Pumps :
    Settled(p) /\ (p > noOfPumps \/ ~input[p].enable) =>
      /\ ~out[p].relay /\ ~out[p].reverse /\ out[p].vfdStart = "no"
      /\ ~out[p].ready /\ ~out[p].available
      /\ out[p].mode = IF p > noOfPumps THEN "notInstalled" ELSE "disabled"

(* A stopped pump stands still: its relays are on only while a frequency    *)
(* drive runs its stop flush.  And without a drive the contactors for the   *)
(* two directions are never on together, also when a drive that uses both   *)
(* is taken away.                                                           *)
RelaysAgree ==
  \A p \in Pumps :
    Settled(p) /\ (out[p].relay \/ out[p].reverse) =>
      IF input[p].vfd = "none"
      THEN st[p].act = "started" /\ ~(out[p].relay /\ out[p].reverse)
      ELSE st[p].act = "started" \/ input[p].vfd \notin VfdStopped

(* An active delay ends: a timer is running for it, or its timeout is on    *)
(* its way.  Otherwise no pump could ever start or stop again.              *)
DelayEnds ==
  \A d \in Delays : active[d] =>
    \E p \in Pumps : timer[p][d] > 0 \/ (d \in timeOut[p] /\ (runReq[p] \/ running = p))

StartEvent(p) == running = p /\ st[p].act = "stopped" /\ st'[p].act = "started"
StopEvent(p) == running = p /\ st[p].act = "started" /\ st'[p].act = "stopped"

(* A pump starts after the start of another at the earliest when the        *)
(* start-start delay is over, and stops after the stop of another when the  *)
(* stop-stop delay is, unless a digital input overrules it (Pump.cpp:513,   *)
(* :527).                                                                   *)
EventsApart ==
  [][\A p \in Pumps : ~IgnoreDelays(input[p]) =>
       /\ StartEvent(p) /\ lastEvent = 1 => since >= cnf["startStart"]
       /\ StopEvent(p) /\ lastEvent = 0 => since >= cnf["stopStop"]]_vars

(* A start after a stop, or a stop after a start, waits for the             *)
(* start-stop-start delay.                                                  *)
ReversalsApart ==
  [][\A p \in Pumps :
       /\ (StartEvent(p) /\ lastEvent = 0) \/ (StopEvent(p) /\ lastEvent = 1)
       /\ ~IgnoreDelays(input[p])
       => since >= cnf["startStopStart"]]_vars

(* The alarm of an enabled pump is reset in the end: the delayed reset is   *)
(* not lost while the feedback can be judged.                               *)
FaultIsCleared ==
  \A p \in Pumps :
    /\ Settled(p) /\ st[p].installed /\ st[p].enabled /\ input[p].reference
    /\ contactor[p].fault
    => contactor[p].flag \/ timer[p]["alarmReset"] > 0

(* When the inputs come to rest every pump does in the end what it is asked *)
(* to do, delays of all pumps notwithstanding.                              *)
DoesAsAsked ==
  \A p \in Pumps :
    <>[][FALSE]_inputs =>
      <>[](p <= noOfPumps /\ input[p].enable =>
             (st[p].act = "started" <=> Wanted(input[p])))

=============================================================================

------------------------------ MODULE AlarmDelay ------------------------------
(***************************************************************************)
(* A controller that raises an alarm, over its AlarmDelay                   *)
(* (application/alarm/AlarmDelay.cpp) and the two timers of that, which     *)
(* SwTimerTask serves.  Each run of the controller (as in                   *)
(* BoolInputAlarmCtrl.cpp) first lets AlarmDelay report the delays that are *)
(* over (CheckErrorTimers), then tells it about the input, and lets it      *)
(* start and stop the timers (UpdateAlarmDataPoint).  The timeouts set      *)
(* flags at any moment in between, since SwTimerTask has priority 245 and   *)
(* the controllers 180 or less.                                             *)
(*                                                                         *)
(* pc is where the controller is: each step is one access to a flag or the  *)
(* call of a timer, which has to return before the next.  Inputs come from  *)
(* tasks of higher priority, at any time; configurations from the bus and   *)
(* the display, of lower priority, while the controller does not run.       *)
(* Other users of timers (Other) share the interrupt, the queue and         *)
(* SwTimerTask.                                                             *)
(***************************************************************************)
EXTENDS SwTimer

CONSTANTS
  Other,         (* timers of others                                       *)
  OtherPeriods,  (* what they set them to: <<value, unit, repeat>>         *)
  Inputs,        (* what the input may ask for: subsets of the next        *)
  Configs,       (* [type, alarm, warning, delay]                          *)
  MaxOther,      (* bounds how often the others use their timers           *)
  Together       (* the others use theirs while the input changes; if not, *)
                 (* one of both does not happen                            *)

Own == {"fault", "warning"}

ASSUME AlarmDelayAssumption ==
  /\ Timer = Own \cup Other /\ Own \cap Other = {}
  /\ OtherPeriods \subseteq Nat \X Unit \X BOOLEAN
  /\ Inputs \subseteq SUBSET Own
  /\ Configs \subseteq [type : {"AC_DIGITAL", "AC_FLOAT"}, alarm : BOOLEAN,
                        warning : BOOLEAN, delay : Nat]
  /\ MaxOther \in Nat /\ Together \in BOOLEAN

VARIABLES
  input,      (* what the input asks for now                               *)
  config,     (* AlarmConfig of the data point                             *)
  error,      (* ErrorPresent of the data point                            *)
  mSet,       (* mFault and mWarning: the set of those that are true       *)
  flag,       (* mFaultTimerFlag and mWarningTimerFlag, likewise           *)
  check,      (* mAlarmDelayCheckFlag of the controller                    *)
  requested,  (* mRunRequestedFlag: the controller is in the queue         *)
  pc, temp,   (* where it is, and temp_error_present                       *)
  used        (* how often Other were used; beyond MaxOther if they are    *)
              (* left alone                                                *)

ctrlVars == <<input, config, error, mSet, flag, check, requested, pc, temp>>
vars == <<timerVars, ctrlVars, used>>

OthersMake == {Created(p[1], p[2], p[3], start) : p \in OtherPeriods, start \in BOOLEAN}

Init ==
  /\ \E others \in [Other -> OthersMake] :
       timer = [t \in Timer |-> IF t \in Own THEN Created(Second, "MS", FALSE, FALSE) ELSE others[t]]
  /\ op = [t \in Timer |-> Idle]
  /\ list = <<>> /\ signalled = FALSE /\ draining = FALSE
  /\ age = [t \in Timer |-> 0] /\ cut = [t \in Timer |-> FALSE]
  /\ input \in Inputs /\ config \in Configs
  /\ error = "READY" /\ mSet = {} /\ flag = {} /\ check = FALSE
  /\ requested = TRUE /\ pc = "idle" /\ temp = "READY"
  /\ used \in IF Together THEN {0} ELSE {0, MaxOther + 1}
  /\ used > MaxOther => \A t \in Other : timer[t].auto

-----------------------------------------------------------------------------
(* The controller.                                                          *)

At(from, to) ==
  Quiet /\ (\A t \in Own : Unused(t)) /\ pc = from /\ pc' = to

(* A change of ErrorPresent notifies AlarmDelay, which notifies the         *)
(* controller.                                                              *)
SetErrorPresent(e) ==
  /\ error' = e
  /\ IF e # error THEN check' = TRUE /\ requested' = TRUE
                  ELSE UNCHANGED <<check, requested>>

(* RunSubTask, up to the test of the check flag.                            *)
Begin ==
  /\ At("idle", IF check THEN "warning" ELSE "input") /\ requested
  /\ requested' = FALSE /\ check' = FALSE
  /\ UNCHANGED <<timerVars, input, config, error, mSet, flag, temp, used>>

(* CheckErrorTimers: a warning that is not enabled takes an alarm back.     *)
CheckWarningTimer ==
  /\ At("warning", "fault")
  /\ IF "warning" \in flag
     THEN /\ flag' = flag \ {"warning"}
          /\ SetErrorPresent(IF config.warning THEN "WARNING" ELSE "READY")
     ELSE UNCHANGED <<flag, error, check, requested>>
  /\ UNCHANGED <<timerVars, input, config, mSet, temp, used>>

CheckFaultTimer ==
  /\ At("fault", "input")
  /\ IF "fault" \in flag
     THEN /\ flag' = flag \ {"fault"}
          /\ SetErrorPresent(IF config.alarm THEN "ALARM" ELSE error)
     ELSE UNCHANGED <<flag, error, check, requested>>
  /\ UNCHANGED <<timerVars, input, config, mSet, temp, used>>

(* SetFault or ResetFault, SetWarning or ResetWarning.                      *)
EvaluateInput ==
  /\ At("input", "update")
  /\ mSet' = input
  /\ UNCHANGED <<timerVars, input, config, error, flag, check, requested, temp, used>>

(* What UpdateAlarmDataPoint finds present.                                 *)
Present(s, c) ==
  LET digital == c.type = "AC_DIGITAL"
  IN  IF "fault" \in s /\ c.alarm THEN "ALARM"
      ELSE IF c.warning /\ (IF digital THEN "fault" ELSE "warning") \in s THEN "WARNING"
      ELSE "READY"

UpdateAlarmDataPoint ==
  /\ At("update", "faultTimer")
  /\ temp' = Present(mSet, config)
  /\ UNCHANGED <<timerVars, input, config, error, mSet, flag, check, requested, used>>

(* A timer is given its period, and then retriggered.                       *)
StartDelay(t, v) == SetSwTimerPeriod(t, v, "MS", FALSE)

FaultTimer ==
  /\ LET starts == error # "ALARM" /\ ~timer["fault"].started
     IN  \/ /\ temp = "ALARM" /\ starts /\ StartDelay("fault", config.delay)
            /\ At("faultTimer", "faultAgain")
         \/ /\ At("faultTimer", "warningTimer")
            /\ IF temp = "ALARM" THEN ~starts /\ UNCHANGED timerVars ELSE StopSwTimer("fault")
  /\ UNCHANGED <<input, config, error, mSet, flag, check, requested, temp, used>>

(* Mutant: an alarm that is a warning only now stays an alarm.              *)
WarningTimer_NoStepDown ==
  /\ LET starts == error = "READY" /\ ~timer["warning"].started
     IN  \/ /\ temp = "WARNING" /\ starts /\ StartDelay("warning", config.delay)
            /\ At("warningTimer", "warningAgain")
         \/ /\ At("warningTimer", "ready")
            /\ IF temp = "WARNING" THEN ~starts /\ UNCHANGED timerVars ELSE StopSwTimer("warning")
  /\ UNCHANGED <<input, config, error, mSet, flag, check, requested, temp, used>>

(* A warning after an alarm is reported at once, to remove the alarm.       *)
WarningTimer ==
  /\ LET starts == error = "READY" /\ ~timer["warning"].started
     IN  \/ /\ temp = "WARNING" /\ (starts \/ error = "ALARM")
            /\ StartDelay("warning", IF error = "ALARM" THEN 0 ELSE config.delay)
            /\ At("warningTimer", "warningAgain")
         \/ /\ At("warningTimer", "ready")
            /\ IF temp = "WARNING" THEN ~starts /\ error # "ALARM" /\ UNCHANGED timerVars
               ELSE StopSwTimer("warning")
  /\ UNCHANGED <<input, config, error, mSet, flag, check, requested, temp, used>>

Retrigger ==
  /\ \/ At("faultAgain", "warningTimer") /\ RetriggerSwTimer("fault")
     \/ At("warningAgain", "ready") /\ RetriggerSwTimer("warning")
  /\ UNCHANGED <<input, config, error, mSet, flag, check, requested, temp, used>>

(* Inside a call of a timer.                                                *)
UseTimer ==
  /\ Quiet /\ \E t \in Own : Continue(t)
  /\ UNCHANGED <<ctrlVars, used>>

(* READY is reported at once.                                               *)
SetReady ==
  /\ At("ready", "idle")
  /\ IF temp = "READY"
     THEN SetErrorPresent("READY")
     ELSE UNCHANGED <<error, check, requested>>
  /\ UNCHANGED <<timerVars, input, config, mSet, flag, temp, used>>

RunSubTask ==
  \/ Begin \/ CheckWarningTimer \/ CheckFaultTimer \/ EvaluateInput
  \/ UpdateAlarmDataPoint \/ FaultTimer \/ WarningTimer \/ Retrigger \/ SetReady
  \/ UseTimer

-----------------------------------------------------------------------------
(* The others.                                                              *)

(* Mutant: the timeout does not ask for a run.                              *)
TimeOut_NoNotify ==
  /\ ReadTimeOut
  /\ IF Head(list) \in Own
     THEN flag' = flag \cup {Head(list)} /\ UNCHANGED <<check, requested>>
     ELSE UNCHANGED <<flag, check, requested>>
  /\ UNCHANGED <<input, config, error, mSet, pc, temp, used>>

(* TimeOut of the next timer: AlarmDelay::Update, which notifies the        *)
(* controller.                                                              *)
TimeOut ==
  /\ ReadTimeOut
  /\ IF Head(list) \in Own
     THEN flag' = flag \cup {Head(list)} /\ check' = TRUE /\ requested' = TRUE
     ELSE UNCHANGED <<flag, check, requested>>
  /\ UNCHANGED <<input, config, error, mSet, pc, temp, used>>

MayChange == Together \/ used > MaxOther

SetInput(i) ==
  /\ Quiet /\ MayChange /\ i # input /\ input' = i
  /\ requested' = TRUE
  /\ UNCHANGED <<timerVars, config, error, mSet, flag, check, pc, temp, used>>

(* The data point passes the change of its configuration on.                *)
SetConfig(c) ==
  /\ Quiet /\ MayChange /\ pc = "idle" /\ c # config /\ config' = c
  /\ check' = TRUE /\ requested' = TRUE
  /\ UNCHANGED <<timerVars, input, error, mSet, flag, pc, temp, used>>

(* Others use their timers in all ways, also between expiry and TimeOut.    *)
UseOther(t) ==
  /\ ~Interrupt
  /\ \/ /\ used < MaxOther /\ used' = used + 1
        /\ \/ StartSwTimer(t) \/ StopSwTimer(t) \/ RetriggerSwTimer(t)
           \/ \E p \in OtherPeriods : SetSwTimerPeriod(t, p[1], p[2], p[3])
     \/ Continue(t) /\ UNCHANGED used
  /\ UNCHANGED ctrlVars

Clock ==
  /\ Tick \/ (\E t \in Timer : Callback(t))
  /\ UNCHANGED <<ctrlVars, used>>

SwTimerTask ==
  \/ (WaitEvent \/ EndOfList) /\ UNCHANGED <<ctrlVars, used>>
  \/ TimeOut

Next ==
  \/ Clock \/ SwTimerTask \/ RunSubTask
  \/ \E i \in Inputs : SetInput(i)
  \/ \E c \in Configs : SetConfig(c)
  \/ \E t \in Other : UseOther(t)

Spec == Init /\ [][Next]_vars

(* Time passes, SwTimerTask runs as soon as it can, and the controller in   *)
(* the time between the interrupts.                                         *)
FairSpec ==
  Spec /\ WF_vars(Clock) /\ WF_vars(SwTimerTask) /\ SF_vars(RunSubTask)

-----------------------------------------------------------------------------
TypeOK ==
  /\ TimerTypeOK
  /\ input \in Inputs /\ config \in Configs
  /\ error \in {"READY", "WARNING", "ALARM"} /\ temp \in {"READY", "WARNING", "ALARM"}
  /\ mSet \in SUBSET Own /\ flag \in SUBSET Own
  /\ check \in BOOLEAN /\ requested \in BOOLEAN
  /\ pc \in {"idle", "warning", "fault", "input", "update", "faultTimer", "faultAgain",
            "warningTimer", "warningAgain", "ready"}
  /\ used \in 0 .. MaxOther + 1

(* At rest, with no delay running and no timeout to come, the data point    *)
(* shows what the input and the configuration ask for: no way through the   *)
(* flags and timers leaves an alarm hanging, or a fault without one.        *)
ErrorFitsInput ==
  /\ pc = "idle" /\ ~requested
  /\ \A t \in Own : timer[t].os # "running" /\ \A i \in 1 .. Len(list) : list[i] # t
  => error = Present(input, config)

(* An input and a configuration that stay are what the data point shows in  *)
(* the end, once and for all.                                               *)
ErrorSettles ==
  <>[][UNCHANGED <<input, config>>]_vars => <>[](error = Present(input, config))

=============================================================================

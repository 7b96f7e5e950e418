----------------------------- MODULE InterLock -----------------------------
(***************************************************************************)
(* Two pits: InterLockMasterCtrl of the one locks the other, whose          *)
(* InterLockedCtrl it reaches by text messages only.  In the other pit      *)
(* SmsCtrl::HandleSmsIn gives the time and then the event; locks can also   *)
(* be asked for, ended, timed and ignored there, and either pit may lose    *)
(* its power.                                                               *)
(*                                                                         *)
(* The sub tasks take no time that counts in minutes: a Tick waits for them.*)
(***************************************************************************)
EXTENDS InterLockMasterCtrl, InterLockedCtrl

CONSTANT MaxInputs   (* events from outside between two ticks: a bound      *)

ASSUME InterLockBounds == MaxInputs \in Nat

(* The ranges of the two timeouts (Factory.cpp:5260, :5344), and messages   *)
(* that take less than the time SendInterLockSMS leaves them, of which the  *)
(* rounding to whole minutes takes a part.                                  *)
ASSUME TimesAssumption ==
  /\ \A t \in PitTimeouts : Early + MinRecall <= t /\ t <= Longest
  /\ Delay + Minute <= Early

VARIABLES
  handled,   (* HandleSmsIn has set the time and will now set the event    *)
  inputs,    (* events from outside since the last tick                    *)
  hold       (* history: "sent" while the first message of a lock is under *)
             (* way, "held" from its arrival on, "no" once the messages    *)
             (* were not as they should be or the other pit disagreed      *)

vars == <<masterVars, net, lockVars, handled, inputs, hold>>

Init ==
  /\ MasterInit /\ LockInit /\ net = <<>>
  /\ handled = FALSE /\ inputs = 0 /\ hold = "no"

TypeOK ==
  /\ MasterTypeOK /\ LockTypeOK
  /\ net \in Seq(Message(Nat)) /\ Len(net) <= MaxFlight
  /\ handled \in BOOLEAN /\ inputs \in 0 .. MaxInputs /\ hold \in {"no", "sent", "held"}

-----------------------------------------------------------------------------
(* The sub tasks and their timers.                                          *)

(* A lock is "sent" if nothing else is under way to the other pit.          *)
HoldOfMaster ==
  IF state' # "ILMS_LOCKED" THEN "no"
  ELSE IF state # "ILMS_LOCKED"
       THEN IF net = <<>> /\ ~handled /\ ~ignore /\ updated \cap {"off", "digIn"} = {}
            THEN "sent" ELSE "no"
       ELSE IF net' = net /\ (changed # {} \/ recallFlag) THEN "no" ELSE hold

Master ==
  /\ RunMaster /\ hold' = HoldOfMaster
  /\ UNCHANGED <<lockVars, handled, inputs>>

Locked == RunLock /\ UNCHANGED <<masterVars, net, handled, inputs, hold>>

TimeOut ==
  \/ RecallTimeOut /\ UNCHANGED <<lockVars, handled, inputs, hold>>
  \/ LockTimeOut /\ UNCHANGED <<masterVars, net, handled, inputs, hold>>

Left(t) == IF t > 0 THEN t - 1 ELSE t

Tick ==
  /\ ~masterRun /\ ~run /\ ~handled /\ recall # 0 /\ timer # 0
  /\ recall' = Left(recall) /\ timer' = Left(timer) /\ net' = Older /\ inputs' = 0
  /\ hold' = IF \E i \in DOMAIN net' : net'[i].age = Late THEN "no" ELSE hold
  /\ UNCHANGED <<state, recallTime, recallFlag, changed, masterRun, levelAlarm,
                 underLowest, enabled, timeoutPit, sent>>
  /\ UNCHANGED <<locked, timeout, timerFlag, updated, run, ignore, digIn, handled>>

-----------------------------------------------------------------------------
(* A text message arrives, in order or not, or is lost.                     *)

HoldOf(i) == IF i = 1 THEN hold ELSE "no"

HandleSmsIn(i) ==
  /\ ~handled /\ Gone(i)
  /\ IF net[i].command = "AUTO"
     THEN SetEvent("off") /\ handled' = FALSE /\ hold' = "no"
     ELSE /\ IF net[i].time > 0 THEN SetTimeout(net[i].time) ELSE UNCHANGED lockVars
          /\ handled' = TRUE /\ hold' = HoldOf(i)
  /\ UNCHANGED <<masterVars, inputs>>

HandleSmsEnd ==
  /\ handled /\ handled' = FALSE
  /\ SetEvent("request")
  /\ hold' = IF hold = "sent" THEN "held" ELSE hold
  /\ UNCHANGED <<masterVars, net, inputs>>

Lose(i) == Gone(i) /\ hold' = "no" /\ UNCHANGED <<masterVars, lockVars, handled, inputs>>

-----------------------------------------------------------------------------
(* Events from outside.                                                     *)

Input == inputs < MaxInputs /\ inputs' = inputs + 1

MasterInput ==
  /\ Input
  /\ \/ \E a, u, e \in BOOLEAN : MasterUpdate(a, u, e)
     \/ \E t \in PitTimeouts : SetPitTimeout(t)
     \/ \E x \in Setting : SetPitSetting(x)
  /\ UNCHANGED <<lockVars, handled, hold>>

(* From the display or the bus: requests, and what goes against the master. *)
Request == Input /\ SetEvent("request") /\ UNCHANGED <<masterVars, net, handled, hold>>

DigIn ==
  /\ Input /\ SetDigIn /\ hold' = IF digIn THEN "no" ELSE hold
  /\ UNCHANGED <<masterVars, net, handled>>

Disagree ==
  /\ Input /\ hold' = "no"
  /\ SetEvent("off") \/ SetIgnore
  /\ UNCHANGED <<masterVars, net, handled>>

OtherTime ==
  /\ Input /\ hold' = "no"
  /\ \E t \in Timeouts : SetTimeout(t)
  /\ UNCHANGED <<masterVars, net, handled>>

(* The power goes and comes back.  The flash has what was saved, which may  *)
(* be older than what was lost.                                             *)
MasterPower ==
  /\ Input /\ hold' = "no"
  /\ \E s \in MasterState : MasterStart(s)
  /\ UNCHANGED <<net, lockVars, handled>>

LockPower ==
  /\ Input
  /\ \E l \in BOOLEAN, t \in Timeouts \cup {timeout} :
       /\ LockStart(l, t)
       /\ hold' = IF <<l, t>> = <<locked, timeout>> /\ updated = {} /\ ~handled
                  THEN hold ELSE "no"
  /\ handled' = FALSE
  /\ UNCHANGED <<masterVars, net>>

-----------------------------------------------------------------------------
Next ==
  \/ Master \/ Locked \/ TimeOut \/ Tick
  \/ \E i \in DOMAIN net : HandleSmsIn(i) \/ Lose(i)
  \/ HandleSmsEnd
  \/ MasterInput \/ Request \/ DigIn \/ Disagree \/ OtherTime
  \/ MasterPower \/ LockPower

Spec == Init /\ [][Next]_vars

(* The sub tasks run when they are asked to, time passes, and HandleSmsIn   *)
(* comes to its end; no message has to arrive.                              *)
FairSpec ==
  /\ Spec /\ WF_vars(Master) /\ WF_vars(Locked) /\ WF_vars(TimeOut)
  /\ WF_vars(Tick) /\ WF_vars(HandleSmsEnd)

-----------------------------------------------------------------------------
(* As long as messages take no longer than Delay, the other pit stays       *)
(* locked from the arrival of the first message on: the reminder is there   *)
(* before the lock ends (InterLockMasterCtrl.cpp:53-56, :344-357), through  *)
(* changes of settings and digital inputs and the other pit's loss of power.*)
StaysLocked == hold = "held" => locked \/ "request" \in updated

(* What makes a lock last.                                                  *)
Prolong == Request \/ DigIn \/ OtherTime \/ LockPower

(* Once the master wants no lock and nobody in the other pit asks for one,  *)
(* the other pit is not locked for ever, even if AUTO is lost               *)
(* (InterLockedCtrl.cpp:188-193).                                           *)
LockEnds ==
  <>[][~Prolong]_vars /\ <>[](state # "ILMS_LOCKED") => []<>(~locked)

=============================================================================

------------------------ MODULE InterLockMasterCtrl ------------------------
(***************************************************************************)
(* InterLockMasterCtrl (src/application/InterLockedCtrl): a pit that has a  *)
(* level alarm locks the pit that pumps into it, by a text message that     *)
(* says for how long, and sends a reminder before that time is over.        *)
(*                                                                         *)
(* RunSubTask is one action: what it reads is set by tasks of lower         *)
(* priority, and of what SwTimerTask sets above it only the timer flag is   *)
(* cleared too early, before the message is sent and the timer set again.   *)
(*                                                                         *)
(* Neither the constructor nor InitSubTask gives mInterLockMasterState a    *)
(* value, and memory from the heap is not cleared: after a start it is any  *)
(* value, "other" for those the switch of RunSubTask does nothing with.     *)
(***************************************************************************)
EXTENDS SmsNet

CONSTANTS
  Minute,       (* ticks in a minute                                       *)
  Early,        (* INTERLOCK_SMS_SEND_EARLY_TIME                           *)
  MinRecall,    (* INTERLOCK_SMS_MINIMUM_RECALL_TIME                       *)
  PitTimeouts   (* values of mpInterLockTimeoutPit                         *)

ASSUME MasterAssumption ==
  /\ Minute \in Nat \ {0} /\ Early \in Nat /\ MinRecall \in Nat
  /\ PitTimeouts \subseteq Nat

Stopped == -1   (* of a timer; otherwise the ticks it has left              *)

(* The first and the last of the subject pointers RunSubTask asks about; the *)
(* others are as the last.                                                  *)
Setting == {"pinEnabled", "name"}

MasterState == {"ILMS_UNLOCKED", "ILMS_WANT_TO_LOCK", "ILMS_LOCKED", "other"}

VARIABLES
  state,        (* mInterLockMasterState                                   *)
  recallTime,   (* mInterLockRecallTime                                    *)
  recall,       (* INTERLOCKED_TIMEOUT_TIMER                               *)
  recallFlag,   (* mInterLockTimeoutTimerFlag                              *)
  changed,      (* the subject pointers of settings that are updated       *)
  masterRun,    (* mRunRequestedFlag                                       *)
  levelAlarm, underLowest, enabled, timeoutPit,   (* data points           *)
  sent          (* history: the last message since the start               *)

masterVars == <<state, recallTime, recall, recallFlag, changed, masterRun,
                levelAlarm, underLowest, enabled, timeoutPit, sent>>

(* Mutant: the reminder is sent when the time is over.                      *)
CalcInterLockRecallTime_Late(t) == IF t < Early + MinRecall THEN MinRecall ELSE t

CalcInterLockRecallTime(t) ==
  IF t < Early + MinRecall THEN MinRecall ELSE t - Early

(* The constructor and InitSubTask.                                         *)
MasterStart(s) ==
  /\ state' = s /\ recallTime' = CalcInterLockRecallTime(timeoutPit)
  /\ recall' = Stopped /\ recallFlag' = FALSE /\ changed' = {}
  /\ masterRun' = TRUE /\ sent' = "nothing"
  /\ UNCHANGED <<levelAlarm, underLowest, enabled, timeoutPit>>

MasterInit ==
  /\ state \in MasterState /\ timeoutPit \in PitTimeouts
  /\ recallTime = CalcInterLockRecallTime(timeoutPit)
  /\ recall = Stopped /\ recallFlag = FALSE /\ changed = {}
  /\ masterRun = TRUE /\ sent = "nothing"
  /\ levelAlarm = FALSE /\ underLowest = FALSE /\ enabled = TRUE

MasterTypeOK ==
  /\ state \in MasterState
  /\ recallTime \in Nat /\ recall \in Nat \cup {Stopped}
  /\ changed \subseteq {"timeout"} \cup Setting
  /\ {recallFlag, masterRun, levelAlarm, underLowest, enabled} \subseteq BOOLEAN
  /\ timeoutPit \in PitTimeouts
  /\ sent \in Command \cup {"nothing"}

-----------------------------------------------------------------------------
(* RunSubTask.                                                              *)

NewRecallTime ==
  IF "timeout" \in changed THEN CalcInterLockRecallTime(timeoutPit) ELSE recallTime

(* Once a setting has changed RunSubTask does not ask about the next ones,  *)
(* which stay updated until the run after.                                  *)
NotAsked == IF "pinEnabled" \in changed THEN changed \cap {"name"} ELSE {}

(* The time is told in whole minutes.                                       *)
SendInterLockSMS(c) ==
  /\ SendSms(c, (timeoutPit \div Minute) * Minute)
  /\ sent' = c

(* A timer that is due when the flag is cleared sets it again, and Update    *)
(* requests the next run.                                                   *)
FlagCleared == recallFlag' \in IF recall = 0 THEN BOOLEAN ELSE {FALSE}

Lock ==
  /\ SendInterLockSMS("INTERLOCK") /\ recall' = NewRecallTime /\ state' = "ILMS_LOCKED"

Keep == UNCHANGED <<state, recall, sent, net>>

Unlocked ==
  /\ state = "ILMS_UNLOCKED"
  /\ recallFlag' = FALSE
  /\ IF levelAlarm /\ ~underLowest
     THEN \/ enabled /\ Lock
          \/ ~enabled /\ state' = "ILMS_WANT_TO_LOCK" /\ UNCHANGED <<recall, sent, net>>
     ELSE Keep

WantToLock ==
  /\ state = "ILMS_WANT_TO_LOCK"
  /\ recallFlag' = FALSE
  /\ IF ~levelAlarm \/ underLowest
     THEN state' = "ILMS_UNLOCKED" /\ UNCHANGED <<recall, sent, net>>
     ELSE \/ enabled /\ Lock
          \/ ~enabled /\ Keep

(* Mutant: no message says so.                                              *)
Release_Silent ==
  /\ state = "ILMS_LOCKED" /\ (~enabled \/ underLowest)
  /\ FlagCleared /\ recall' = Stopped
  /\ state' = "ILMS_UNLOCKED" /\ UNCHANGED <<sent, net>>

Release ==
  /\ state = "ILMS_LOCKED" /\ (~enabled \/ underLowest)
  /\ FlagCleared
  /\ SendInterLockSMS("AUTO") /\ recall' = Stopped /\ state' = "ILMS_UNLOCKED"

(* A reminder, or a message with the new settings.                          *)
Remind ==
  /\ state = "ILMS_LOCKED" /\ enabled /\ ~underLowest
  /\ IF changed # {} \/ recallFlag THEN FlagCleared /\ Lock
                                   ELSE Keep /\ UNCHANGED recallFlag

Lost == state = "other" /\ Keep /\ UNCHANGED recallFlag

RunMaster ==
  /\ masterRun
  /\ Unlocked \/ WantToLock \/ Release \/ Remind \/ Lost
  /\ masterRun' = recallFlag'
  /\ recallTime' = NewRecallTime /\ changed' = NotAsked
  /\ UNCHANGED <<levelAlarm, underLowest, enabled, timeoutPit>>

-----------------------------------------------------------------------------
(* Update: a timeout, and subjects that get another value.                  *)

RecallTimeOut ==
  /\ recall = 0
  /\ recall' = Stopped /\ recallFlag' = TRUE /\ masterRun' = TRUE
  /\ UNCHANGED <<state, recallTime, changed, levelAlarm, underLowest, enabled,
                 timeoutPit, sent, net>>

MasterUpdate(a, u, e) ==
  /\ <<a, u, e>> # <<levelAlarm, underLowest, enabled>>
  /\ levelAlarm' = a /\ underLowest' = u /\ enabled' = e /\ masterRun' = TRUE
  /\ UNCHANGED <<state, recallTime, recall, recallFlag, changed, timeoutPit, sent, net>>

(* The time, or the PIN, telephone number or name of the other pit.         *)
SetPitTimeout(t) ==
  /\ t # timeoutPit
  /\ timeoutPit' = t /\ changed' = changed \cup {"timeout"} /\ masterRun' = TRUE
  /\ UNCHANGED <<state, recallTime, recall, recallFlag, levelAlarm, underLowest,
                 enabled, sent, net>>

SetPitSetting(x) ==
  /\ changed' = changed \cup {x} /\ masterRun' = TRUE
  /\ UNCHANGED <<state, recallTime, recall, recallFlag, levelAlarm, underLowest,
                 enabled, timeoutPit, sent, net>>

-----------------------------------------------------------------------------
(* While INTERLOCK is the last message of this pit it is locked, and the    *)
(* next reminder is on its way: the timer runs, or its timeout waits for    *)
(* RunSubTask (InterLockMasterCtrl.cpp:134-195, :182-186).  And it does not *)
(* forget to release the other: when it does not want the lock any longer   *)
(* INTERLOCK is not the last it sent, and no timer asks for a reminder.     *)
LockIsReminded ==
  /\ sent = "INTERLOCK" =>
       /\ state = "ILMS_LOCKED"
       /\ recall # Stopped \/ (recallFlag /\ masterRun)
  /\ state # "ILMS_LOCKED" => recall = Stopped

=============================================================================

---------------------------- MODULE ConfigControl ----------------------------
(***************************************************************************)
(* application/config/ConfigControl.cpp: ConfigTask, the task of lowest     *)
(* priority, moves changed subjects through a queue into the block caches   *)
(* and writes modified caches to flash, against the tasks that change       *)
(* subjects, the timers, a factory boot of a block and power down           *)
(* (application/driver/PowerDown.cpp).                                      *)
(*                                                                         *)
(* Scheduling.  Every other task has a higher priority than ConfigTask, so  *)
(* a caller that is inside NotifyObservers (variable updating) holds it up, *)
(* until PowerDown raises ConfigTask above them all.  A caller may come     *)
(* between any two steps of ConfigTask.  One step is one access to state    *)
(* that other tasks share; a read of the queue and the SaveToCache that     *)
(* follows are one step, since a change in between is queued again.         *)
(*                                                                         *)
(* Abstractions.  The hardware-error AlarmDelay is one flag, fault.  The    *)
(* three erasures of a LOG boot are one step.  A subject's log series data  *)
(* changes without notification, as ConnectToSubjectsSpecial arranges.      *)
(***************************************************************************)
EXTENDS FlashBlock, SequencesExt

CONSTANTS
  QueueSize,  (* capacity of mSubjectQueue (1000 in the code)              *)
  BootCalls,  (* the sets of flags that calls of Boot may set              *)
  PowerDowns  (* TRUE if power may go down                                 *)

Series == {"series1", "series5"} \cap Subjects
Settings == {"config", "gsc", "noBoot"} \cap Subjects

ASSUME ConfigAssumption ==
  /\ QueueSize \in Nat
  /\ BootCalls \subseteq SUBSET {"config", "log", "gsc"}
  /\ PowerDowns \in BOOLEAN

VARIABLES
  pc,          (* where ConfigTask is in Run and Doit                      *)
  step,        (* where it is in FlashBlock::SaveToFlash                   *)
  ret,         (* where Doit returns to                                    *)
  queue,       (* mSubjectQueue                                            *)
  event,       (* RUN_EVENT of ConfigTask                                  *)
  okToSave,    (* mOkToSaveFlag                                            *)
  executeBoot, (* mExecuteBootFlag                                         *)
  boot,        (* mBootConfigBlockFlag, mBootLogBlockFlag, mBootGscBlockFlag *)
  powerDown,   (* mPowerDownFlag                                           *)
  timeLog,     (* mTimeToSaveLogDataFlag                                   *)
  timeAlarm,   (* mTimeToSaveAlarmLogFlag                                  *)
  alarmTimer,  (* DELAY_SAVE_OF_ALARM_LOG_TIMER runs                       *)
  nextLog,     (* mNextLogBlockToSave                                      *)
  fault,       (* fault state of the hardware-error AlarmDelay             *)
  updating,    (* the subject whose observers are being notified, or NONE  *)
  owed,        (* history: the data of the subjects when power went down    *)
  inTime       (* history: power went down before Doit reached LogTest     *)

blocks  == <<subject, cache, modified, errors, flash, faults>>
flags   == <<okToSave, executeBoot, boot, powerDown, timeLog, timeAlarm, alarmTimer>>
callers == <<okToSave, powerDown, updating, owed, inTime>>
vars == <<blocks, pc, step, ret, queue, event, flags, nextLog, fault,
          updating, owed, inTime>>

LogBlock == "LOG_BLOCK"
UserLog1 == "USER_LOG_BLOCK_1"
UserLog2 == "USER_LOG_BLOCK_2"
NextLogs == {LogBlock, UserLog1, UserLog2}

(* The labels where SaveToFlash is called, for which block, and what        *)
(* follows; the first two save unconditionally.                             *)
BlockAt == [bootConfig |-> "config", bootNoBoot |-> "noBoot", log |-> "log",
            config |-> "config", gsc |-> "gsc", noBoot |-> "noBoot",
            saveUser1 |-> "userLog1", saveUser2 |-> "userLog2"]
After == [bootConfig |-> "bootNoBoot", bootNoBoot |-> "test", log |-> "series",
          config |-> "gsc", gsc |-> "noBoot", noBoot |-> "user1",
          saveUser1 |-> "user1Done", saveUser2 |-> "user2Done"]
Always == {"bootConfig", "bootNoBoot"}
BeforeLogTest == {"start", "bootConfig", "bootNoBoot", "wait", "exec", "ok",
                  "drain", "alarmLog", "logTest"}

(* Fifo::write: a full queue drops the subject and says nothing.            *)
Queued(q, s) == IF Len(q) < QueueSize THEN Append(q, s) ELSE q
AllQueued(q, S) ==
  LET all == q \o SetToSeq(S)
  IN  IF Len(all) <= QueueSize THEN all ELSE SubSeq(all, 1, QueueSize)

-----------------------------------------------------------------------------
(* mNextLogBlockToSave is not initialised by the constructor.               *)
Init ==
  /\ InitBlocks
  /\ pc = "start" /\ step = "none" /\ ret = "none"
  /\ queue = <<>> /\ event = FALSE
  /\ okToSave = TRUE /\ executeBoot = FALSE /\ boot = {} /\ powerDown = FALSE
  /\ timeLog = TRUE /\ timeAlarm = FALSE /\ alarmTimer = FALSE
  /\ nextLog \in NextLogs
  /\ fault = FALSE /\ updating = NONE
  /\ owed = [s \in Subjects |-> Default] /\ inTime = FALSE

(* Power is lost and comes back; RunFactory loads the blocks before any     *)
(* subject is subscribed to.  A save that is cut short has happened or not. *)
PowerCycle ==
  /\ \/ UNCHANGED flash
     \/ /\ step = "program"
        /\ flash' = [flash EXCEPT ![BlockAt[pc]] = CacheImage(BlockAt[pc])]
  /\ LoadAll
  /\ pc' = "start" /\ step' = "none" /\ ret' = "none"
  /\ queue' = <<>> /\ event' = FALSE
  /\ okToSave' = TRUE /\ executeBoot' = FALSE /\ boot' = {} /\ powerDown' = FALSE
  /\ timeLog' = TRUE /\ timeAlarm' = FALSE /\ alarmTimer' = FALSE
  /\ nextLog' \in NextLogs
  /\ fault' = FALSE /\ updating' = NONE
  /\ owed' = [s \in Subjects |-> Default] /\ inTime' = FALSE

-----------------------------------------------------------------------------
(* The other tasks.                                                         *)

(* A task changes a subject; its observers are notified next, except those  *)
(* of a log series, which ConfigControl does not subscribe to.              *)
SetValue(s) ==
  /\ updating = NONE /\ subject[s] < MaxValue
  /\ subject' = [subject EXCEPT ![s] = @ + 1]
  /\ updating' = IF s \in Series THEN NONE ELSE s
  /\ UNCHANGED <<cache, modified, errors, flash, faults, pc, step, ret, queue,
                 event, flags, nextLog, fault, owed, inTime>>

(* Mutant: no new entry while the event is still set.                       *)
Update_Coalesced ==
  /\ updating # NONE
  /\ queue' = IF event THEN queue ELSE Queued(queue, updating)
  /\ event' = TRUE
  /\ updating' = NONE
  /\ UNCHANGED <<blocks, pc, step, ret, flags, nextLog, fault, owed, inTime>>

(* Mutant: no signal to ConfigTask.                                         *)
Update_NoSignal ==
  /\ updating # NONE
  /\ queue' = Queued(queue, updating)
  /\ updating' = NONE
  /\ UNCHANGED <<blocks, pc, step, ret, event, flags, nextLog, fault, owed, inTime>>

Update ==
  /\ updating # NONE
  /\ queue' = Queued(queue, updating)
  /\ event' = TRUE
  /\ updating' = NONE
  /\ UNCHANGED <<blocks, pc, step, ret, flags, nextLog, fault, owed, inTime>>

(* Update on SAVE_LOG_DATA_TIMER: periodic, every 60 minutes.               *)
SaveLogDataTimer ==
  /\ timeLog' = TRUE /\ event' = TRUE
  /\ UNCHANGED <<blocks, pc, step, ret, queue, okToSave, executeBoot, boot,
                 powerDown, timeAlarm, alarmTimer, nextLog, fault, updating,
                 owed, inTime>>

(* Update on DELAY_SAVE_OF_ALARM_LOG_TIMER: one-shot, one second.           *)
DelayAlarmLogTimer ==
  /\ alarmTimer
  /\ alarmTimer' = FALSE /\ timeAlarm' = TRUE /\ event' = TRUE
  /\ UNCHANGED <<blocks, pc, step, ret, queue, okToSave, executeBoot, boot,
                 powerDown, timeLog, nextLog, fault, updating, owed, inTime>>

(* LogSeriesCtrl asks for the log series to be saved.                       *)
SaveLogSeriesToFlash ==
  /\ updating = NONE
  /\ nextLog' = UserLog1 /\ event' = TRUE
  /\ UNCHANGED <<blocks, pc, step, ret, queue, flags, fault, updating, owed, inTime>>

(* Mutant: no signal to ConfigTask.                                         *)
Boot_NoSignal(f) ==
  /\ updating = NONE
  /\ executeBoot' = TRUE /\ okToSave' = FALSE /\ boot' = boot \cup f
  /\ UNCHANGED <<blocks, pc, step, ret, queue, event, powerDown, timeLog, timeAlarm,
                 alarmTimer, nextLog, fault, updating, owed, inTime>>

Boot(f) ==
  /\ updating = NONE
  /\ executeBoot' = TRUE /\ okToSave' = FALSE /\ boot' = boot \cup f
  /\ event' = TRUE
  /\ UNCHANGED <<blocks, pc, step, ret, queue, powerDown, timeLog, timeAlarm,
                 alarmTimer, nextLog, fault, updating, owed, inTime>>

(* Mutant: no signal to ConfigTask.                                         *)
PowerDown_NoSignal ==
  /\ PowerDowns /\ ~powerDown
  /\ powerDown' = TRUE
  /\ owed' = [s \in Subjects |-> IF s \in Series \cup {updating} THEN owed[s] ELSE subject[s]]
  /\ inTime' = (pc \in BeforeLogTest)
  /\ UNCHANGED <<blocks, pc, step, ret, queue, event, okToSave, executeBoot, boot,
                 timeLog, timeAlarm, alarmTimer, nextLog, fault, updating>>

(* PowerDownTask has the highest priority of all: none sees half of it.     *)
PowerDown ==
  /\ PowerDowns /\ ~powerDown
  /\ powerDown' = TRUE /\ event' = TRUE
  /\ owed' = [s \in Subjects |-> IF s \in Series \cup {updating} THEN owed[s] ELSE subject[s]]
  /\ inTime' = (pc \in BeforeLogTest)
  /\ UNCHANGED <<blocks, pc, step, ret, queue, okToSave, executeBoot, boot,
                 timeLog, timeAlarm, alarmTimer, nextLog, fault, updating>>

-----------------------------------------------------------------------------
(* ConfigTask.                                                              *)

At(label) == pc = label /\ step = "none" /\ (updating = NONE \/ powerDown)
Goto(label) == pc' = label /\ UNCHANGED <<step, callers>>

(* Mutant: one block is forgotten.                                          *)
CheckAlarmFlags_NotLast == fault' = \E b \in Blocks \ {"userLog2"} : errors[b] # {}

(* CheckAlarmFlags.                                                         *)
CheckAlarmFlags == fault' = \E b \in Blocks : errors[b] # {}

Start ==
  /\ At("start") /\ Goto("bootConfig")
  /\ CheckAlarmFlags
  /\ UNCHANGED <<blocks, ret, queue, event, executeBoot, boot, timeLog,
                 timeAlarm, alarmTimer, nextLog>>

(* while (!mPowerDownFlag)                                                  *)
Test ==
  /\ At("test") /\ Goto(IF powerDown THEN "final" ELSE "wait")
  /\ UNCHANGED <<blocks, ret, queue, event, executeBoot, boot, timeLog,
                 timeAlarm, alarmTimer, nextLog, fault>>

(* OS_WaitEvent clears the event.                                           *)
Wait ==
  /\ At("wait") /\ event /\ Goto("exec")
  /\ event' = FALSE
  /\ UNCHANGED <<blocks, ret, queue, executeBoot, boot, timeLog, timeAlarm,
                 alarmTimer, nextLog, fault>>

Exec ==
  /\ At("exec") /\ Goto(IF executeBoot THEN "eraseConfig" ELSE "ok")
  /\ executeBoot' = FALSE
  /\ UNCHANGED <<blocks, ret, queue, event, boot, timeLog, timeAlarm,
                 alarmTimer, nextLog, fault>>

(* ExecuteBoot looks at its three flags one after the other; the log flag   *)
(* stands for three blocks.  A failed erase raises the alarm and leaves the *)
(* image or not.                                                            *)
BootFlagAt == [eraseConfig |-> "config", eraseLog |-> "log", eraseGsc |-> "gsc"]
AfterErase == [eraseConfig |-> "eraseLog", eraseLog |-> "eraseGsc", eraseGsc |-> "ok"]
BootBlocks(f) == IF f = "log" THEN {"log", "userLog1", "userLog2"} ELSE {f}

SkipErase ==
  /\ pc \in DOMAIN BootFlagAt /\ At(pc) /\ BootFlagAt[pc] \notin boot
  /\ Goto(AfterErase[pc])
  /\ UNCHANGED <<blocks, ret, queue, event, executeBoot, boot, timeLog,
                 timeAlarm, alarmTimer, nextLog, fault>>

Erase ==
  /\ pc \in DOMAIN BootFlagAt /\ At(pc) /\ BootFlagAt[pc] \in boot
  /\ Goto(AfterErase[pc])
  /\ boot' = boot \ {BootFlagAt[pc]}
  /\ LET erased == [b \in Blocks |->
           IF b \in BootBlocks(BootFlagAt[pc]) THEN NONE ELSE flash[b]]
     IN \/ flash' = erased /\ UNCHANGED <<faults, fault>>
        \/ /\ faults < MaxFaults
           /\ flash' \in {flash, erased}
           /\ faults' = faults + 1 /\ fault' = TRUE
  /\ UNCHANGED <<subject, cache, modified, errors, ret, queue, event,
                 executeBoot, timeLog, timeAlarm, alarmTimer, nextLog>>

(* Mutant: mOkToSaveFlag is not looked at.                                  *)
Ok_Always ==
  /\ At("ok") /\ Goto("drain") /\ ret' = "end"
  /\ UNCHANGED <<blocks, queue, event, executeBoot, boot, timeLog, timeAlarm,
                 alarmTimer, nextLog, fault>>

(* if (mOkToSaveFlag) Doit(), else the queue is emptied under its semaphore *)
Ok ==
  /\ At("ok")
  /\ IF okToSave
     THEN Goto("drain") /\ ret' = "end" /\ UNCHANGED queue
     ELSE Goto("test") /\ queue' = <<>> /\ UNCHANGED ret
  /\ UNCHANGED <<blocks, event, executeBoot, boot, timeLog, timeAlarm,
                 alarmTimer, nextLog, fault>>

(* Doit, the loop: the alarm log only (re)starts its timer.                 *)
DrainAlarmLog ==
  /\ At("drain") /\ queue # <<>> /\ Head(queue) = "alarmLog" /\ Goto("drain")
  /\ queue' = Tail(queue)
  /\ alarmTimer' = TRUE
  /\ UNCHANGED <<blocks, ret, event, executeBoot, boot, timeLog, timeAlarm,
                 nextLog, fault>>

DrainSubject ==
  /\ At("drain") /\ queue # <<>> /\ Head(queue) # "alarmLog" /\ Goto("drain")
  /\ queue' = Tail(queue)
  /\ SaveToCache({Head(queue)})
  /\ UNCHANGED <<subject, errors, flash, faults, ret, event, executeBoot, boot,
                 timeLog, timeAlarm, alarmTimer, nextLog, fault>>

Drained ==
  /\ At("drain") /\ queue = <<>> /\ Goto("alarmLog")
  /\ UNCHANGED <<blocks, ret, queue, event, executeBoot, boot, timeLog,
                 timeAlarm, alarmTimer, nextLog, fault>>

(* Handle delayed save of the alarm log.                                    *)
AlarmLog ==
  /\ At("alarmLog") /\ Goto("logTest")
  /\ IF ~powerDown /\ timeAlarm
     THEN timeAlarm' = FALSE /\ SaveToCache({"alarmLog"} \cap Subjects)
     ELSE UNCHANGED <<timeAlarm, cache, modified>>
  /\ UNCHANGED <<subject, errors, flash, faults, ret, queue, event, executeBoot,
                 boot, timeLog, alarmTimer, nextLog, fault>>

LogTest ==
  /\ At("logTest") /\ Goto(IF powerDown \/ timeLog THEN "log" ELSE "config")
  /\ timeLog' = (timeLog /\ pc' # "log")
  /\ UNCHANGED <<blocks, ret, queue, event, executeBoot, boot, timeAlarm,
                 alarmTimer, nextLog, fault>>

(* The call of SaveLogSeriesToFlash inside Doit.                            *)
LogSeries ==
  /\ At("series") /\ Goto("config")
  /\ nextLog' = UserLog1 /\ event' = TRUE
  /\ UNCHANGED <<blocks, ret, queue, executeBoot, boot, timeLog, timeAlarm,
                 alarmTimer, fault>>

(* A label of BlockAt: the block is written if it is modified.              *)
SaveBlock ==
  /\ pc \in DOMAIN BlockAt /\ At(pc)
  /\ IF pc \in Always \/ modified[BlockAt[pc]]
     THEN step' = "program" /\ UNCHANGED <<pc, callers>>
     ELSE Goto(After[pc])
  /\ UNCHANGED <<blocks, ret, queue, event, executeBoot, boot, timeLog,
                 timeAlarm, alarmTimer, nextLog, fault>>

(* FlashBlock::SaveToFlash.                                                 *)
InSave(s) == step = s /\ (updating = NONE \/ powerDown)

SaveToFlash ==
  /\ InSave("program")
  /\ \/ /\ SaveSucceeds(BlockAt[pc])
        /\ step' = "none" /\ pc' = After[pc]
     \/ /\ SaveFails(BlockAt[pc])
        /\ step' = "reload" /\ UNCHANGED pc
  /\ UNCHANGED <<ret, queue, event, flags, nextLog, fault, updating, owed, inTime>>

(* The subjects that change are notified, so ConfigControl queues them.     *)
Reload ==
  /\ InSave("reload")
  /\ LET b == BlockAt[pc]
         changed == {s \in SubjectsOf(b) \ Series : Reloaded(b)[s] # subject[s]}
     IN /\ subject' = Reloaded(b)
        /\ queue' = AllQueued(queue, changed)
        /\ event' = (event \/ changed # {})
  /\ step' = "recache"
  /\ UNCHANGED <<cache, modified, errors, flash, faults, pc, ret, flags,
                 nextLog, fault, updating, owed, inTime>>

Recache ==
  /\ InSave("recache")
  /\ RestoreEnds(BlockAt[pc])
  /\ step' = "none" /\ pc' = After[pc]
  /\ UNCHANGED <<ret, queue, event, flags, nextLog, fault, updating, owed, inTime>>

-----------------------------------------------------------------------------
(* Doit, the log series: only when no subject is in the queue.              *)

(* CopyLogSeriesToCache holds the locks of all the series.                  *)
User1 ==
  /\ At("user1")
  /\ IF nextLog = UserLog1 /\ queue = <<>>
     THEN Goto("saveUser1") /\ SaveToCache(Series)
     ELSE Goto("user2") /\ UNCHANGED <<cache, modified>>
  /\ UNCHANGED <<subject, errors, flash, faults, ret, queue, event, executeBoot,
                 boot, timeLog, timeAlarm, alarmTimer, nextLog, fault>>

(* Mutant: the second block is not next.                                    *)
User1Done_Stops ==
  /\ At("user1Done") /\ Goto("user2")
  /\ nextLog' = LogBlock
  /\ UNCHANGED <<blocks, ret, queue, event, executeBoot, boot, timeLog,
                 timeAlarm, alarmTimer, fault>>

User1Done ==
  /\ At("user1Done") /\ Goto("user2")
  /\ nextLog' = UserLog2
  /\ UNCHANGED <<blocks, ret, queue, event, executeBoot, boot, timeLog,
                 timeAlarm, alarmTimer, fault>>

User2 ==
  /\ At("user2")
  /\ Goto(IF nextLog = UserLog2 /\ queue = <<>> THEN "saveUser2" ELSE ret)
  /\ UNCHANGED <<blocks, ret, queue, event, executeBoot, boot, timeLog,
                 timeAlarm, alarmTimer, nextLog, fault>>

User2Done ==
  /\ At("user2Done") /\ Goto(ret)
  /\ nextLog' = LogBlock
  /\ UNCHANGED <<blocks, ret, queue, event, executeBoot, boot, timeLog,
                 timeAlarm, alarmTimer, fault>>

(* After Doit in the loop of Run.                                           *)
End ==
  /\ At("end") /\ Goto("test")
  /\ IF powerDown THEN UNCHANGED fault ELSE CheckAlarmFlags
  /\ UNCHANGED <<blocks, ret, queue, event, executeBoot, boot, timeLog,
                 timeAlarm, alarmTimer, nextLog>>

(* Mutant: no last Doit.                                                    *)
Final_NoDoit ==
  /\ At("final") /\ Goto("signal")
  /\ ret' = "signal"
  /\ UNCHANGED <<blocks, queue, event, executeBoot, boot, timeLog, timeAlarm,
                 alarmTimer, nextLog, fault>>

(* Power down detected: data that arrived during the last Doit is saved.    *)
Final ==
  /\ At("final") /\ Goto(IF queue # <<>> THEN "drain" ELSE "signal")
  /\ ret' = "signal"
  /\ UNCHANGED <<blocks, queue, event, executeBoot, boot, timeLog, timeAlarm,
                 alarmTimer, nextLog, fault>>

(* CONFIG_CTRL_POWERED_DOWN_EVENT; PowerDownTask may now stop the program.  *)
Signal ==
  /\ At("signal") /\ Goto("down")
  /\ UNCHANGED <<blocks, ret, queue, event, executeBoot, boot, timeLog,
                 timeAlarm, alarmTimer, nextLog, fault>>

-----------------------------------------------------------------------------
Doit ==
  \/ DrainAlarmLog \/ DrainSubject \/ Drained \/ AlarmLog \/ LogTest \/ LogSeries
  \/ SaveBlock \/ User1 \/ User1Done \/ User2 \/ User2Done

ConfigTask ==
  \/ Start \/ Test \/ Wait \/ Exec \/ Ok \/ End \/ Final \/ Signal
  \/ SkipErase \/ Erase
  \/ Doit
  \/ SaveToFlash \/ Reload \/ Recache

Next ==
  \/ ConfigTask
  \/ \E s \in Subjects : SetValue(s)
  \/ Update \/ SaveLogDataTimer \/ DelayAlarmLogTimer \/ SaveLogSeriesToFlash
  \/ \E f \in BootCalls : Boot(f)
  \/ PowerDown \/ PowerCycle

Spec == Init /\ [][Next]_vars

(* ConfigTask gets the processor when the others wait, and a task inside    *)
(* NotifyObservers goes on.                                                 *)
TaskSpec == Spec /\ WF_vars(ConfigTask) /\ WF_vars(Update)

(* Also, the two timers run out.  The periodic one does so always, but is   *)
(* relied on for the log block only: settings must not need it.             *)
TimerSpec ==
  /\ TaskSpec
  /\ WF_vars(modified["log"] /\ SaveLogDataTimer)
  /\ WF_vars(DelayAlarmLogTimer)

-----------------------------------------------------------------------------
Labels == {"start", "test", "wait", "exec", "ok", "drain", "alarmLog",
           "logTest", "series", "user1", "user1Done", "user2", "user2Done",
           "end", "final", "signal", "down"} \cup DOMAIN BlockAt \cup DOMAIN BootFlagAt

(* Types of all variables.                                                  *)
TypeOK ==
  /\ BlocksOK
  /\ pc \in Labels /\ step \in {"none", "program", "reload", "recache"}
  /\ ret \in {"none", "end", "signal"}
  /\ queue \in Seq(Subjects \ Series) /\ Len(queue) <= QueueSize
  /\ {event, okToSave, executeBoot, powerDown, timeLog, timeAlarm, alarmTimer,
      fault, inTime} \subseteq BOOLEAN
  /\ boot \in SUBSET {"config", "log", "gsc"}
  /\ nextLog \in NextLogs
  /\ updating \in (Subjects \ Series) \cup {NONE}
  /\ owed \in [Subjects -> Value]

(* A change is never forgotten: as long as no factory boot is asked for and *)
(* the flash does not fail, a subject whose cache is behind is in the queue *)
(* or about to be (the alarm log may wait for its timer instead), and a     *)
(* block whose flash image is behind is marked modified.                    *)
NoChangeForgotten ==
  okToSave /\ faults = 0 =>
    \A s \in Subjects \ Series :
      /\ cache[s] # subject[s] =>
           \/ updating = s
           \/ \E i \in DOMAIN queue : queue[i] = s
           \/ s = "alarmLog" /\ (alarmTimer \/ timeAlarm \/ powerDown)
      /\ cache[s] # Stored(s) => modified[BlockOf[s]]

(* Nothing waits for a signal that is not coming: when ConfigTask is about  *)
(* to block, there is nothing in the queue, no boot to execute, no alarm    *)
(* log that is due, and after the first Doit no modified settings.          *)
NoWorkWhileBlocked ==
  pc = "wait" /\ ~event =>
    /\ queue = <<>> /\ ~executeBoot /\ boot = {}
    /\ okToSave => ~timeAlarm
    /\ ret = "end" => \A s \in Settings : ~modified[BlockOf[s]]

(* Comment at :228: "If data has arrived during last run of Doit() these    *)
(* data must be saved".  The settings that were reported to ConfigControl   *)
(* before power went down are in flash when ConfigTask says it is done.     *)
(* Power that goes down before Doit has passed its test for the log block   *)
(* (:760) loses no log either.                                              *)
PowerDownKeepsData ==
  pc = "down" /\ okToSave /\ faults = 0 =>
    \A s \in Settings \cup ({"log"} \cap Subjects) :
      s \in Settings \/ inTime => Stored(s) >= owed[s]

(* The two blocks of the log series are written from one copy ("update all  *)
(* the user log caches now to keep them in sync"): outside their save, what *)
(* is in flash is what was copied.                                          *)
UserLogsInSync ==
  pc = "wait" /\ nextLog = LogBlock /\ okToSave /\ faults = 0 =>
    \A s \in Series : Stored(s) = cache[s]

(* The hardware-error alarm is on while ConfigTask waits exactly when the   *)
(* last save or load of some block failed.  (Not before the first Doit: Run *)
(* checks the flags before the two saves at start, and not after them.)     *)
AlarmShowsErrors ==
  pc = "wait" /\ okToSave /\ ret = "end" => (fault <=> \E b \in Blocks : errors[b] # {})

(* Comment at :483, "don't allow any more flashwrites before reboot": a     *)
(* block erased by a factory boot is not written again before the restart,  *)
(* unless power goes down (the Doit of :229 does not test mOkToSaveFlag).   *)
Booted == ~okToSave /\ ~executeBoot /\ boot = {}
BootKeepsErased ==
  [][\A b \in Blocks : Booted /\ flash[b] = NONE /\ ~powerDown /\ Booted'
        => flash'[b] = NONE]_vars

(* Every change of a setting, or of a log through the timers, reaches       *)
(* flash, unless a boot, a failure of the flash or power down comes first.  *)
ChangesReachFlash ==
  \A s \in Subjects \ Series :
    (subject[s] # Stored(s)) ~>
      (subject[s] = Stored(s) \/ ~okToSave \/ faults > 0 \/ powerDown)

(* ConfigTask always gets to signal that it is done.                        *)
PowerDownCompletes == powerDown ~> (pc = "down" \/ ~powerDown)

=============================================================================

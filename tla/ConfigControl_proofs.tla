------------------------ MODULE ConfigControl_proofs ------------------------
(***************************************************************************)
(* Proofs about ConfigTask, for any selection of subjects, any number of    *)
(* changes and flash failures and any size of the queue: it never sleeps on *)
(* work, a factory boot stays in force, the hardware-error alarm agrees     *)
(* with the error flags and the blocks of the log series stay in step.  As  *)
(* long as the queue is never full, no change is forgotten, and power down  *)
(* loses none that was reported before.                                     *)
(***************************************************************************)
EXTENDS ConfigControl, FiniteSetTheorems, SequenceTheorems, TLAPS

-----------------------------------------------------------------------------
(* The types, in parts.  Doit returns to where it was called from.          *)
DoitLabels == {"drain", "alarmLog", "logTest", "log", "series", "config", "gsc", "noBoot",
               "user1", "saveUser1", "user1Done", "user2", "saveUser2", "user2Done"}

ControlOK ==
  /\ pc \in Labels /\ step \in {"none", "program", "reload", "recache"}
  /\ step # "none" => pc \in DOMAIN BlockAt
  /\ ret \in {"none", "end", "signal"} /\ (pc \in DoitLabels => ret # "none")
  /\ event \in BOOLEAN /\ okToSave \in BOOLEAN /\ executeBoot \in BOOLEAN
  /\ powerDown \in BOOLEAN /\ timeLog \in BOOLEAN /\ timeAlarm \in BOOLEAN
  /\ alarmTimer \in BOOLEAN /\ fault \in BOOLEAN /\ inTime \in BOOLEAN
  /\ boot \in SUBSET {"config", "log", "gsc"}
  /\ nextLog \in NextLogs
  /\ updating \in (Subjects \ Series) \cup {NONE}

QueueOK == queue \in Seq(Subjects \ Series) /\ Len(queue) <= QueueSize

OwedOK == owed \in [Subjects -> Value]

TypeInv == BlocksOK /\ ControlOK /\ QueueOK /\ OwedOK

-----------------------------------------------------------------------------
(* The tables of labels.                                                    *)
LEMMA Tables ==
  /\ DOMAIN BlockOf = {"config", "gsc", "noBoot", "log", "alarmLog", "series1", "series5"}
  /\ DOMAIN BlockAt = {"bootConfig", "bootNoBoot", "log", "config", "gsc", "noBoot",
                       "saveUser1", "saveUser2"}
  /\ \A l \in DOMAIN BlockAt : BlockAt[l] \in Blocks /\ After[l] \in Labels
  /\ \A s \in DOMAIN BlockOf : BlockOf[s] \in Blocks
  /\ DOMAIN BootFlagAt = {"eraseConfig", "eraseLog", "eraseGsc"}
  /\ \A l \in DOMAIN BootFlagAt : AfterErase[l] \in Labels /\ AfterErase[l] \notin DOMAIN BlockAt
BY DEF BlockOf, BlockAt, After, Blocks, Labels, BootFlagAt, AfterErase

LEMMA SubjectsAreFinite == IsFiniteSet(Subjects)
<1>1. IsFiniteSet(DOMAIN BlockOf)
  <2>1. DOMAIN BlockOf = {} \cup {"config"} \cup {"gsc"} \cup {"noBoot"} \cup {"log"}
                            \cup {"alarmLog"} \cup {"series1"} \cup {"series5"}
    BY Tables
  <2>2. IsFiniteSet({} \cup {"config"} \cup {"gsc"} \cup {"noBoot"} \cup {"log"})
    BY FS_EmptySet, FS_AddElement
  <2>3. IsFiniteSet({} \cup {"config"} \cup {"gsc"} \cup {"noBoot"} \cup {"log"}
                       \cup {"alarmLog"} \cup {"series1"})
    BY <2>2, FS_AddElement
  <2> QED BY <2>1, <2>3, FS_AddElement
<1> QED BY <1>1, SubjectsAssumption, FS_Subset

LEMMA OrderOf ==
  ASSUME NEW S, IsFiniteSet(S)
  PROVE  SetToSeq(S) \in Seq(S)
<1>1. Cardinality(S) \in Nat /\ ExistsBijection(1 .. Cardinality(S), S)
  BY FS_CardinalityType
<1>2. \E f \in [1 .. Cardinality(S) -> S] : IsInjective(f)
  BY <1>1 DEF ExistsBijection, Bijection, Injection
<1>3. SetToSeq(S) \in [1 .. Cardinality(S) -> S]
  BY <1>2 DEF SetToSeq
<1> QED BY <1>1, <1>3, SeqDef

(* What the queue is after Fifo::write, once or for each subject of a set.  *)
LEMMA QueuedSeq ==
  ASSUME QueueOK, NEW s \in Subjects \ Series
  PROVE  /\ Queued(queue, s) \in Seq(Subjects \ Series)
         /\ Len(Queued(queue, s)) <= QueueSize
         /\ \A i \in DOMAIN queue : i \in DOMAIN Queued(queue, s) /\ Queued(queue, s)[i] = queue[i]
         /\ Len(queue) < QueueSize => \E i \in DOMAIN Queued(queue, s) : Queued(queue, s)[i] = s
<1>1. CASE Len(queue) < QueueSize
  <2>1. /\ Append(queue, s) \in Seq(Subjects \ Series)
        /\ Len(Append(queue, s)) = Len(queue) + 1
        /\ \A i \in 1 .. Len(queue) : Append(queue, s)[i] = queue[i]
        /\ Append(queue, s)[Len(queue) + 1] = s
    BY AppendProperties DEF QueueOK
  <2> QED BY <1>1, <2>1, LenProperties, ConfigAssumption DEF QueueOK, Queued
<1>2. CASE ~(Len(queue) < QueueSize)
  BY <1>2 DEF QueueOK, Queued
<1> QED BY <1>1, <1>2

LEMMA AllQueuedSeq ==
  ASSUME QueueOK, NEW S \in SUBSET (Subjects \ Series)
  PROVE  /\ AllQueued(queue, S) \in Seq(Subjects \ Series)
         /\ Len(AllQueued(queue, S)) <= QueueSize
         /\ AllQueued(queue, S) # <<>> => queue # <<>> \/ S # {}
<1> DEFINE all == queue \o SetToSeq(S)
<1>1. IsFiniteSet(S)
  BY SubjectsAreFinite, FS_Subset
<1>2. SetToSeq(S) \in Seq(Subjects \ Series)
  BY <1>1, OrderOf, SeqMonotonic
<1>3. all \in Seq(Subjects \ Series)
  BY <1>2, ConcatProperties DEF QueueOK
<1>4. S = {} => SetToSeq(S) = <<>>
  <2>1. SetToSeq({}) \in Seq({})
    BY OrderOf, FS_EmptySet
  <2>2. \A q \in Seq({}) : q = <<>>
    BY EmptySeq, ElementOfSeq
  <2> QED BY <2>1, <2>2
<1>5. queue = <<>> /\ S = {} => all = <<>>
  BY <1>4, ConcatEmptySeq DEF QueueOK
<1> HIDE DEF all
<1>6. AllQueued(queue, S) = IF Len(all) <= QueueSize THEN all ELSE SubSeq(all, 1, QueueSize)
  BY DEF AllQueued, all
<1>7. CASE Len(all) <= QueueSize
  BY <1>3, <1>5, <1>6, <1>7
<1>8. CASE ~(Len(all) <= QueueSize)
  <2>1. Len(all) \in Nat /\ QueueSize \in Nat /\ QueueSize < Len(all)
    BY <1>3, <1>8, LenProperties, ConfigAssumption
  <2>2. /\ SubSeq(all, 1, QueueSize) \in Seq(Subjects \ Series)
        /\ Len(SubSeq(all, 1, QueueSize)) = IF 1 <= QueueSize THEN QueueSize - 1 + 1 ELSE 0
    BY <1>3, <2>1, LenProperties, ElementOfSeq, SubSeqProperties
  <2>3. all # <<>>
    BY <2>1, EmptySeq
  <2> QED BY <1>5, <1>6, <1>8, <2>1, <2>2, <2>3
<1> QED BY <1>7, <1>8

-----------------------------------------------------------------------------
(* The types of the blocks.                                                 *)
LEMMA Images ==
  ASSUME BlocksOK, NEW b \in Blocks
  PROVE  CacheImage(b) \in [SubjectsOf(b) -> Value] /\ CacheImage(b) # NONE
<1>1. CacheImage(b) \in [SubjectsOf(b) -> Value]
  BY DEF BlocksOK, CacheImage, SubjectsOf
<1> QED BY <1>1, SubjectsAssumption

LEMMA OwnBlock ==
  ASSUME NEW s \in Subjects
  PROVE  BlockOf[s] \in Blocks /\ s \in SubjectsOf(BlockOf[s]) /\ Default \in Value
<1>1. s \in DOMAIN BlockOf
  BY SubjectsAssumption
<1>2. BlockOf[s] \in Blocks
  BY <1>1, Tables
<1>3. s \in SubjectsOf(BlockOf[s])
  BY DEF SubjectsOf
<1> QED BY <1>2, <1>3, SubjectsAssumption DEF Default, Value

LEMMA StoredType ==
  ASSUME BlocksOK, NEW s \in Subjects
  PROVE  Stored(s) \in Value
BY OwnBlock DEF BlocksOK, Stored, StoredIn

LEMMA InitBlocksOK == InitBlocks => BlocksOK
  BY SubjectsAssumption DEF InitBlocks, BlocksOK, Value, Default

LEMMA LoadBlocksOK ==
  ASSUME LoadAll, DOMAIN flash' = Blocks,
         \A b \in Blocks : flash'[b] = NONE \/ flash'[b] \in [SubjectsOf(b) -> Value]
  PROVE  BlocksOK'
<1>1. \A s \in Subjects : StoredIn(flash'[BlockOf[s]], s) \in Value
  <2> SUFFICES ASSUME NEW s \in Subjects PROVE StoredIn(flash'[BlockOf[s]], s) \in Value
    OBVIOUS
  <2> QED BY OwnBlock DEF StoredIn
<1>2. subject' \in [Subjects -> Value] /\ cache' \in [Subjects -> Value]
  BY <1>1 DEF LoadAll
<1>3. errors' \in [Blocks -> SUBSET {"load", "save"}]
  BY DEF LoadAll, LoadErrors
<1> QED BY <1>2, <1>3, SubjectsAssumption DEF LoadAll, BlocksOK

LEMMA CacheBlocksOK ==
  ASSUME BlocksOK, NEW S, SaveToCache(S), UNCHANGED <<subject, errors, flash, faults>>
  PROVE  BlocksOK'
  BY DEF BlocksOK, SaveToCache

LEMMA NextBlocksOK == BlocksOK /\ ControlOK /\ [Next]_vars => BlocksOK'
<1> SUFFICES ASSUME BlocksOK, ControlOK, [Next]_vars PROVE BlocksOK'
  OBVIOUS
<1>1. CASE UNCHANGED blocks
  BY <1>1 DEF blocks, BlocksOK
<1>2. ASSUME NEW s \in Subjects, SetValue(s) PROVE BlocksOK'
  <2>1. subject' \in [Subjects -> Value]
    BY <1>2, SubjectsAssumption DEF SetValue, BlocksOK, Value
  <2> QED BY <1>2, <2>1 DEF SetValue, BlocksOK
<1>3. CASE DrainSubject
  BY <1>3, CacheBlocksOK DEF DrainSubject
<1>4. CASE AlarmLog
  <2>1. CASE ~powerDown /\ timeAlarm
    BY <1>4, <2>1, CacheBlocksOK DEF AlarmLog
  <2>2. CASE ~(~powerDown /\ timeAlarm)
    BY <1>4, <2>2 DEF AlarmLog, BlocksOK
  <2> QED BY <2>1, <2>2
<1>5. CASE User1
  <2>1. CASE nextLog = UserLog1 /\ queue = <<>>
    BY <1>5, <2>1, CacheBlocksOK DEF User1
  <2>2. CASE ~(nextLog = UserLog1 /\ queue = <<>>)
    BY <1>5, <2>2 DEF User1, BlocksOK
  <2> QED BY <2>1, <2>2
<1>6. CASE SaveToFlash
  <2> DEFINE b == BlockAt[pc]
  <2>1. b \in Blocks
    BY <1>6, Tables DEF SaveToFlash, InSave, ControlOK
  <2>2. CacheImage(b) \in [SubjectsOf(b) -> Value]
    BY <2>1, Images
  <2> HIDE DEF b
  <2>3. CASE SaveSucceeds(b)
    BY <2>1, <2>2, <2>3 DEF SaveSucceeds, BlocksOK
  <2>4. CASE SaveFails(b)
    <3>1. faults' \in 0 .. MaxFaults
      BY <2>4, SubjectsAssumption DEF SaveFails, BlocksOK
    <3> QED BY <2>1, <2>2, <2>4, <3>1 DEF SaveFails, BlocksOK
  <2> QED BY <1>6, <2>3, <2>4 DEF SaveToFlash, b
<1>7. CASE Reload
  <2>1. BlockAt[pc] \in Blocks
    BY <1>7, Tables DEF Reload, InSave, ControlOK
  <2>2. Reloaded(BlockAt[pc]) \in [Subjects -> Value]
    BY <2>1 DEF Reloaded, BlocksOK
  <2> QED BY <1>7, <2>2 DEF Reload, BlocksOK
<1>8. CASE Recache
  BY <1>8 DEF Recache, RestoreEnds, LoadErrors, BlocksOK
<1>9. CASE Erase
  <2>1. PICK erased : /\ erased \in {flash, [b \in Blocks |->
                           IF b \in BootBlocks(BootFlagAt[pc]) THEN NONE ELSE flash[b]]}
                      /\ flash' = erased
    BY <1>9 DEF Erase
  <2>2. faults' \in 0 .. MaxFaults
    BY <1>9, SubjectsAssumption DEF Erase, BlocksOK
  <2> QED BY <1>9, <2>1, <2>2 DEF Erase, BlocksOK
<1>10. CASE PowerCycle
  <2>1. CASE UNCHANGED flash
    BY <1>10, <2>1, LoadBlocksOK DEF PowerCycle, BlocksOK
  <2>2. CASE /\ step = "program"
             /\ flash' = [flash EXCEPT ![BlockAt[pc]] = CacheImage(BlockAt[pc])]
    <3>1. BlockAt[pc] \in Blocks
      BY <2>2, Tables DEF ControlOK
    <3>2. CacheImage(BlockAt[pc]) \in [SubjectsOf(BlockAt[pc]) -> Value]
      BY <3>1, Images
    <3>3. DOMAIN flash' = Blocks
          /\ \A b \in Blocks : flash'[b] = NONE \/ flash'[b] \in [SubjectsOf(b) -> Value]
      BY <2>2, <3>1, <3>2 DEF BlocksOK
    <3> QED BY <1>10, <3>3, LoadBlocksOK DEF PowerCycle
  <2> QED BY <1>10, <2>1, <2>2 DEF PowerCycle
<1>11. CASE \/ Start \/ Test \/ Wait \/ Exec \/ Ok \/ End \/ Final \/ Signal \/ SkipErase
            \/ DrainAlarmLog \/ Drained \/ LogTest \/ LogSeries \/ SaveBlock
            \/ User1Done \/ User2 \/ User2Done
  BY <1>1, <1>11 DEF Start, Test, Wait, Exec, Ok, End, Final, Signal, SkipErase,
     DrainAlarmLog, Drained, LogTest, LogSeries, SaveBlock, User1Done, User2, User2Done
<1>12. CASE Update \/ SaveLogDataTimer \/ DelayAlarmLogTimer \/ SaveLogSeriesToFlash \/ PowerDown
  BY <1>1, <1>12 DEF Update, SaveLogDataTimer, DelayAlarmLogTimer, SaveLogSeriesToFlash, PowerDown
<1>13. ASSUME NEW f \in BootCalls, Boot(f) PROVE BlocksOK'
  BY <1>1, <1>13 DEF Boot
<1>14. CASE UNCHANGED vars
  BY <1>1, <1>14 DEF vars
<1> QED
  BY <1>2, <1>3, <1>4, <1>5, <1>6, <1>7, <1>8, <1>9, <1>10, <1>11, <1>12, <1>13, <1>14
     DEF Next, ConfigTask, Doit

-----------------------------------------------------------------------------
(* The types of the rest.                                                   *)
LEMMA NextControlOK == BlocksOK /\ ControlOK /\ [Next]_vars => ControlOK'
<1> SUFFICES ASSUME BlocksOK, ControlOK, [Next]_vars PROVE ControlOK'
  OBVIOUS
<1> USE DEF ControlOK
<1>0. /\ NextLogs = {LogBlock, UserLog1, UserLog2}
      /\ DOMAIN BlockAt = {"bootConfig", "bootNoBoot", "log", "config", "gsc", "noBoot",
                           "saveUser1", "saveUser2"}
      /\ "bootConfig" \notin DoitLabels /\ "bootNoBoot" \notin DoitLabels
      /\ {"bootConfig", "final", "wait", "exec", "eraseConfig", "ok", "drain", "test"} \subseteq Labels
      /\ {"alarmLog", "logTest", "log", "config", "user2", "saveUser1", "saveUser2"} \subseteq Labels
      /\ {"end", "signal", "down"} \subseteq Labels
      /\ {"final", "wait", "exec", "eraseConfig", "ok", "test", "end", "signal", "down"}
           \cap DoitLabels = {}
  BY Tables DEF Labels, NextLogs, DoitLabels
<1>1. ASSUME pc \in {"drain", "alarmLog", "logTest", "series", "user1", "user1Done", "user2",
                     "user2Done"}
      PROVE  ret \in {"end", "signal"}
  BY <1>1 DEF DoitLabels
<1>2. CASE Start \/ Test \/ Wait \/ Exec \/ Ok
  <2>1. CASE Start
    <3>1. pc' \in {"bootConfig"}
      BY <2>1 DEF Start, Goto
    <3> QED BY <2>1, <1>0, <3>1 DEF Start, At, Goto, callers, CheckAlarmFlags
  <2>2. CASE Test
    <3>1. pc' \in {"final", "wait"}
      BY <2>2 DEF Test, Goto
    <3> QED BY <2>2, <1>0, <3>1 DEF Test, At, Goto, callers
  <2>3. CASE Wait
    <3>1. pc' \in {"exec"}
      BY <2>3 DEF Wait, Goto
    <3> QED BY <2>3, <1>0, <3>1 DEF Wait, At, Goto, callers
  <2>4. CASE Exec
    <3>1. pc' \in {"eraseConfig", "ok"}
      BY <2>4 DEF Exec, Goto
    <3> QED BY <2>4, <1>0, <3>1 DEF Exec, At, Goto, callers
  <2>5. CASE Ok
    <3>1. pc' \in {"drain", "test"}
      BY <2>5 DEF Ok, Goto
    <3> QED BY <2>5, <1>0, <3>1 DEF Ok, At, Goto, callers
  <2> QED BY <1>2, <2>1, <2>2, <2>3, <2>4, <2>5
<1>3. CASE DrainAlarmLog \/ DrainSubject \/ Drained \/ AlarmLog \/ LogTest \/ LogSeries
  <2>1. CASE DrainAlarmLog
    <3>1. pc' \in {"drain"}
      BY <2>1 DEF DrainAlarmLog, Goto
    <3> QED BY <2>1, <1>0, <1>1, <3>1 DEF DrainAlarmLog, At, Goto, callers
  <2>2. CASE DrainSubject
    <3>1. pc' \in {"drain"}
      BY <2>2 DEF DrainSubject, Goto
    <3> QED BY <2>2, <1>0, <1>1, <3>1 DEF DrainSubject, At, Goto, callers
  <2>3. CASE Drained
    <3>1. pc' \in {"alarmLog"}
      BY <2>3 DEF Drained, Goto
    <3> QED BY <2>3, <1>0, <1>1, <3>1 DEF Drained, At, Goto, callers
  <2>4. CASE AlarmLog
    <3>1. pc' \in {"logTest"}
      BY <2>4 DEF AlarmLog, Goto
    <3> QED BY <2>4, <1>0, <1>1, <3>1 DEF AlarmLog, At, Goto, callers
  <2>5. CASE LogTest
    <3>1. pc' \in {"log", "config"}
      BY <2>5 DEF LogTest, Goto
    <3> QED BY <2>5, <1>0, <1>1, <3>1 DEF LogTest, At, Goto, callers
  <2>6. CASE LogSeries
    <3>1. pc' \in {"config"}
      BY <2>6 DEF LogSeries, Goto
    <3> QED BY <2>6, <1>0, <1>1, <3>1 DEF LogSeries, At, Goto, callers
  <2> QED BY <1>3, <2>1, <2>2, <2>3, <2>4, <2>5, <2>6
<1>4. CASE User1 \/ User1Done \/ User2 \/ User2Done
  <2>1. CASE User1
    <3>1. pc' \in {"saveUser1", "user2"}
      BY <2>1 DEF User1, Goto
    <3> QED BY <2>1, <1>0, <1>1, <3>1 DEF User1, At, Goto, callers
  <2>2. CASE User1Done
    <3>1. pc' \in {"user2"}
      BY <2>2 DEF User1Done, Goto
    <3> QED BY <2>2, <1>0, <1>1, <3>1 DEF User1Done, At, Goto, callers
  <2>3. CASE User2
    <3>1. pc' \in {"saveUser2", ret}
      BY <2>3 DEF User2, Goto
    <3> QED BY <2>3, <1>0, <1>1, <3>1 DEF User2, At, Goto, callers
  <2>4. CASE User2Done
    <3>1. pc' \in {ret}
      BY <2>4 DEF User2Done, Goto
    <3> QED BY <2>4, <1>0, <1>1, <3>1 DEF User2Done, At, Goto, callers
  <2> QED BY <1>4, <2>1, <2>2, <2>3, <2>4
<1>5. CASE End \/ Final \/ Signal
  <2>1. CASE End
    <3>1. pc' \in {"test"}
      BY <2>1 DEF End, Goto
    <3> QED BY <2>1, <1>0, <3>1 DEF End, At, Goto, callers, CheckAlarmFlags
  <2>2. CASE Final
    <3>1. pc' \in {"drain", "signal"}
      BY <2>2 DEF Final, Goto
    <3> QED BY <2>2, <1>0, <3>1 DEF Final, At, Goto, callers
  <2>3. CASE Signal
    <3>1. pc' \in {"down"}
      BY <2>3 DEF Signal, Goto
    <3> QED BY <2>3, <1>0, <3>1 DEF Signal, At, Goto, callers
  <2> QED BY <1>5, <2>1, <2>2, <2>3
<1>6. CASE SkipErase
  <2>1. pc' = AfterErase[pc] /\ pc' \in Labels \ DOMAIN BlockAt /\ pc' \notin DoitLabels
    BY <1>6, Tables DEF SkipErase, Goto, AfterErase, DoitLabels
  <2> QED BY <1>6, <2>1 DEF SkipErase, At, Goto, callers
<1>7. CASE Erase
  <2>1. pc' = AfterErase[pc] /\ pc' \in Labels \ DOMAIN BlockAt /\ pc' \notin DoitLabels
    BY <1>7, Tables DEF Erase, Goto, AfterErase, DoitLabels
  <2> QED BY <1>7, <2>1 DEF Erase, At, Goto, callers
<1>8. ASSUME pc \in DOMAIN BlockAt
      PROVE  After[pc] \in Labels /\ (After[pc] \in DoitLabels => pc \in DoitLabels)
  BY <1>8, Tables DEF After, DoitLabels
<1>9. CASE SaveBlock
  BY <1>8, <1>9 DEF SaveBlock, At, Goto, callers
<1>10. CASE SaveToFlash \/ Reload \/ Recache
  <2>1. CASE SaveToFlash
    BY <1>8, <2>1 DEF SaveToFlash, InSave, flags
  <2>2. CASE Reload
    BY <2>2 DEF Reload, InSave, flags
  <2>3. CASE Recache
    BY <1>8, <2>3 DEF Recache, InSave, flags
  <2> QED BY <1>10, <2>1, <2>2, <2>3
<1>11. ASSUME NEW s \in Subjects, SetValue(s) PROVE ControlOK'
  BY <1>11 DEF SetValue, flags
<1>12. CASE Update \/ SaveLogDataTimer \/ DelayAlarmLogTimer \/ SaveLogSeriesToFlash
  <2>1. CASE Update
    <3>1. updating' = NONE /\ event' = TRUE
      BY <2>1 DEF Update
    <3>2. UNCHANGED <<pc, step, ret, flags, nextLog, fault, inTime>>
      BY <2>1 DEF Update
    <3> QED BY <3>1, <3>2 DEF flags
  <2>2. CASE SaveLogDataTimer \/ DelayAlarmLogTimer
    <3>1. CASE SaveLogDataTimer
      BY <3>1 DEF SaveLogDataTimer
    <3>2. CASE DelayAlarmLogTimer
      BY <3>2 DEF DelayAlarmLogTimer
    <3> QED BY <2>2, <3>1, <3>2
  <2>3. CASE SaveLogSeriesToFlash
    BY <2>3, <1>0 DEF SaveLogSeriesToFlash, flags
  <2> QED BY <1>12, <2>1, <2>2, <2>3
<1>13. ASSUME NEW f \in BootCalls, Boot(f) PROVE ControlOK'
  <2>1. f \subseteq {"config", "log", "gsc"}
    BY ConfigAssumption
  <2> QED BY <1>13, <2>1 DEF Boot
<1>14. CASE PowerDown
  BY <1>14 DEF PowerDown
<1>15. CASE PowerCycle
  BY <1>15, <1>0 DEF PowerCycle, Labels, DoitLabels
<1>16. CASE UNCHANGED vars
  BY <1>16 DEF vars, flags
<1> QED
  BY <1>2, <1>3, <1>4, <1>5, <1>6, <1>7, <1>9, <1>10, <1>11, <1>12, <1>13, <1>14, <1>15, <1>16
     DEF Next, ConfigTask, Doit

(* The queue: what each step does to it.                                    *)
LEMMA NextQueue ==
  ASSUME TypeInv, [Next]_vars
  PROVE  /\ QueueOK'
         /\ \/ queue' = queue
            \/ queue' = <<>>
            \/ pc = "drain" /\ pc' = "drain" /\ queue # <<>> /\ queue' = Tail(queue)
            \/ event'
<1> USE DEF TypeInv
<1>1. CASE UNCHANGED queue
  BY <1>1 DEF QueueOK
<1>2. CASE Update
  <2>1. updating \in Subjects \ Series
    BY <1>2 DEF Update, ControlOK
  <2> QED BY <1>2, <2>1, QueuedSeq DEF Update, QueueOK
<1>3. CASE Ok \/ PowerCycle
  <2>1. queue' = queue \/ queue' = <<>>
    BY <1>3 DEF Ok, PowerCycle
  <2>2. <<>> \in Seq(Subjects \ Series) /\ Len(<<>>) <= QueueSize
    BY EmptySeq, ConfigAssumption
  <2> QED BY <1>1, <2>1, <2>2 DEF QueueOK
<1>4. CASE DrainAlarmLog \/ DrainSubject
  <2>1. queue # <<>> /\ queue' = Tail(queue) /\ pc = "drain" /\ pc' = "drain"
    BY <1>4 DEF DrainAlarmLog, DrainSubject, At, Goto
  <2>2. Tail(queue) \in Seq(Subjects \ Series) /\ Len(Tail(queue)) = Len(queue) - 1
    BY <2>1, HeadTailProperties DEF QueueOK
  <2>3. Len(queue) \in Nat /\ QueueSize \in Nat /\ Len(queue) <= QueueSize
    BY LenProperties, ConfigAssumption DEF QueueOK
  <2>4. QueueOK'
    BY <2>1, <2>2, <2>3 DEF QueueOK
  <2> QED BY <2>1, <2>4
<1>5. CASE Reload
  <2> DEFINE b == BlockAt[pc]
             changed == {s \in SubjectsOf(b) \ Series : Reloaded(b)[s] # subject[s]}
  <2>1. queue' = AllQueued(queue, changed) /\ event' = (event \/ changed # {})
    BY <1>5 DEF Reload
  <2>2. changed \in SUBSET (Subjects \ Series)
    BY DEF SubjectsOf
  <2> HIDE DEF changed
  <2>3. changed = {} => AllQueued(queue, changed) = queue
    <3>1. ASSUME changed = {} PROVE AllQueued(queue, {}) = queue
      <4>1. SetToSeq({}) = <<>>
        <5>1. SetToSeq({}) \in Seq({})
          BY OrderOf, FS_EmptySet
        <5> QED BY <5>1, EmptySeq, ElementOfSeq
      <4>2. queue \o <<>> = queue
        BY ConcatEmptySeq DEF QueueOK
      <4> QED BY <4>1, <4>2 DEF AllQueued, QueueOK
    <3> QED BY <3>1
  <2>4. QueueOK'
    BY <2>1, <2>2, AllQueuedSeq DEF QueueOK
  <2> QED BY <2>1, <2>3, <2>4
<1>6. CASE \/ Start \/ Test \/ Wait \/ Exec \/ End \/ Final \/ Signal \/ SkipErase \/ Erase
           \/ Drained \/ AlarmLog \/ LogTest \/ LogSeries \/ SaveBlock \/ User1 \/ User1Done
           \/ User2 \/ User2Done \/ SaveToFlash \/ Recache
  BY <1>1, <1>6 DEF Start, Test, Wait, Exec, End, Final, Signal, SkipErase, Erase, Drained,
     AlarmLog, LogTest, LogSeries, SaveBlock, User1, User1Done, User2, User2Done,
     SaveToFlash, Recache
<1>7. CASE \/ \E s \in Subjects : SetValue(s)
           \/ SaveLogDataTimer \/ DelayAlarmLogTimer \/ SaveLogSeriesToFlash
           \/ \E f \in BootCalls : Boot(f)
           \/ PowerDown
  BY <1>1, <1>7 DEF SetValue, SaveLogDataTimer, DelayAlarmLogTimer, SaveLogSeriesToFlash,
     Boot, PowerDown
<1>8. CASE UNCHANGED vars
  BY <1>1, <1>8 DEF vars
<1> QED
  BY <1>2, <1>3, <1>4, <1>5, <1>6, <1>7, <1>8 DEF Next, ConfigTask, Doit

LEMMA NextOwedOK == BlocksOK /\ OwedOK /\ [Next]_vars => OwedOK'
<1> SUFFICES ASSUME BlocksOK, OwedOK, [Next]_vars PROVE OwedOK'
  OBVIOUS
<1>1. CASE PowerDown
  BY <1>1 DEF PowerDown, OwedOK, BlocksOK
<1>2. CASE PowerCycle
  BY <1>2, SubjectsAssumption DEF PowerCycle, OwedOK, Value, Default
<1>3. CASE UNCHANGED owed
  BY <1>3 DEF OwedOK
<1> QED
  BY <1>1, <1>2, <1>3 DEF Next, vars, ConfigTask, Doit, Goto, callers, Start, Test, Wait, Exec,
     Ok, End, Final, Signal, SkipErase, Erase, DrainAlarmLog, DrainSubject, Drained, AlarmLog,
     LogTest, LogSeries, SaveBlock, User1, User1Done, User2, User2Done, SaveToFlash, Reload,
     Recache, SetValue, Update, SaveLogDataTimer, DelayAlarmLogTimer, SaveLogSeriesToFlash, Boot

LEMMA InitTypeInv == Init => TypeInv
<1> SUFFICES ASSUME Init PROVE TypeInv
  OBVIOUS
<1>1. BlocksOK
  BY InitBlocksOK DEF Init
<1>2. ControlOK
  BY DEF Init, ControlOK, Labels, DoitLabels
<1>3. QueueOK
  BY EmptySeq, ConfigAssumption DEF Init, QueueOK
<1>4. OwedOK
  BY SubjectsAssumption DEF Init, OwedOK, Value, Default
<1> QED BY <1>1, <1>2, <1>3, <1>4 DEF TypeInv

LEMMA NextTypeInv == TypeInv /\ [Next]_vars => TypeInv'
  BY NextBlocksOK, NextControlOK, NextQueue, NextOwedOK DEF TypeInv

(* All variables keep their types, and the queue its size (ConfigControl).  *)
THEOREM TypeCorrect == Spec => []TypeOK
<1>1. TypeInv => TypeOK
  BY DEF TypeInv, ControlOK, QueueOK, OwedOK, TypeOK
<1> QED BY <1>1, InitTypeInv, NextTypeInv, PTL DEF Spec

-----------------------------------------------------------------------------
(* ConfigTask never sleeps on work.  The inductive invariant: for whatever  *)
(* there is to do, the event is set or ConfigTask has yet to come to the    *)
(* place in this pass that does it.                                         *)
Erasing == {"eraseConfig", "eraseLog", "eraseGsc"}

QueueInv == queue # <<>> => event \/ pc \in Erasing \cup {"exec", "ok", "drain"}

BootInv ==
  /\ executeBoot => event \/ pc = "exec"
  /\ boot # {} =>
       \/ executeBoot
       \/ pc = "eraseConfig"
       \/ pc = "eraseLog" /\ boot \subseteq {"log", "gsc"}
       \/ pc = "eraseGsc" /\ boot \subseteq {"gsc"}

AlarmInv ==
  /\ powerDown /\ pc = "wait" => event
  /\ timeAlarm /\ okToSave =>
       event \/ powerDown \/ pc \in Erasing \cup {"exec", "ok", "drain", "alarmLog"}

(* Where a pass of Doit has yet to save the block of a setting.             *)
Unsaved == [config |-> {"drain", "alarmLog", "logTest", "log", "series", "config"},
            gsc    |-> {"drain", "alarmLog", "logTest", "log", "series", "config", "gsc"},
            noBoot |-> {"drain", "alarmLog", "logTest", "log", "series", "config", "gsc", "noBoot"}]

SavedInv ==
  ret = "end" => \A b \in {"config", "gsc", "noBoot"} : modified[b] => pc \in Unsaved[b]

LEMMA InitWork == Init => QueueInv /\ BootInv /\ AlarmInv /\ SavedInv
  BY DEF Init, QueueInv, BootInv, AlarmInv, SavedInv

LEMMA NextQueueInv == TypeInv /\ QueueInv /\ [Next]_vars => QueueInv'
<1> SUFFICES ASSUME TypeInv, QueueInv, [Next]_vars PROVE QueueInv'
  OBVIOUS
<1>0. \/ queue' = queue
      \/ queue' = <<>>
      \/ pc' = "drain"
      \/ event'
  BY NextQueue
<1> SUFFICES ASSUME queue # <<>>, queue' = queue, ~event', pc' # "drain" PROVE QueueInv'
  BY <1>0 DEF QueueInv
<1> USE DEF QueueInv, Erasing
<1>1. CASE event
  <2>1. CASE Wait
    BY <2>1 DEF Wait, Goto
  <2>2. CASE PowerCycle
    BY <2>2 DEF PowerCycle
  <2>3. CASE ~Wait /\ ~PowerCycle
    BY <1>1, <2>3 DEF Next, vars, ConfigTask, Doit, Start, Test, Exec, Ok, End, Final, Signal,
       SkipErase, Erase, DrainAlarmLog, DrainSubject, Drained, AlarmLog, LogTest, LogSeries,
       SaveBlock, User1, User1Done, User2, User2Done, SaveToFlash, Reload, Recache, SetValue,
       Update, SaveLogDataTimer, DelayAlarmLogTimer, SaveLogSeriesToFlash, Boot, PowerDown
  <2> QED BY <2>1, <2>2, <2>3
<1>2. CASE ~event /\ pc' = pc
  BY <1>2
<1>3. CASE ~event /\ pc' # pc
  <2>1. pc \in Erasing \cup {"exec", "ok", "drain"} /\ pc \notin DOMAIN BlockAt
    BY <1>3, Tables
  <2>2. CASE SkipErase \/ Erase
    BY <2>2, Tables DEF SkipErase, Erase, Goto, AfterErase
  <2>3. CASE Exec
    BY <2>3 DEF Exec, Goto
  <2>4. CASE Ok
    BY <2>4 DEF Ok, Goto
  <2>5. CASE SaveBlock \/ SaveToFlash \/ Recache
    BY <2>1, <2>5 DEF SaveBlock, SaveToFlash, Recache, InSave, TypeInv, ControlOK
  <2>6. CASE DrainAlarmLog \/ DrainSubject \/ Drained
    BY <2>6 DEF DrainAlarmLog, DrainSubject, Drained, Goto
  <2>7. CASE \/ Start \/ Test \/ Wait \/ End \/ Final \/ Signal \/ AlarmLog \/ LogTest \/ LogSeries
             \/ User1 \/ User1Done \/ User2 \/ User2Done
    BY <2>1, <2>7 DEF Start, Test, Wait, End, Final, Signal, AlarmLog, LogTest, LogSeries, User1,
       User1Done, User2, User2Done, At
  <2>8. CASE PowerCycle
    BY <2>8 DEF PowerCycle
  <2> QED
    BY <1>3, <2>2, <2>3, <2>4, <2>5, <2>6, <2>7, <2>8 DEF Next, vars, ConfigTask, Doit, Reload,
       SetValue, Update, SaveLogDataTimer, DelayAlarmLogTimer, SaveLogSeriesToFlash, Boot, PowerDown
<1> QED BY <1>1, <1>2, <1>3

LEMMA NextBootInv == TypeInv /\ BootInv /\ [Next]_vars => BootInv'
<1> SUFFICES ASSUME TypeInv, BootInv, [Next]_vars PROVE BootInv'
  OBVIOUS
<1> USE DEF BootInv
<1>1. ASSUME NEW f \in BootCalls, Boot(f) PROVE BootInv'
  BY <1>1 DEF Boot
<1>2. CASE PowerCycle
  BY <1>2 DEF PowerCycle
<1>3. CASE Wait
  BY <1>3 DEF Wait, At, Goto
<1>4. CASE Exec
  BY <1>4 DEF Exec, At, Goto
<1>5. CASE SkipErase \/ Erase
  <2>1. /\ pc \in DOMAIN BootFlagAt
        /\ pc' = AfterErase[pc] /\ boot' = boot \ {BootFlagAt[pc]}
        /\ UNCHANGED <<executeBoot, event>>
    BY <1>5 DEF SkipErase, Erase, Goto
  <2>2. boot \subseteq {"config", "log", "gsc"} /\ (executeBoot => event)
    BY <2>1, Tables DEF TypeInv, ControlOK
  <2>3. CASE pc = "eraseConfig"
    <3>1. pc' = "eraseLog" /\ boot' = boot \ {"config"}
      BY <2>1, <2>3 DEF BootFlagAt, AfterErase
    <3> QED BY <2>1, <2>2, <3>1
  <2>4. CASE pc = "eraseLog"
    <3>1. pc' = "eraseGsc" /\ boot' = boot \ {"log"}
      BY <2>1, <2>4 DEF BootFlagAt, AfterErase
    <3> QED BY <2>1, <2>2, <2>4, <3>1
  <2>5. CASE pc = "eraseGsc"
    <3>1. pc' = "ok" /\ boot' = boot \ {"gsc"}
      BY <2>1, <2>5 DEF BootFlagAt, AfterErase
    <3> QED BY <2>1, <2>2, <2>5, <3>1
  <2> QED BY <2>1, <2>3, <2>4, <2>5, Tables
<1>7. CASE \/ Start \/ Test \/ Ok \/ End \/ Final \/ Signal \/ DrainAlarmLog \/ DrainSubject
           \/ Drained \/ AlarmLog \/ LogTest \/ LogSeries \/ User1 \/ User1Done \/ User2 \/ User2Done
  BY <1>7 DEF Start, Test, Ok, End, Final, Signal, DrainAlarmLog, DrainSubject, Drained, AlarmLog,
     LogTest, LogSeries, User1, User1Done, User2, User2Done, At
<1>8. CASE SaveBlock \/ SaveToFlash \/ Reload \/ Recache
  BY <1>8, Tables DEF SaveBlock, SaveToFlash, Reload, Recache, InSave, flags, TypeInv, ControlOK
<1>9. CASE \/ \E s \in Subjects : SetValue(s)
           \/ Update \/ SaveLogDataTimer \/ DelayAlarmLogTimer \/ SaveLogSeriesToFlash \/ PowerDown
           \/ UNCHANGED vars
  BY <1>9 DEF SetValue, Update, SaveLogDataTimer, DelayAlarmLogTimer, SaveLogSeriesToFlash,
     PowerDown, flags, vars
<1> QED
  BY <1>1, <1>2, <1>3, <1>4, <1>5, <1>7, <1>8, <1>9 DEF Next, ConfigTask, Doit

LEMMA NextAlarmInv == TypeInv /\ AlarmInv /\ [Next]_vars => AlarmInv'
<1> SUFFICES ASSUME TypeInv, AlarmInv, [Next]_vars PROVE AlarmInv'
  OBVIOUS
<1> USE DEF AlarmInv, Erasing
<1>1. ASSUME NEW f \in BootCalls, Boot(f) PROVE AlarmInv'
  BY <1>1 DEF Boot
<1>2. CASE PowerCycle
  BY <1>2 DEF PowerCycle
<1>3. CASE Wait \/ Exec \/ Ok
  BY <1>3 DEF Wait, Exec, Ok, At, Goto, callers
<1>4. CASE SkipErase \/ Erase
  BY <1>4, Tables DEF SkipErase, Erase, At, Goto, callers, AfterErase
<1>5. CASE Start \/ Test \/ End \/ Final \/ Signal
  BY <1>5 DEF Start, Test, End, Final, Signal, At, Goto, callers
<1>6. CASE DrainAlarmLog \/ DrainSubject \/ Drained \/ AlarmLog \/ LogTest \/ LogSeries
  BY <1>6 DEF DrainAlarmLog, DrainSubject, Drained, AlarmLog, LogTest, LogSeries, At, Goto, callers
<1>7. CASE User1 \/ User1Done \/ User2 \/ User2Done
  BY <1>7 DEF User1, User1Done, User2, User2Done, At, Goto, callers, TypeInv, ControlOK, DoitLabels
<1>8. CASE SaveBlock \/ SaveToFlash \/ Recache
  <2>1. pc \in DOMAIN BlockAt /\ UNCHANGED <<powerDown, event, timeAlarm, okToSave>>
        /\ pc' \in {pc, After[pc]}
    BY <1>8 DEF SaveBlock, SaveToFlash, Recache, InSave, Goto, callers, flags, TypeInv, ControlOK
  <2>2. After[pc] # "wait" /\ pc \notin {"wait", "exec", "ok", "drain", "alarmLog"} \cup Erasing
    BY <2>1, Tables DEF After
  <2> QED BY <2>1, <2>2
<1>9. CASE Reload
  BY <1>9 DEF Reload, flags, TypeInv, ControlOK
<1>10. CASE SaveLogDataTimer \/ DelayAlarmLogTimer \/ SaveLogSeriesToFlash \/ PowerDown
  BY <1>10 DEF SaveLogDataTimer, DelayAlarmLogTimer, SaveLogSeriesToFlash, PowerDown
<1>11. CASE Update \/ (\E s \in Subjects : SetValue(s)) \/ UNCHANGED vars
  BY <1>11 DEF SetValue, Update, flags, vars
<1> QED
  BY <1>1, <1>2, <1>3, <1>4, <1>5, <1>6, <1>7, <1>8, <1>9, <1>10, <1>11 DEF Next, ConfigTask, Doit

LEMMA NextSavedInv == TypeInv /\ SavedInv /\ [Next]_vars => SavedInv'
<1> SUFFICES ASSUME TypeInv, SavedInv, [Next]_vars PROVE SavedInv'
  OBVIOUS
<1> USE DEF SavedInv
<1>0. /\ DOMAIN BlockAt = {"bootConfig", "bootNoBoot", "log", "config", "gsc", "noBoot",
                           "saveUser1", "saveUser2"}
      /\ {"config", "gsc", "noBoot"} \subseteq Blocks
      /\ \A b \in {"config", "gsc", "noBoot"} : "drain" \in Unsaved[b]
  BY Tables DEF Unsaved, Blocks
<1>1. CASE Ok
  <2>1. CASE okToSave
    BY <1>0, <1>1, <2>1 DEF Ok, Goto
  <2>2. CASE ~okToSave
    <3>1. pc = "ok" /\ UNCHANGED <<modified, ret>>
      BY <1>1, <2>2 DEF Ok, At, blocks
    <3> QED BY <3>1 DEF Unsaved
  <2> QED BY <2>1, <2>2
<1>2. CASE Final \/ PowerCycle
  BY <1>2 DEF Final, PowerCycle
<1>3. CASE DrainAlarmLog \/ DrainSubject
  BY <1>0, <1>3 DEF DrainAlarmLog, DrainSubject, Goto
<1>4. CASE Drained
  <2>1. pc' = "alarmLog" /\ UNCHANGED <<modified, ret>>
    BY <1>4 DEF Drained, Goto, blocks
  <2> QED BY <2>1 DEF Unsaved
<1>5. CASE AlarmLog
  <2>1. pc' = "logTest" /\ UNCHANGED ret
    BY <1>5 DEF AlarmLog, Goto
  <2>2. ASSUME NEW b \in {"config", "gsc", "noBoot"} PROVE modified'[b] = modified[b]
    <3>1. SubjectsOf(b) \cap {"alarmLog"} = {}
      BY DEF SubjectsOf, BlockOf
    <3> QED BY <1>0, <1>5, <3>1 DEF AlarmLog, SaveToCache, TypeInv, BlocksOK
  <2>3. pc = "alarmLog"
    BY <1>5 DEF AlarmLog, At
  <2> QED BY <2>1, <2>2, <2>3 DEF Unsaved
<1>6. CASE LogTest \/ LogSeries
  <2>1. pc \in {"logTest", "series"} /\ pc' \in {"log", "config"} /\ UNCHANGED <<modified, ret>>
    BY <1>6 DEF LogTest, LogSeries, At, Goto, blocks
  <2> QED BY <2>1 DEF Unsaved
<1>7. CASE User1
  <2>1. ASSUME NEW b \in {"config", "gsc", "noBoot"} PROVE modified'[b] = modified[b]
    <3>1. SubjectsOf(b) \cap Series = {}
      BY DEF SubjectsOf, BlockOf, Series
    <3> QED BY <1>0, <1>7, <3>1 DEF User1, SaveToCache, TypeInv, BlocksOK
  <2>2. pc = "user1" /\ UNCHANGED ret
    BY <1>7 DEF User1, At
  <2> QED BY <2>1, <2>2 DEF Unsaved
<1>8. CASE \/ Start \/ Test \/ Wait \/ Exec \/ End \/ Signal
           \/ User1Done \/ User2 \/ User2Done
  <2>1. /\ pc \in {"start", "test", "wait", "exec", "end", "signal", "user1Done", "user2", "user2Done"}
        /\ UNCHANGED <<modified, ret>>
    BY <1>8 DEF Start, Test, Wait, Exec, End, Signal, User1Done, User2, User2Done, At, blocks
  <2> QED BY <2>1 DEF Unsaved
<1>9. CASE SkipErase \/ Erase
  <2>1. pc \in DOMAIN BootFlagAt /\ UNCHANGED <<modified, ret>>
    BY <1>9 DEF SkipErase, Erase, blocks
  <2> QED BY <2>1, Tables DEF Unsaved
(* The block at pc is not modified when pc moves on.                        *)
<1>10. ASSUME NEW b \in {"config", "gsc", "noBoot"}, pc \in DOMAIN BlockAt,
              pc \in Unsaved[b], BlockAt[pc] # b
       PROVE  After[pc] \in Unsaved[b]
  BY <1>0, <1>10 DEF BlockAt, After, Unsaved
<1>11. CASE SaveBlock
  <2>1. pc \in DOMAIN BlockAt /\ UNCHANGED <<modified, ret>>
        /\ \/ pc' = pc
           \/ pc' = After[pc] /\ ~modified[BlockAt[pc]]
    BY <1>11 DEF SaveBlock, Goto, blocks
  <2> QED BY <1>10, <2>1
<1>12. CASE SaveToFlash \/ Recache
  <2>1. pc \in DOMAIN BlockAt /\ UNCHANGED ret
    BY <1>12 DEF SaveToFlash, Recache, InSave, TypeInv, ControlOK
  <2>2. \/ pc' = After[pc] /\ modified' = [modified EXCEPT ![BlockAt[pc]] = FALSE]
        \/ UNCHANGED <<pc, modified>>
    BY <1>12 DEF SaveToFlash, Recache, SaveSucceeds, SaveFails, RestoreEnds
  <2>3. modified \in [Blocks -> BOOLEAN] /\ BlockAt[pc] \in Blocks
    BY <2>1, Tables DEF TypeInv, BlocksOK
  <2> QED BY <1>0, <1>10, <2>1, <2>2, <2>3
<1>13. CASE Reload
  BY <1>13 DEF Reload
<1>14. CASE \/ \E s \in Subjects : SetValue(s)
            \/ Update \/ SaveLogDataTimer \/ DelayAlarmLogTimer \/ SaveLogSeriesToFlash \/ PowerDown
            \/ (\E f \in BootCalls : Boot(f)) \/ UNCHANGED vars
  BY <1>14 DEF SetValue, Update, SaveLogDataTimer, DelayAlarmLogTimer, SaveLogSeriesToFlash,
     PowerDown, Boot, blocks, vars
<1> QED
  BY <1>1, <1>2, <1>3, <1>4, <1>5, <1>6, <1>7, <1>8, <1>9, <1>11, <1>12, <1>13, <1>14
     DEF Next, ConfigTask, Doit

(* NoWorkWhileBlocked: ConfigTask never sleeps while the queue, a factory   *)
(* boot, a due alarm log or, after a pass of Doit, a modified block of      *)
(* settings waits for it.                                                   *)
THEOREM NeverSleepsOnWork == Spec => []NoWorkWhileBlocked
<1>1. TypeInv /\ QueueInv /\ BootInv /\ AlarmInv /\ SavedInv => NoWorkWhileBlocked
  <2> SUFFICES ASSUME TypeInv, QueueInv, BootInv, AlarmInv, SavedInv, pc = "wait", ~event
               PROVE  /\ queue = <<>> /\ ~executeBoot /\ boot = {}
                      /\ okToSave => ~timeAlarm
                      /\ ret = "end" => \A s \in Settings : ~modified[BlockOf[s]]
    BY DEF NoWorkWhileBlocked
  <2>1. queue = <<>>
    BY DEF QueueInv, Erasing
  <2>2. ~executeBoot /\ boot = {}
    BY DEF BootInv
  <2>3. okToSave => ~timeAlarm
    BY DEF AlarmInv, Erasing
  <2>4. ASSUME ret = "end", NEW s \in Settings PROVE ~modified[BlockOf[s]]
    <3>1. BlockOf[s] \in {"config", "gsc", "noBoot"}
      BY DEF Settings, BlockOf
    <3>2. "wait" \notin Unsaved[BlockOf[s]]
      BY <3>1 DEF Unsaved
    <3> QED BY <2>4, <3>1, <3>2 DEF SavedInv
  <2> QED BY <2>1, <2>2, <2>3, <2>4
<1> QED
  BY <1>1, InitTypeInv, NextTypeInv, InitWork, NextQueueInv, NextBootInv, NextAlarmInv,
     NextSavedInv, PTL DEF Spec

-----------------------------------------------------------------------------
(* Nothing is forgotten, as long as the queue has room: a full queue drops  *)
(* a subject in silence.  What the invariant adds: a failed save has been   *)
(* counted before its reload runs, and a boot that is asked for forbids     *)
(* saves.                                                                   *)
Room == Len(queue) < QueueSize
Good == okToSave /\ faults = 0

FlagInv ==
  /\ step \in {"reload", "recache"} => faults > 0
  /\ executeBoot \/ boot # {} => ~okToSave

LEMMA InitFlagInv == Init => FlagInv
  BY DEF Init, FlagInv

LEMMA NextFlagInv == TypeInv /\ FlagInv /\ [Next]_vars => FlagInv'
<1> SUFFICES ASSUME TypeInv, FlagInv, [Next]_vars PROVE FlagInv'
  OBVIOUS
<1> USE DEF FlagInv
<1>1. faults \in Nat
  BY SubjectsAssumption DEF TypeInv, BlocksOK
<1>2. CASE Start \/ Test \/ Wait \/ Exec \/ Ok \/ End \/ Final \/ Signal
  BY <1>2 DEF Start, Test, Wait, Exec, Ok, End, Final, Signal, Goto, callers, blocks
<1>3. CASE SkipErase \/ Erase
  BY <1>1, <1>3 DEF SkipErase, Erase, Goto, callers, blocks
<1>4. CASE DrainAlarmLog \/ DrainSubject \/ Drained \/ AlarmLog \/ LogTest \/ LogSeries
  BY <1>4 DEF DrainAlarmLog, DrainSubject, Drained, AlarmLog, LogTest, LogSeries, Goto, callers, blocks
<1>5. CASE User1 \/ User1Done \/ User2 \/ User2Done
  BY <1>5 DEF User1, User1Done, User2, User2Done, Goto, callers, blocks
<1>6. CASE SaveBlock
  BY <1>6 DEF SaveBlock, Goto, callers, blocks
<1>7. CASE SaveToFlash
  BY <1>1, <1>7 DEF SaveToFlash, SaveSucceeds, SaveFails, flags
<1>8. CASE Reload \/ Recache
  BY <1>8 DEF Reload, Recache, InSave, RestoreEnds, flags
<1>9. CASE \/ \E s \in Subjects : SetValue(s)
           \/ Update \/ SaveLogDataTimer \/ DelayAlarmLogTimer \/ SaveLogSeriesToFlash \/ PowerDown
           \/ (\E f \in BootCalls : Boot(f)) \/ UNCHANGED vars
  BY <1>9 DEF SetValue, Update, SaveLogDataTimer, DelayAlarmLogTimer, SaveLogSeriesToFlash,
     PowerDown, Boot, blocks, flags, vars
<1>10. CASE PowerCycle
  BY <1>10 DEF PowerCycle
<1> QED
  BY <1>2, <1>3, <1>4, <1>5, <1>6, <1>7, <1>8, <1>9, <1>10 DEF Next, ConfigTask, Doit

(* The steps that touch data while saves are allowed and do not fail.       *)
LEMMA GoodSteps ==
  ASSUME TypeInv, FlagInv, [Next]_vars, Good', ~PowerCycle
  PROVE  /\ Good /\ (powerDown => powerDown')
         /\ \/ \E s \in Subjects : SetValue(s)
            \/ Update \/ DrainAlarmLog \/ DrainSubject \/ AlarmLog \/ User1
            \/ /\ pc \in DOMAIN BlockAt /\ SaveSucceeds(BlockAt[pc]) /\ pc' = After[pc]
               /\ UNCHANGED <<queue, updating, flags, ret, owed, inTime>>
            \/ /\ UNCHANGED <<subject, cache, modified, flash, queue, updating>>
               /\ timeAlarm \/ alarmTimer => timeAlarm' \/ alarmTimer'
<1> USE DEF Good, FlagInv
<1>1. faults \in Nat
  BY SubjectsAssumption DEF TypeInv, BlocksOK
<1> DEFINE Untouched == UNCHANGED <<blocks, queue, updating, okToSave, powerDown, alarmTimer, timeAlarm>>
<1>0. ASSUME Untouched
      PROVE  /\ Good /\ (powerDown => powerDown')
             /\ UNCHANGED <<subject, cache, modified, flash, queue, updating>>
             /\ timeAlarm \/ alarmTimer => timeAlarm' \/ alarmTimer'
  BY <1>0 DEF blocks
<1>2. Start \/ Test \/ Wait \/ Exec \/ End \/ Final \/ Signal => Untouched
  BY DEF Start, Test, Wait, Exec, End, Final, Signal, Goto, callers
<1>3. CASE Ok
  BY <1>3 DEF Ok, Goto, callers, blocks
<1>4. CASE SkipErase
  BY <1>4 DEF SkipErase, Goto, callers, blocks
<1>5. ~Erase
  BY DEF Erase, Goto, callers
<1>6. Drained \/ LogTest \/ LogSeries \/ SaveBlock \/ User1Done \/ User2 \/ User2Done => Untouched
  BY DEF Drained, LogTest, LogSeries, SaveBlock, User1Done, User2, User2Done, Goto, callers
<1>7. CASE DrainAlarmLog \/ DrainSubject \/ AlarmLog \/ User1
  BY <1>7 DEF DrainAlarmLog, DrainSubject, AlarmLog, User1, Goto, callers, blocks
<1>8. CASE SaveToFlash
  <2>1. ~SaveFails(BlockAt[pc])
    BY <1>1 DEF SaveFails
  <2>2. /\ SaveSucceeds(BlockAt[pc]) /\ pc' = After[pc]
        /\ UNCHANGED <<queue, updating, flags, ret, owed, inTime>>
    BY <1>8, <2>1 DEF SaveToFlash
  <2>3. pc \in DOMAIN BlockAt
    BY <1>8 DEF SaveToFlash, InSave, TypeInv, ControlOK
  <2>4. Good /\ (powerDown => powerDown')
    BY <2>2 DEF SaveSucceeds, flags
  <2> QED BY <2>2, <2>3, <2>4
<1>9. ~Reload /\ ~Recache
  BY <1>1 DEF Reload, Recache, InSave, RestoreEnds
<1>10. ASSUME Update \/ (\E s \in Subjects : SetValue(s)) PROVE Good /\ (powerDown => powerDown')
  <2>1. ASSUME NEW s \in Subjects, SetValue(s) PROVE UNCHANGED <<okToSave, faults, powerDown>>
    BY <2>1 DEF SetValue, flags
  <2>2. CASE Update
    BY <2>2 DEF Update, blocks, flags
  <2> QED BY <1>10, <2>1, <2>2
<1>11. SaveLogDataTimer \/ SaveLogSeriesToFlash \/ UNCHANGED vars => Untouched
  BY DEF SaveLogDataTimer, SaveLogSeriesToFlash, flags, vars
<1>13. CASE DelayAlarmLogTimer \/ PowerDown
  <2>1. CASE DelayAlarmLogTimer
    <3>1. UNCHANGED <<blocks, queue, updating, okToSave, powerDown>> /\ timeAlarm' = TRUE
      BY <2>1 DEF DelayAlarmLogTimer
    <3> QED BY <3>1 DEF blocks
  <2>2. CASE PowerDown
    <3>1. UNCHANGED <<blocks, queue, updating, okToSave, timeAlarm, alarmTimer>> /\ powerDown' = TRUE
      BY <2>2 DEF PowerDown
    <3> QED BY <3>1 DEF blocks
  <2> QED BY <1>13, <2>1, <2>2
<1>12. ASSUME NEW f \in BootCalls PROVE ~Boot(f)
  BY DEF Boot
<1> HIDE DEF Untouched
<1> QED
  BY <1>0, <1>2, <1>3, <1>4, <1>5, <1>6, <1>7, <1>8, <1>9, <1>10, <1>11, <1>12, <1>13
     DEF Next, ConfigTask, Doit

(* What holds of one subject.                                               *)
Remembered(s) ==
  /\ cache[s] # subject[s] =>
       \/ updating = s
       \/ \E i \in DOMAIN queue : queue[i] = s
       \/ s = "alarmLog" /\ (alarmTimer \/ timeAlarm \/ powerDown)
  /\ cache[s] # Stored(s) => modified[BlockOf[s]]

LEMMA AllRemembered == NoChangeForgotten <=> (Good => \A s \in Subjects \ Series : Remembered(s))
  BY DEF NoChangeForgotten, Remembered, Good

(* A step that copies the data of the subjects of S to the cache.           *)
LEMMA Copied ==
  ASSUME TypeInv, NEW S, SaveToCache(S), UNCHANGED <<subject, flash>>, NEW s \in Subjects
  PROVE  /\ Stored(s)' = Stored(s)
         /\ cache'[s] = IF s \in S THEN subject[s] ELSE cache[s]
         /\ modified[BlockOf[s]] => modified'[BlockOf[s]]
         /\ cache'[s] # cache[s] => modified'[BlockOf[s]]
<1>1. BlockOf[s] \in Blocks /\ s \in SubjectsOf(BlockOf[s])
  BY OwnBlock
<1> QED BY <1>1 DEF SaveToCache, Stored

(* A step that writes block b.                                              *)
LEMMA Written ==
  ASSUME TypeInv, NEW b \in Blocks, SaveSucceeds(b), NEW s \in Subjects
  PROVE  /\ BlockOf[s] = b => Stored(s)' = cache[s]
         /\ BlockOf[s] # b => Stored(s)' = Stored(s) /\ modified'[BlockOf[s]] = modified[BlockOf[s]]
         /\ modified'[b] = FALSE
<1>1. BlockOf[s] \in Blocks /\ CacheImage(b) # NONE /\ DOMAIN flash = Blocks
      /\ modified \in [Blocks -> BOOLEAN]
  BY OwnBlock, Images DEF TypeInv, BlocksOK
<1>2. CASE BlockOf[s] = b
  <2>1. flash'[b] = CacheImage(b) /\ modified'[b] = FALSE
    BY <1>1 DEF SaveSucceeds
  <2>2. CacheImage(b)[s] = cache[s]
    BY <1>2 DEF CacheImage, SubjectsOf
  <2> QED BY <1>1, <1>2, <2>1, <2>2 DEF Stored, StoredIn
<1>3. CASE BlockOf[s] # b
  <2>1. flash'[BlockOf[s]] = flash[BlockOf[s]] /\ modified'[BlockOf[s]] = modified[BlockOf[s]]
        /\ modified'[b] = FALSE
    BY <1>1, <1>3 DEF SaveSucceeds
  <2> QED BY <1>3, <2>1 DEF Stored, StoredIn
<1> QED BY <1>2, <1>3

LEMMA Loaded ==
  ASSUME PowerCycle, NEW s \in Subjects
  PROVE  cache'[s] = subject'[s] /\ Stored(s)' = cache'[s] /\ modified'[BlockOf[s]]
<1>1. BlockOf[s] \in Blocks
  BY OwnBlock
<1> QED BY <1>1 DEF PowerCycle, LoadAll, Stored

LEMMA StillQueued ==
  ASSUME TypeInv, queue # <<>>, NEW s, s # Head(queue), \E i \in DOMAIN queue : queue[i] = s
  PROVE  \E i \in DOMAIN Tail(queue) : Tail(queue)[i] = s
<1>1. PICK i \in 1 .. Len(queue) : queue[i] = s
  BY DEF TypeInv, QueueOK
<1>2. i # 1 /\ i \in Nat /\ Len(queue) \in Nat
  BY <1>1 DEF TypeInv, QueueOK
<1>3. i - 1 \in 1 .. Len(queue) - 1
  BY <1>1, <1>2
<1>4. Len(Tail(queue)) = Len(queue) - 1 /\ Tail(queue) \in Seq(Subjects \ Series)
      /\ \A j \in 1 .. Len(queue) - 1 : Tail(queue)[j] = queue[j + 1]
  BY HeadTailProperties DEF TypeInv, QueueOK
<1>5. i - 1 \in DOMAIN Tail(queue) /\ Tail(queue)[i - 1] = s
  BY <1>1, <1>2, <1>3, <1>4
<1> QED BY <1>5

LEMMA NextRemembered ==
  TypeInv /\ FlagInv /\ NoChangeForgotten /\ Room /\ [Next]_vars => NoChangeForgotten'
<1> SUFFICES ASSUME TypeInv, FlagInv, NoChangeForgotten, Room, [Next]_vars, Good',
                    NEW s \in Subjects \ Series
             PROVE  Remembered(s)'
  BY DEF NoChangeForgotten, Remembered, Good
<1>1. CASE PowerCycle
  BY <1>1, Loaded DEF Remembered
<1> SUFFICES ASSUME ~PowerCycle PROVE Remembered(s)'
  BY <1>1
<1>2. Good /\ (powerDown => powerDown')
  BY GoodSteps
<1>3. Remembered(s)
  BY <1>2, AllRemembered
<1> USE DEF Remembered
<1>4. ASSUME NEW t \in Subjects, SetValue(t) PROVE Remembered(s)'
  <2>1. updating = NONE /\ s # NONE /\ t # NONE
    BY <1>4, SubjectsAssumption DEF SetValue
  <2>2. t = s => updating' = s
    BY <1>4 DEF SetValue
  <2>3. t # s => subject'[s] = subject[s]
    BY <1>4 DEF SetValue, TypeInv, BlocksOK
  <2>4. UNCHANGED <<cache, modified, queue, alarmTimer, timeAlarm, powerDown>> /\ Stored(s)' = Stored(s)
    BY <1>4 DEF SetValue, flags, Stored, StoredIn
  <2> QED BY <1>3, <2>1, <2>2, <2>3, <2>4
<1>5. CASE Update
  <2>1. updating \in Subjects \ Series
    BY <1>5 DEF Update, TypeInv, ControlOK
  <2>2. /\ \A i \in DOMAIN queue : i \in DOMAIN queue' /\ queue'[i] = queue[i]
        /\ \E i \in DOMAIN queue' : queue'[i] = updating
    BY <1>5, <2>1, QueuedSeq DEF Update, TypeInv, Room
  <2>3. UNCHANGED <<subject, cache, modified, alarmTimer, timeAlarm, powerDown>> /\ Stored(s)' = Stored(s)
    BY <1>5 DEF Update, blocks, flags, Stored, StoredIn
  <2> QED BY <1>3, <2>2, <2>3
<1>6. ASSUME queue # <<>>, queue' = Tail(queue), s # Head(queue),
             \E i \in DOMAIN queue : queue[i] = s
      PROVE  \E i \in DOMAIN queue' : queue'[i] = s
  BY <1>6, StillQueued
<1>7. CASE DrainAlarmLog
  <2>1. queue # <<>> /\ queue' = Tail(queue) /\ Head(queue) = "alarmLog" /\ alarmTimer'
        /\ UNCHANGED <<subject, cache, modified, updating>> /\ Stored(s)' = Stored(s)
    BY <1>7 DEF DrainAlarmLog, Goto, callers, blocks, Stored, StoredIn
  <2> QED BY <1>3, <1>6, <2>1
<1>8. CASE DrainSubject
  <2>1. queue # <<>> /\ queue' = Tail(queue) /\ SaveToCache({Head(queue)})
        /\ UNCHANGED <<subject, flash, updating, alarmTimer, timeAlarm, powerDown>>
    BY <1>8 DEF DrainSubject, Goto, callers
  <2>2. cache'[s] # subject'[s] => s # Head(queue) /\ cache'[s] = cache[s]
    BY <2>1, Copied
  <2> QED BY <1>3, <1>6, <2>1, <2>2, Copied
<1>9. CASE AlarmLog
  <2>1. UNCHANGED <<subject, flash, queue, updating, alarmTimer, powerDown>>
    BY <1>9 DEF AlarmLog, Goto, callers
  <2>2. CASE ~powerDown /\ timeAlarm
    <3>1. SaveToCache({"alarmLog"} \cap Subjects)
      BY <1>9, <2>2 DEF AlarmLog
    <3> QED BY <1>3, <2>1, <3>1, Copied
  <2>3. CASE ~(~powerDown /\ timeAlarm)
    <3>1. UNCHANGED <<timeAlarm, cache, modified>> /\ Stored(s)' = Stored(s)
      BY <1>9, <2>1, <2>3 DEF AlarmLog, Stored, StoredIn
    <3> QED BY <1>3, <2>1, <3>1
  <2> QED BY <2>2, <2>3
<1>10. CASE User1
  <2>1. UNCHANGED <<subject, flash, queue, updating, alarmTimer, timeAlarm, powerDown>>
    BY <1>10 DEF User1, Goto, callers
  <2>2. CASE SaveToCache(Series)
    BY <1>3, <2>1, <2>2, Copied
  <2>3. CASE UNCHANGED <<cache, modified>>
    <3>1. Stored(s)' = Stored(s)
      BY <2>1 DEF Stored, StoredIn
    <3> QED BY <1>3, <2>1, <2>3, <3>1
  <2> QED BY <1>10, <2>2, <2>3 DEF User1
<1>11. CASE /\ pc \in DOMAIN BlockAt /\ SaveSucceeds(BlockAt[pc])
            /\ UNCHANGED <<queue, updating, flags>>
  <2>1. BlockAt[pc] \in Blocks
    BY <1>11, Tables
  <2>2. UNCHANGED <<subject, cache>>
    BY <1>11 DEF SaveSucceeds
  <2> QED BY <1>3, <1>11, <2>1, <2>2, Written DEF flags
<1>12. CASE /\ UNCHANGED <<subject, cache, modified, flash, queue, updating>>
            /\ timeAlarm \/ alarmTimer => timeAlarm' \/ alarmTimer'
  <2>1. Stored(s)' = Stored(s)
    BY <1>12 DEF Stored, StoredIn
  <2> QED BY <1>2, <1>3, <1>12, <2>1
<1> QED BY GoodSteps, <1>4, <1>5, <1>7, <1>8, <1>9, <1>10, <1>11, <1>12

(* NoChangeForgotten, of an instance whose queue is never full.             *)
THEOREM ChangesAreRemembered == Spec /\ [](Len(queue) < QueueSize) => []NoChangeForgotten
<1>1. Init => NoChangeForgotten
  <2>1. ASSUME Init, NEW s \in Subjects PROVE cache[s] = subject[s] /\ modified[BlockOf[s]]
    BY <2>1, OwnBlock DEF Init, InitBlocks
  <2> QED BY <2>1 DEF NoChangeForgotten
<1>2. Len(queue) < QueueSize <=> Room
  BY DEF Room
<1> QED
  BY <1>1, <1>2, InitTypeInv, NextTypeInv, InitFlagInv, NextFlagInv, NextRemembered, PTL DEF Spec

-----------------------------------------------------------------------------
(* Power down loses nothing that was reported before it, as long as the     *)
(* queue has room.  The inductive invariant follows a datum on its way:     *)
(* what is owed and not yet in its cache is queued; after the drain of the  *)
(* last pass it is in the cache, and after the block's turn in flash.  When *)
(* there is no last pass, the one before it, or the load at power-on, has   *)
(* left nothing to do.                                                      *)
Kept == Settings \cup ({"log"} \cap Subjects)

(* Where a pass has yet to save the block of s.                             *)
Awaits == [config |-> Unsaved.config, gsc |-> Unsaved.gsc, noBoot |-> Unsaved.noBoot,
           log    |-> {"drain", "alarmLog", "logTest", "log"}]

OwedInv == \A s \in Kept : (~powerDown => owed[s] = 0) /\ owed[s] <= subject[s]

DownInv ==
  /\ inTime \/ pc = "final" \/ ret = "signal" => powerDown
  /\ pc \in {"signal", "down"} => ret = "signal"
  /\ pc \in {"start", "bootConfig", "bootNoBoot"} => ret = "none"

QueuedInv == \A s \in Kept : cache[s] < owed[s] => \E i \in DOMAIN queue : queue[i] = s

LoadedInv == ret = "none" => \A s \in Kept : cache[s] = Stored(s)

LogInv == inTime /\ ret = "end" /\ modified["log"] => pc \in BeforeLogTest \cup {"log"}

CachedInv == ret = "signal" /\ pc # "drain" => \A s \in Kept : owed[s] <= cache[s]

FlashedInv ==
  ret = "signal" =>
    \A s \in Kept : (s \in Settings \/ inTime) /\ pc \notin Awaits[s] => owed[s] <= Stored(s)

KeptInv == Good => OwedInv /\ DownInv /\ QueuedInv /\ LoadedInv /\ LogInv /\ CachedInv /\ FlashedInv

LEMMA KeptSubjects ==
  ASSUME NEW s \in Kept
  PROVE  /\ s \in {"config", "gsc", "noBoot", "log"} /\ s \in Subjects \ Series /\ BlockOf[s] = s
         /\ s \in Settings <=> s # "log"
  BY DEF Kept, Settings, Series, BlockOf

LEMMA KeptTypes ==
  ASSUME TypeInv, NEW s \in Kept
  PROVE  cache[s] \in Nat /\ subject[s] \in Nat /\ owed[s] \in Nat /\ Stored(s) \in Nat
<1>1. s \in Subjects
  BY KeptSubjects
<1>2. Value \subseteq Nat
  BY SubjectsAssumption DEF Value
<1> QED BY <1>1, <1>2, StoredType DEF TypeInv, BlocksOK, OwedOK

LEMMA InitKept == Init => KeptInv
<1> SUFFICES ASSUME Init PROVE KeptInv
  OBVIOUS
<1>1. ASSUME NEW s \in Kept
      PROVE  subject[s] = 0 /\ cache[s] = 0 /\ owed[s] = 0 /\ Stored(s) = 0
  <2>1. s \in Subjects /\ BlockOf[s] \in Blocks
    BY KeptSubjects, OwnBlock
  <2> QED BY <2>1 DEF Init, InitBlocks, Default, Stored, StoredIn
<1> QED BY <1>1 DEF Init, KeptInv, OwedInv, DownInv, QueuedInv, LoadedInv, LogInv, CachedInv, FlashedInv

LEMMA CycleKept == TypeInv' /\ PowerCycle => KeptInv'
<1> SUFFICES ASSUME TypeInv', PowerCycle PROVE KeptInv'
  OBVIOUS
<1>1. ASSUME NEW s \in Kept
      PROVE  subject'[s] \in Nat /\ cache'[s] = subject'[s] /\ owed'[s] = 0 /\ Stored(s)' = cache'[s]
  <2>1. s \in Subjects
    BY KeptSubjects
  <2>2. subject'[s] \in Nat
    BY <2>1, SubjectsAssumption DEF TypeInv, BlocksOK, Value
  <2> QED BY <2>1, <2>2, Loaded DEF PowerCycle, Default
<1> QED
  BY <1>1 DEF PowerCycle, KeptInv, OwedInv, DownInv, QueuedInv, LoadedInv, LogInv, CachedInv, FlashedInv

(* What a step other than power coming back does with the data of s.        *)
LEMMA DataSteps ==
  ASSUME TypeInv, TypeInv', FlagInv, [Next]_vars, Good', ~PowerCycle, NEW s \in Kept
  PROVE  /\ Good
         /\ subject[s] <= subject'[s]
         /\ cache'[s] = cache[s] \/ cache'[s] = subject[s]
         /\ Stored(s)' = Stored(s) \/ Stored(s)' = cache[s]
         /\ cache'[s] # cache[s] => pc = "drain" /\ pc' = "drain"
<1>1. /\ s \in Subjects \ Series /\ s # "alarmLog"
      /\ cache[s] \in Nat /\ subject[s] \in Nat /\ Stored(s) \in Nat
  BY KeptSubjects, KeptTypes
<1>2. Good
  BY GoodSteps
<1>3. ASSUME NEW t \in Subjects, SetValue(t)
      PROVE  subject[s] <= subject'[s] /\ cache' = cache /\ Stored(s)' = Stored(s)
  BY <1>1, <1>3 DEF SetValue, TypeInv, BlocksOK, Stored, StoredIn
<1>4. CASE Update \/ DrainAlarmLog
  <2>1. UNCHANGED <<subject, cache, flash>>
    BY <1>4 DEF Update, DrainAlarmLog, blocks
  <2> QED BY <1>1, <1>2, <2>1 DEF Stored, StoredIn
<1>5. CASE DrainSubject
  <2>1. SaveToCache({Head(queue)}) /\ UNCHANGED <<subject, flash>> /\ pc = "drain" /\ pc' = "drain"
    BY <1>5 DEF DrainSubject, At, Goto
  <2> QED BY <1>1, <1>2, <2>1, Copied
<1>6. CASE AlarmLog \/ User1
  <2>1. UNCHANGED <<subject, flash>>
    BY <1>6 DEF AlarmLog, User1
  <2>2. SaveToCache({"alarmLog"} \cap Subjects) \/ SaveToCache(Series) \/ UNCHANGED cache
    BY <1>6 DEF AlarmLog, User1
  <2>3. cache'[s] = cache[s]
    BY <1>1, <2>2 DEF SaveToCache
  <2> QED BY <1>1, <1>2, <2>1, <2>3 DEF Stored, StoredIn
<1>7. CASE pc \in DOMAIN BlockAt /\ SaveSucceeds(BlockAt[pc])
  <2>1. BlockAt[pc] \in Blocks /\ UNCHANGED <<subject, cache>>
    BY <1>7, Tables DEF SaveSucceeds
  <2>2. Stored(s)' = Stored(s) \/ Stored(s)' = cache[s]
    BY <1>1, <1>7, <2>1, Written
  <2> QED BY <1>1, <1>2, <2>1, <2>2
<1>8. CASE UNCHANGED <<subject, cache, flash>>
  BY <1>1, <1>2, <1>8 DEF Stored, StoredIn
<1> QED BY GoodSteps, <1>2, <1>3, <1>4, <1>5, <1>6, <1>7, <1>8

(* Power goes down: what was reported is in its cache or queued.            *)
LEMMA OwedSteps ==
  ASSUME TypeInv, FlagInv, [Next]_vars, Good', ~PowerCycle
  PROVE  \/ PowerDown
         \/ UNCHANGED <<owed, inTime, powerDown>>
  BY GoodSteps DEF Next, vars, flags, callers, ConfigTask, Doit, Goto, Start, Test, Wait, Exec,
     Ok, End, Final, Signal, SkipErase, Erase, DrainAlarmLog, DrainSubject, Drained, AlarmLog,
     LogTest, LogSeries, SaveBlock, User1, User1Done, User2, User2Done, SaveToFlash, Reload,
     Recache, SetValue, Update, SaveLogDataTimer, DelayAlarmLogTimer, SaveLogSeriesToFlash, Boot

LEMMA PowerDownOwes ==
  ASSUME PowerDown, TypeInv, NoChangeForgotten, KeptInv, Good, NEW s \in Kept
  PROVE  /\ ~powerDown /\ powerDown' /\ owed[s] = 0 /\ owed'[s] \in Nat /\ owed'[s] <= subject[s]
         /\ cache[s] < owed'[s] => \E i \in DOMAIN queue : queue[i] = s
<1>1. s \in Subjects \ Series /\ s # "alarmLog" /\ cache[s] \in Nat /\ subject[s] \in Nat
  BY KeptSubjects, KeptTypes
<1>2. ~powerDown /\ powerDown' /\ owed[s] = 0
  BY DEF PowerDown, KeptInv, OwedInv
<1>3. owed'[s] = IF s = updating THEN 0 ELSE subject[s]
  BY <1>1, <1>2 DEF PowerDown
<1>4. Remembered(s)
  BY <1>1, AllRemembered
<1> QED BY <1>1, <1>2, <1>3, <1>4 DEF Remembered

LEMMA NextOwedInv ==
  ASSUME TypeInv, TypeInv', FlagInv, NoChangeForgotten, KeptInv, [Next]_vars, Good', ~PowerCycle
  PROVE  OwedInv'
<1> SUFFICES ASSUME NEW s \in Kept PROVE (~powerDown' => owed'[s] = 0) /\ owed'[s] <= subject'[s]
  BY DEF OwedInv
<1>1. Good /\ subject[s] <= subject'[s] /\ subject[s] \in Nat /\ owed[s] \in Nat
      /\ owed'[s] \in Nat /\ subject'[s] \in Nat
  <2>1. s \in Subjects /\ Value \subseteq Nat
    BY KeptSubjects, SubjectsAssumption DEF Value
  <2>2. owed'[s] \in Nat /\ subject'[s] \in Nat
    BY <2>1 DEF TypeInv, BlocksOK, OwedOK
  <2> QED BY <2>2, DataSteps, KeptTypes
<1>2. CASE PowerDown
  BY <1>1, <1>2, PowerDownOwes
<1>3. CASE UNCHANGED <<owed, powerDown>>
  BY <1>1, <1>3 DEF KeptInv, OwedInv
<1> QED BY <1>2, <1>3, OwedSteps

(* The steps between the labels of Run and Doit.                            *)
LEMMA Returns ==
  ASSUME TypeInv, FlagInv, [Next]_vars, Good', ~PowerCycle
  PROVE  /\ ret' = "none" => ret = "none"
         /\ ret' # ret => Final \/ (ret' = "end" /\ pc' = "drain")
         /\ pc' = "final" => pc = "final" \/ powerDown
         /\ pc' \in {"signal", "down"} =>
              Final \/ pc \in {"signal", "down"} \/ (pc' = ret /\ ret' = ret)
         /\ pc' \in {"start", "bootConfig", "bootNoBoot"} =>
              pc \in {"start", "bootConfig", "bootNoBoot"} /\ ret' = ret
<1> USE DEF TypeInv, ControlOK
<1>2. CASE Start \/ Test \/ Wait \/ Exec \/ Ok \/ End \/ Final \/ Signal
  <2>1. CASE Start \/ Wait \/ Exec \/ End
    BY <2>1 DEF Start, Wait, Exec, End, At, Goto
  <2>2. CASE Test \/ Ok
    BY <2>2 DEF Test, Ok, Goto
  <2>3. CASE Final
    BY <2>3 DEF Final, At, Goto
  <2>4. CASE Signal
    BY <2>4 DEF Signal, At, Goto
  <2> QED BY <1>2, <2>1, <2>2, <2>3, <2>4
<1>3. CASE SkipErase \/ Erase
  <2>1. pc' \in {"eraseLog", "eraseGsc", "ok"} /\ ret' = ret
    BY <1>3, Tables DEF SkipErase, Erase, Goto, AfterErase
  <2> QED BY <2>1
<1>4. CASE DrainAlarmLog \/ DrainSubject \/ Drained \/ AlarmLog \/ LogTest \/ LogSeries
  BY <1>4 DEF DrainAlarmLog, DrainSubject, Drained, AlarmLog, LogTest, LogSeries, At, Goto
<1>5. CASE User1 \/ User1Done \/ User2 \/ User2Done
  BY <1>5 DEF User1, User1Done, User2, User2Done, At, Goto
<1>6. CASE SaveBlock \/ SaveToFlash \/ Reload \/ Recache
  <2>1. pc \in DOMAIN BlockAt /\ pc' \in {pc, After[pc]} /\ ret' = ret
    BY <1>6 DEF SaveBlock, SaveToFlash, Reload, Recache, InSave, Goto
  <2>2. /\ {pc, After[pc]} \cap {"final", "signal", "down"} = {}
        /\ After[pc] \in {"start", "bootConfig", "bootNoBoot"} => pc = "bootConfig"
    BY <2>1, Tables DEF After
  <2> QED BY <2>1, <2>2
<1>7. CASE \/ \E s \in Subjects : SetValue(s)
           \/ Update \/ SaveLogDataTimer \/ DelayAlarmLogTimer \/ SaveLogSeriesToFlash \/ PowerDown
           \/ (\E f \in BootCalls : Boot(f)) \/ UNCHANGED vars
  BY <1>7 DEF SetValue, Update, SaveLogDataTimer, DelayAlarmLogTimer, SaveLogSeriesToFlash,
     PowerDown, Boot, vars
<1> QED BY <1>2, <1>3, <1>4, <1>5, <1>6, <1>7 DEF Next, ConfigTask, Doit

LEMMA NextDownInv ==
  ASSUME TypeInv, TypeInv', FlagInv, NoChangeForgotten, KeptInv, [Next]_vars, Good', ~PowerCycle
  PROVE  DownInv'
<1>1. DownInv /\ ret \in {"none", "end", "signal"}
  BY GoodSteps DEF KeptInv, TypeInv, ControlOK
<1>2. Final => pc = "final" /\ ret' = "signal"
  BY DEF Final, At
<1>3. powerDown => powerDown'
  BY GoodSteps
<1>4. inTime' => powerDown'
  BY <1>1, OwedSteps DEF PowerDown, DownInv
<1>5. pc' = "final" \/ ret' = "signal" => powerDown'
  BY <1>1, <1>2, <1>3, Returns DEF DownInv
<1>6. pc' \in {"signal", "down"} => ret' = "signal"
  <2>1. CASE ret' = ret
    BY <1>1, <1>2, <2>1, Returns DEF DownInv
  <2>2. CASE ret' # ret
    BY <1>2, <2>2, Returns
  <2> QED BY <2>1, <2>2
<1>7. pc' \in {"start", "bootConfig", "bootNoBoot"} => ret' = "none"
  BY <1>1, Returns DEF DownInv
<1> QED BY <1>4, <1>5, <1>6, <1>7 DEF DownInv

LEMMA NextQueuedInv ==
  ASSUME TypeInv, TypeInv', FlagInv, NoChangeForgotten, KeptInv, [Next]_vars, Good', ~PowerCycle
  PROVE  QueuedInv'
<1> SUFFICES ASSUME NEW s \in Kept, cache'[s] < owed'[s]
             PROVE  \E i \in DOMAIN queue' : queue'[i] = s
  BY DEF QueuedInv
<1>1. CASE PowerDown
  BY <1>1, PowerDownOwes, GoodSteps DEF PowerDown, blocks
<1>2. CASE ~PowerDown
  <2>1. owed'[s] = owed[s] /\ owed[s] <= subject[s] /\ cache'[s] = cache[s]
        /\ s \in Subjects /\ s # "alarmLog"
    <3>1. owed' = owed
      BY <1>2, OwedSteps
    <3>2. owed[s] <= subject[s]
      BY GoodSteps DEF KeptInv, OwedInv
    <3> QED BY <3>1, <3>2, DataSteps, KeptTypes, KeptSubjects
  <2>2. \E i \in DOMAIN queue : queue[i] = s
    BY <2>1, GoodSteps DEF KeptInv, QueuedInv
  <2>3. CASE queue' = queue
    BY <2>2, <2>3
  <2>4. CASE Update
    <3>1. updating \in Subjects \ Series
      BY <2>4 DEF Update, TypeInv, ControlOK
    <3> QED BY <2>2, <2>4, <3>1, QueuedSeq DEF Update, TypeInv
  <2>5. CASE DrainAlarmLog \/ DrainSubject
    <3>1. queue # <<>> /\ queue' = Tail(queue)
      BY <2>5 DEF DrainAlarmLog, DrainSubject
    <3>2. s # Head(queue)
      <4>1. CASE DrainAlarmLog
        BY <2>1, <4>1 DEF DrainAlarmLog
      <4>2. ASSUME DrainSubject, s = Head(queue) PROVE cache'[s] = subject[s]
        BY <2>1, <4>2 DEF DrainSubject, SaveToCache
      <4> QED BY <2>1, <2>5, <4>1, <4>2, KeptTypes
    <3> QED BY <2>2, <3>1, <3>2, StillQueued
  <2> QED
    BY <2>3, <2>4, <2>5, GoodSteps DEF SetValue, AlarmLog, User1
<1> QED BY <1>1, <1>2

LEMMA NextLoadedInv ==
  ASSUME TypeInv, TypeInv', FlagInv, NoChangeForgotten, KeptInv, [Next]_vars, Good', ~PowerCycle
  PROVE  LoadedInv'
<1> SUFFICES ASSUME ret' = "none", NEW s \in Kept PROVE cache'[s] = Stored(s)'
  BY DEF LoadedInv
<1>1. ret = "none" /\ cache[s] = Stored(s)
  BY Returns, GoodSteps DEF KeptInv, LoadedInv
<1>2. pc # "drain"
  BY <1>1 DEF TypeInv, ControlOK, DoitLabels
<1> QED BY <1>1, <1>2, DataSteps

LEMMA NextLogInv ==
  ASSUME TypeInv, TypeInv', FlagInv, NoChangeForgotten, KeptInv, [Next]_vars, Good', ~PowerCycle
  PROVE  LogInv'
<1> SUFFICES ASSUME inTime', ret' = "end", modified'["log"] PROVE pc' \in BeforeLogTest \cup {"log"}
  BY DEF LogInv
<1> USE DEF BeforeLogTest
<1>1. CASE PowerDown
  BY <1>1 DEF PowerDown
<1>2. CASE ret' # ret
  BY <1>2, Returns DEF Final
<1> SUFFICES ASSUME ~PowerDown, ret = "end" PROVE pc' \in BeforeLogTest \cup {"log"}
  BY <1>1, <1>2
<1>3. Good /\ inTime /\ powerDown /\ ~executeBoot /\ pc \notin {"start", "bootConfig", "bootNoBoot"}
      /\ (modified["log"] => pc \in BeforeLogTest \cup {"log"})
  BY GoodSteps, OwedSteps DEF KeptInv, DownInv, LogInv, FlagInv, Good
<1>4. DrainAlarmLog \/ DrainSubject \/ Drained \/ AlarmLog \/ Wait \/ Start => pc' \in BeforeLogTest
  BY DEF DrainAlarmLog, DrainSubject, Drained, AlarmLog, Wait, Start, Goto
<1>5. Exec \/ Ok \/ LogTest => pc' \in BeforeLogTest \cup {"log"}
  BY <1>3 DEF Exec, Ok, LogTest, Goto, Good
<1>6. ASSUME \/ Test \/ End \/ Signal \/ LogSeries \/ User1Done \/ User2 \/ User2Done \/ Final
      PROVE  modified' = modified /\ pc \notin BeforeLogTest \cup {"log"}
  BY <1>6 DEF Test, End, Signal, LogSeries, User1Done, User2, User2Done, Final, At, blocks
<1>7. ASSUME SkipErase \/ Erase
      PROVE  modified' = modified /\ pc \notin BeforeLogTest \cup {"log"}
  <2>1. modified' = modified /\ pc \in DOMAIN BootFlagAt
    BY <1>7 DEF SkipErase, Erase, blocks
  <2> QED BY <2>1, Tables
<1>8. ASSUME User1
      PROVE  modified'["log"] = modified["log"] /\ pc \notin BeforeLogTest \cup {"log"}
  <2>1. Series \cap SubjectsOf("log") = {} /\ "log" \in Blocks
    BY DEF SubjectsOf, BlockOf, Series, Blocks
  <2> QED BY <1>8, <2>1 DEF User1, At, SaveToCache, TypeInv, BlocksOK
<1>9. CASE SaveBlock
  <2>1. pc \in DOMAIN BlockAt /\ modified' = modified
        /\ (pc' = pc \/ ~modified[BlockAt[pc]])
    BY <1>9 DEF SaveBlock, Goto, blocks
  <2>2. BlockAt["log"] = "log"
    BY DEF BlockAt
  <2>3. pc \in BeforeLogTest \cup {"log"}
    BY <1>3, <2>1
  <2> QED BY <1>3, <2>1, <2>2, <2>3, Tables
<1>10. CASE SaveToFlash \/ Reload \/ Recache
  <2>1. pc \in DOMAIN BlockAt /\ BlockAt[pc] \in Blocks /\ modified \in [Blocks -> BOOLEAN]
    BY <1>10, Tables DEF SaveToFlash, Reload, Recache, InSave, TypeInv, ControlOK, BlocksOK
  <2>2. \/ modified' = [modified EXCEPT ![BlockAt[pc]] = FALSE]
        \/ UNCHANGED <<modified, pc>>
    BY <1>10 DEF SaveToFlash, Reload, Recache, SaveSucceeds, SaveFails, RestoreEnds
  <2>3. BlockAt["log"] = "log" /\ "log" \in Blocks
    BY DEF BlockAt, Blocks
  <2>4. CASE pc = "log"
    BY <2>1, <2>2, <2>3, <2>4
  <2>5. CASE pc # "log"
    BY <1>3, <2>1, <2>2, <2>3, <2>5, Tables
  <2> QED BY <2>4, <2>5
<1>11. CASE \/ \E s \in Subjects : SetValue(s)
            \/ Update \/ SaveLogDataTimer \/ DelayAlarmLogTimer \/ SaveLogSeriesToFlash
            \/ (\E f \in BootCalls : Boot(f)) \/ UNCHANGED vars
  BY <1>3, <1>11 DEF SetValue, Update, SaveLogDataTimer, DelayAlarmLogTimer, SaveLogSeriesToFlash,
     Boot, blocks, vars
<1> QED
  BY <1>3, <1>4, <1>5, <1>6, <1>7, <1>8, <1>9, <1>10, <1>11 DEF Next, ConfigTask, Doit

LEMMA LeavesDrain ==
  ASSUME TypeInv, FlagInv, [Next]_vars, Good', ~PowerCycle, pc = "drain", pc' # "drain"
  PROVE  queue = <<>>
<1>1. pc \notin DOMAIN BlockAt /\ pc \notin DOMAIN BootFlagAt
  BY Tables
<1> QED
  BY <1>1 DEF Next, vars, ConfigTask, Doit, At, Goto, InSave, Start, Test, Wait, Exec, Ok, End, Final,
     Signal, SkipErase, Erase, DrainAlarmLog, DrainSubject, Drained, AlarmLog, LogTest, LogSeries,
     SaveBlock, User1, User1Done, User2, User2Done, SaveToFlash, Reload, Recache, SetValue, Update,
     SaveLogDataTimer, DelayAlarmLogTimer, SaveLogSeriesToFlash, Boot, PowerDown, TypeInv, ControlOK

(* Only its own save takes a pass beyond the block of s.                    *)
LEMMA LeavesAwaits ==
  ASSUME TypeInv, FlagInv, [Next]_vars, Good', ~PowerCycle, powerDown, ~PowerDown,
         NEW s \in Kept, pc \in Awaits[s], pc' \notin Awaits[s]
  PROVE  pc = s /\ (~modified[s] \/ Stored(s)' = cache[s])
<1>1. /\ s \in {"config", "gsc", "noBoot", "log"} /\ s \in Subjects \ Series /\ BlockOf[s] = s
      /\ BlockAt[s] = s /\ s \notin Always
  BY KeptSubjects DEF BlockAt, Always
<1>2. /\ pc \in {"drain", "alarmLog", "logTest", "log", "series", "config", "gsc", "noBoot"}
      /\ pc # s /\ pc \in DOMAIN BlockAt => After[pc] \in Awaits[s]
      /\ {"drain", "alarmLog", "logTest", "log"} \subseteq Awaits[s]
      /\ pc = "series" => "config" \in Awaits[s]
  BY <1>1, Tables DEF Awaits, Unsaved, After
<1>3. ~(Start \/ Test \/ Wait \/ Exec \/ Ok \/ End \/ Final \/ Signal)
  BY <1>2 DEF Start, Test, Wait, Exec, Ok, End, Final, Signal, At
<1>4. ~(SkipErase \/ Erase)
  BY <1>2, Tables DEF SkipErase, Erase
<1>5. ~(DrainAlarmLog \/ DrainSubject \/ Drained \/ AlarmLog \/ LogSeries)
  BY <1>2 DEF DrainAlarmLog, DrainSubject, Drained, AlarmLog, LogSeries, At, Goto
<1>6. ~LogTest
  BY <1>2 DEF LogTest, Goto
<1>7. ~(User1 \/ User1Done \/ User2 \/ User2Done)
  BY <1>2 DEF User1, User1Done, User2, User2Done, At
<1>8. pc # pc'
  OBVIOUS
<1>9. CASE SaveBlock
  BY <1>1, <1>2, <1>8, <1>9 DEF SaveBlock, Goto
<1>10. CASE SaveToFlash \/ Reload \/ Recache
  <2>1. pc \in DOMAIN BlockAt /\ pc' = After[pc]
    BY <1>8, <1>10 DEF SaveToFlash, Reload, Recache, InSave, TypeInv, ControlOK
  <2>2. pc = s
    BY <1>2, <2>1
  <2>3. SaveSucceeds(s)
    <3>1. faults \in Nat
      BY SubjectsAssumption DEF TypeInv, BlocksOK
    <3>2. ~Recache
      BY <3>1 DEF Recache, InSave, RestoreEnds, FlagInv, Good
    <3> QED BY <1>1, <1>8, <1>10, <2>2, <3>2 DEF SaveToFlash, Reload
  <2> QED BY <1>1, <2>2, <2>3, OwnBlock, Written
<1>11. ~ \/ \E t \in Subjects : SetValue(t)
         \/ Update \/ SaveLogDataTimer \/ DelayAlarmLogTimer \/ SaveLogSeriesToFlash
         \/ (\E f \in BootCalls : Boot(f)) \/ UNCHANGED vars
  BY <1>8 DEF SetValue, Update, SaveLogDataTimer, DelayAlarmLogTimer, SaveLogSeriesToFlash, Boot, vars
<1> QED
  BY <1>3, <1>4, <1>5, <1>6, <1>7, <1>9, <1>10, <1>11 DEF Next, ConfigTask, Doit

LEMMA NextCachedInv ==
  ASSUME TypeInv, TypeInv', FlagInv, NoChangeForgotten, KeptInv, [Next]_vars, Good', ~PowerCycle
  PROVE  CachedInv'
<1> SUFFICES ASSUME ret' = "signal", pc' # "drain", NEW s \in Kept PROVE owed'[s] <= cache'[s]
  BY DEF CachedInv
<1>1. powerDown /\ ~PowerDown
  <2>1. pc = "final" \/ ret = "signal" => powerDown
    BY GoodSteps DEF KeptInv, DownInv
  <2> QED BY <2>1, Returns DEF Final, At, PowerDown
<1>2. owed'[s] = owed[s] /\ owed[s] <= subject[s] /\ owed[s] \in Nat /\ cache[s] \in Nat
      /\ (cache'[s] = cache[s] \/ cache'[s] = subject[s])
  BY <1>1, OwedSteps, GoodSteps, DataSteps, KeptTypes DEF KeptInv, OwedInv
<1>3. CASE ret = "signal" /\ pc # "drain"
  <2>1. owed[s] <= cache[s]
    BY <1>3, GoodSteps DEF KeptInv, CachedInv
  <2> QED BY <1>2, <2>1
<1>4. CASE ~(ret = "signal" /\ pc # "drain")
  <2>1. queue = <<>>
    <3>1. CASE ret # "signal"
      BY <3>1, Returns DEF Final, Goto
    <3>2. CASE pc = "drain"
      BY <3>2, LeavesDrain
    <3> QED BY <1>4, <3>1, <3>2
  <2>2. owed[s] <= cache[s]
    BY <1>2, <2>1, GoodSteps DEF KeptInv, QueuedInv
  <2> QED BY <1>2, <2>2
<1> QED BY <1>3, <1>4

LEMMA NextFlashedInv ==
  ASSUME TypeInv, TypeInv', FlagInv, NoChangeForgotten, KeptInv, [Next]_vars, Good', ~PowerCycle, SavedInv
  PROVE  FlashedInv'
<1> SUFFICES ASSUME ret' = "signal", NEW s \in Kept, s \in Settings \/ inTime', pc' \notin Awaits[s]
             PROVE  owed'[s] <= Stored(s)'
  BY DEF FlashedInv
<1>1. powerDown /\ ~PowerDown
  <2>1. pc = "final" \/ ret = "signal" => powerDown
    BY GoodSteps DEF KeptInv, DownInv
  <2> QED BY <2>1, Returns DEF Final, At, PowerDown
<1>2. /\ owed'[s] = owed[s] /\ inTime' = inTime /\ owed[s] \in Nat
      /\ cache[s] \in Nat /\ Stored(s) \in Nat
      /\ (Stored(s)' = Stored(s) \/ Stored(s)' = cache[s])
  BY <1>1, OwedSteps, DataSteps, KeptTypes
<1>3. /\ s \in {"config", "gsc", "noBoot", "log"} /\ s \in Subjects \ Series /\ BlockOf[s] = s
      /\ "drain" \in Awaits[s] /\ "signal" \notin Awaits[s]
  BY KeptSubjects DEF Awaits, Unsaved
<1>4. ~modified[s] => cache[s] = Stored(s)
  BY <1>3, GoodSteps, AllRemembered DEF Remembered
<1>5. CASE ret = "signal"
  <2>1. pc # "drain" => owed[s] <= cache[s]
    BY <1>5, GoodSteps DEF KeptInv, CachedInv
  <2>2. CASE pc \notin Awaits[s]
    <3>1. owed[s] <= Stored(s)
      BY <1>2, <1>5, <2>2, GoodSteps DEF KeptInv, FlashedInv
    <3> QED BY <1>2, <1>3, <2>1, <2>2, <3>1
  <2>3. CASE pc \in Awaits[s]
    <3>1. pc = s /\ (~modified[s] \/ Stored(s)' = cache[s])
      BY <1>1, <2>3, LeavesAwaits
    <3> QED BY <1>2, <1>3, <1>4, <2>1, <3>1
  <2> QED BY <2>2, <2>3
<1>6. CASE ret # "signal"
  <2>1. Final
    BY <1>6, Returns
  <2>2. queue = <<>> /\ pc = "final" /\ Stored(s)' = Stored(s)
    BY <1>3, <2>1 DEF Final, At, Goto, blocks, Stored, StoredIn
  <2>3. owed[s] <= cache[s]
    BY <1>2, <2>2, GoodSteps DEF KeptInv, QueuedInv
  <2>4. CASE ret = "none"
    BY <1>2, <2>2, <2>3, <2>4, GoodSteps DEF KeptInv, LoadedInv
  <2>5. CASE ret = "end"
    <3>1. "final" \notin BeforeLogTest \cup {"log"}
      BY DEF BeforeLogTest
    <3>2. s = "log" => ~modified[s]
      BY <1>2, <2>2, <2>5, <3>1, KeptSubjects, GoodSteps DEF KeptInv, LogInv
    <3>3. s # "log" => ~modified[s]
      BY <1>3, <2>2, <2>5 DEF SavedInv, Unsaved
    <3> QED BY <1>2, <1>4, <2>2, <2>3, <3>2, <3>3
  <2> QED BY <1>6, <2>4, <2>5 DEF TypeInv, ControlOK
<1> QED BY <1>5, <1>6

(* PowerDownKeepsData, of an instance whose queue is never full.            *)
THEOREM PowerDownIsSafe == Spec /\ [](Len(queue) < QueueSize) => []PowerDownKeepsData
<1> DEFINE Inv == TypeInv /\ FlagInv /\ SavedInv /\ NoChangeForgotten /\ KeptInv
<1>1. TypeInv' /\ Inv /\ Room /\ [Next]_vars => KeptInv'
  <2> SUFFICES ASSUME TypeInv', Inv, Room, [Next]_vars, ~PowerCycle, Good'
               PROVE  /\ OwedInv' /\ DownInv' /\ QueuedInv' /\ LoadedInv'
                      /\ LogInv' /\ CachedInv' /\ FlashedInv'
    BY CycleKept DEF KeptInv
  <2> QED
    BY NextOwedInv, NextDownInv, NextQueuedInv, NextLoadedInv, NextLogInv, NextCachedInv, NextFlashedInv
<1>2. KeptInv => PowerDownKeepsData
  <2> SUFFICES ASSUME KeptInv, Good, pc = "down", NEW s \in Kept, s \in Settings \/ inTime
               PROVE  Stored(s) >= owed[s]
    BY DEF PowerDownKeepsData, Kept, Good
  <2>1. pc \notin Awaits[s]
    BY KeptSubjects DEF Awaits, Unsaved
  <2> QED BY <2>1 DEF KeptInv, DownInv, FlashedInv
<1>3. Spec /\ [](Len(queue) < QueueSize) => []NoChangeForgotten
  BY ChangesAreRemembered
<1>4. Len(queue) < QueueSize <=> Room
  BY DEF Room
<1>5. Init => SavedInv
  BY InitWork
<1> QED
  BY <1>1, <1>2, <1>3, <1>4, <1>5, InitTypeInv, NextTypeInv, InitFlagInv, NextFlagInv, NextSavedInv,
     InitKept, PTL DEF Spec

-----------------------------------------------------------------------------
(* A factory boot: once ConfigTask has executed it, and until power goes    *)
(* down, it is not near a save.                                             *)
BootedInv == ~okToSave /\ ~executeBoot /\ ~powerDown => pc \in Erasing \cup {"ok", "test", "wait", "exec"}

LEMMA NextBootedInv == TypeInv /\ BootedInv /\ [Next]_vars => BootedInv'
<1> SUFFICES ASSUME TypeInv, BootedInv, [Next]_vars PROVE BootedInv'
  OBVIOUS
<1> USE DEF BootedInv, Erasing
<1>1. CASE Test \/ Wait \/ Exec \/ Ok
  BY <1>1 DEF Test, Wait, Exec, Ok, At, Goto, callers
<1>2. CASE Start \/ End \/ Final \/ Signal
  BY <1>2 DEF Start, End, Final, Signal, At, Goto, callers
<1>3. CASE SkipErase \/ Erase
  <2>1. pc' \in {"eraseLog", "eraseGsc", "ok"}
    BY <1>3, Tables DEF SkipErase, Erase, Goto, AfterErase
  <2> QED BY <2>1
<1>4. CASE DrainAlarmLog \/ DrainSubject \/ Drained \/ AlarmLog \/ LogTest \/ LogSeries
  BY <1>4 DEF DrainAlarmLog, DrainSubject, Drained, AlarmLog, LogTest, LogSeries, At, Goto, callers
<1>5. CASE User1 \/ User1Done \/ User2 \/ User2Done
  BY <1>5 DEF User1, User1Done, User2, User2Done, At, Goto, callers
<1>6. CASE SaveBlock \/ SaveToFlash \/ Reload \/ Recache
  <2>1. pc \in DOMAIN BlockAt /\ UNCHANGED <<okToSave, executeBoot, powerDown>>
    BY <1>6 DEF SaveBlock, SaveToFlash, Reload, Recache, InSave, Goto, callers, flags, TypeInv, ControlOK
  <2> QED BY <2>1, Tables
<1>7. CASE \/ \E s \in Subjects : SetValue(s)
           \/ Update \/ SaveLogDataTimer \/ DelayAlarmLogTimer \/ SaveLogSeriesToFlash \/ PowerDown
           \/ (\E f \in BootCalls : Boot(f)) \/ UNCHANGED vars
  BY <1>7 DEF SetValue, Update, SaveLogDataTimer, DelayAlarmLogTimer, SaveLogSeriesToFlash,
     PowerDown, Boot, flags, vars
<1>8. CASE PowerCycle
  BY <1>8 DEF PowerCycle
<1> QED BY <1>1, <1>2, <1>3, <1>4, <1>5, <1>6, <1>7, <1>8 DEF Next, ConfigTask, Doit

(* BootKeepsErased: no block that a factory boot has erased is written again *)
(* before the restart.                                                      *)
THEOREM BootedBlocksStayErased == Spec => BootKeepsErased
<1>1. Init => BootedInv
  BY DEF Init, BootedInv
<1>2. ASSUME TypeInv, BootedInv, [Next]_vars, NEW b \in Blocks,
             Booted, flash[b] = NONE, ~powerDown, Booted'
      PROVE  flash'[b] = NONE
  <2>1. pc \notin DOMAIN BlockAt /\ step = "none"
    BY <1>2, Tables DEF BootedInv, Booted, Erasing, TypeInv, ControlOK
  <2>2. ~SaveToFlash /\ ~Recache /\ ~Reload
    BY <2>1 DEF SaveToFlash, Recache, Reload, InSave
  <2>3. ~PowerCycle
    BY <1>2 DEF PowerCycle, Booted
  <2>4. ~Erase
    BY <1>2, Tables DEF Erase, Booted
  <2>5. flash' = flash
    BY <1>2, <2>2, <2>3, <2>4 DEF Next, ConfigTask, Doit, blocks, vars, Start, Test, Wait, Exec,
       Ok, End, Final, Signal, SkipErase, DrainAlarmLog, DrainSubject, Drained, AlarmLog, LogTest,
       LogSeries, SaveBlock, User1, User1Done, User2, User2Done, SetValue, Update,
       SaveLogDataTimer, DelayAlarmLogTimer, SaveLogSeriesToFlash, Boot, PowerDown
  <2> QED BY <1>2, <2>5
<1>3. TypeInv /\ BootedInv /\ [Next]_vars =>
        [\A b \in Blocks : Booted /\ flash[b] = NONE /\ ~powerDown /\ Booted' => flash'[b] = NONE]_vars
  BY <1>2
<1> QED
  BY <1>1, <1>3, InitTypeInv, NextTypeInv, NextBootedInv, PTL DEF Spec, BootKeepsErased

-----------------------------------------------------------------------------
(* The hardware-error alarm agrees with the error flags from CheckAlarmFlags *)
(* to the next save.                                                        *)
ShownInv ==
  okToSave /\ ret = "end" /\ (pc = "wait" \/ (pc = "test" /\ ~powerDown)) =>
    (fault <=> \E b \in Blocks : errors[b] # {})

StartInv == pc \in {"start", "bootConfig", "bootNoBoot"} => ret = "none"

LEMMA NextStartInv == TypeInv /\ StartInv /\ [Next]_vars => StartInv'
<1> SUFFICES ASSUME TypeInv, StartInv, [Next]_vars PROVE StartInv'
  OBVIOUS
<1> USE DEF StartInv
<1>1. CASE Start
  BY <1>1 DEF Start, At
<1>2. CASE Test \/ Wait \/ Exec \/ Ok \/ End \/ Final \/ Signal
  BY <1>2 DEF Test, Wait, Exec, Ok, End, Final, Signal, Goto
<1>3. CASE SkipErase \/ Erase
  BY <1>3, Tables DEF SkipErase, Erase, Goto, AfterErase
<1>4. CASE DrainAlarmLog \/ DrainSubject \/ Drained \/ AlarmLog \/ LogTest \/ LogSeries
  BY <1>4 DEF DrainAlarmLog, DrainSubject, Drained, AlarmLog, LogTest, LogSeries, Goto
<1>5. CASE User1 \/ User1Done \/ User2 \/ User2Done
  <2>1. ret # "none"
    BY <1>5 DEF User1, User1Done, User2, User2Done, At, TypeInv, ControlOK, DoitLabels
  <2> QED BY <1>5, <2>1 DEF User1, User1Done, User2, User2Done, Goto, TypeInv, ControlOK
<1>6. CASE SaveBlock \/ SaveToFlash \/ Reload \/ Recache
  <2>1. pc \in DOMAIN BlockAt /\ pc' \in {pc, After[pc]} /\ ret' = ret
    BY <1>6 DEF SaveBlock, SaveToFlash, Reload, Recache, InSave, Goto, TypeInv, ControlOK
  <2>2. After[pc] \in {"start", "bootConfig", "bootNoBoot"} => pc = "bootConfig"
    BY <2>1, Tables DEF After
  <2> QED BY <2>1, <2>2
<1>7. CASE \/ \E s \in Subjects : SetValue(s)
           \/ Update \/ SaveLogDataTimer \/ DelayAlarmLogTimer \/ SaveLogSeriesToFlash \/ PowerDown
           \/ (\E f \in BootCalls : Boot(f)) \/ UNCHANGED vars
  BY <1>7 DEF SetValue, Update, SaveLogDataTimer, DelayAlarmLogTimer, SaveLogSeriesToFlash,
     PowerDown, Boot, vars
<1>8. CASE PowerCycle
  BY <1>8 DEF PowerCycle
<1> QED BY <1>1, <1>2, <1>3, <1>4, <1>5, <1>6, <1>7, <1>8 DEF Next, ConfigTask, Doit

LEMMA NextShownInv == TypeInv /\ StartInv /\ ShownInv /\ [Next]_vars => ShownInv'
<1> SUFFICES ASSUME TypeInv, StartInv, ShownInv, [Next]_vars, ~PowerCycle, okToSave', ret' = "end",
                    pc' = "wait" \/ (pc' = "test" /\ ~powerDown')
             PROVE  (fault <=> \E b \in Blocks : errors[b] # {})'
  BY DEF ShownInv, PowerCycle
<1>1. CASE End
  BY <1>1 DEF End, CheckAlarmFlags, Goto, callers, blocks
<1>2. CASE Test
  <2>1. UNCHANGED <<fault, errors, okToSave, ret>> /\ pc = "test" /\ ~powerDown
    BY <1>2 DEF Test, At, Goto, callers, blocks
  <2> QED BY <2>1 DEF ShownInv
<1>3. CASE Start \/ Wait \/ Exec \/ Ok \/ Final \/ Signal
  BY <1>3 DEF Start, Wait, Exec, Ok, Final, Signal, Goto, callers
<1>4. CASE SkipErase \/ Erase
  BY <1>4, Tables DEF SkipErase, Erase, Goto, AfterErase
<1>5. CASE Doit
  <2>1. CASE DrainAlarmLog \/ DrainSubject \/ Drained \/ AlarmLog \/ LogTest \/ LogSeries
    BY <2>1 DEF DrainAlarmLog, DrainSubject, Drained, AlarmLog, LogTest, LogSeries, Goto
  <2>2. CASE User1 \/ User1Done \/ User2 \/ User2Done
    BY <2>2 DEF User1, User1Done, User2, User2Done, Goto
  <2>3. CASE SaveBlock
    <3>1. pc \in DOMAIN BlockAt /\ pc' \in {pc, After[pc]} /\ ret' = ret
      BY <2>3 DEF SaveBlock, Goto
    <3>2. pc # "bootNoBoot"
      <4>1. pc = "bootNoBoot" => step' = "program" /\ pc' = pc
        BY <2>3 DEF SaveBlock, Always
      <4> QED BY <4>1
    <3> QED BY <3>1, <3>2, Tables DEF After
  <2> QED BY <1>5, <2>1, <2>2, <2>3 DEF Doit
<1>6. CASE SaveToFlash \/ Reload \/ Recache
  <2>1. pc \in DOMAIN BlockAt /\ pc' \in {pc, After[pc]} /\ ret' = ret
    BY <1>6 DEF SaveToFlash, Reload, Recache, InSave, TypeInv, ControlOK
  <2>2. pc = "bootNoBoot"
    BY <2>1, Tables DEF After
  <2> QED BY <2>1, <2>2 DEF StartInv
<1>7. CASE \/ \E s \in Subjects : SetValue(s)
           \/ Update \/ SaveLogDataTimer \/ DelayAlarmLogTimer \/ SaveLogSeriesToFlash \/ UNCHANGED vars
  <2>1. UNCHANGED <<fault, errors, okToSave, ret, pc, powerDown>>
    BY <1>7 DEF SetValue, Update, SaveLogDataTimer, DelayAlarmLogTimer, SaveLogSeriesToFlash,
       blocks, flags, vars
  <2> QED BY <2>1 DEF ShownInv
<1>8. CASE PowerDown
  <2>1. UNCHANGED <<fault, errors, okToSave, ret, pc>> /\ powerDown'
    BY <1>8 DEF PowerDown, blocks
  <2> QED BY <2>1 DEF ShownInv
<1>9. ASSUME NEW f \in BootCalls PROVE ~Boot(f)
  BY DEF Boot
<1> QED
  BY <1>1, <1>2, <1>3, <1>4, <1>5, <1>6, <1>7, <1>8, <1>9 DEF Next, ConfigTask

(* AlarmShowsErrors.                                                        *)
THEOREM AlarmAgreesWithErrors == Spec => []AlarmShowsErrors
<1>1. Init => StartInv /\ ShownInv
  BY DEF Init, StartInv, ShownInv
<1>2. ShownInv => AlarmShowsErrors
  BY DEF ShownInv, AlarmShowsErrors
<1> QED
  BY <1>1, <1>2, InitTypeInv, NextTypeInv, NextStartInv, NextShownInv, PTL DEF Spec

-----------------------------------------------------------------------------
(* The two blocks of the log series.  A copy that is not yet in flash has   *)
(* marked its block, and the task is at the save of the first block, or the *)
(* second is still announced in mNextLogBlockToSave.                        *)
Unwritten(s) == cache[s] # Stored(s)

SeriesInv ==
  Good => \A s \in Series : Unwritten(s) =>
    /\ modified[BlockOf[s]]
    /\ BlockOf[s] = "userLog1" => pc = "saveUser1"
    /\ BlockOf[s] = "userLog2" => nextLog \in {UserLog1, UserLog2} /\ pc # "user2Done"

LEMMA SeriesSteps ==
  ASSUME TypeInv, FlagInv, [Next]_vars, Good', ~PowerCycle
  PROVE  /\ pc = "saveUser1" /\ pc' # pc => ~modified["userLog1"] \/ SaveSucceeds("userLog1")
         /\ pc' = "user2Done" /\ pc' # pc => ~modified["userLog2"] \/ SaveSucceeds("userLog2")
         /\ nextLog' \in {nextLog, UserLog1, UserLog2} \/ pc = "user2Done"
<1> USE DEF TypeInv, ControlOK
<1>1. CASE Start \/ Test \/ Wait \/ Exec \/ Ok \/ End \/ Final \/ Signal
  BY <1>1 DEF Start, Test, Wait, Exec, Ok, End, Final, Signal, At, Goto
<1>2. CASE SkipErase \/ Erase
  <2>1. pc \in DOMAIN BootFlagAt /\ pc' = AfterErase[pc] /\ nextLog' = nextLog
    BY <1>2 DEF SkipErase, Erase, Goto
  <2> QED BY <2>1, Tables DEF AfterErase
<1>3. CASE DrainAlarmLog \/ DrainSubject \/ Drained \/ AlarmLog \/ LogTest \/ LogSeries
  BY <1>3 DEF DrainAlarmLog, DrainSubject, Drained, AlarmLog, LogTest, LogSeries, At, Goto
<1>4. CASE User1 \/ User1Done \/ User2 \/ User2Done
  <2>1. pc \in {"user1", "user1Done", "user2", "user2Done"}
        /\ pc' \in {"saveUser1", "user2", "saveUser2", ret}
        /\ (nextLog' \in {nextLog, UserLog1, UserLog2} \/ pc = "user2Done")
    BY <1>4 DEF User1, User1Done, User2, User2Done, At, Goto
  <2> QED BY <2>1
<1>5. CASE SaveBlock
  <2>1. pc \in DOMAIN BlockAt /\ (pc' = pc \/ (pc' = After[pc] /\ ~modified[BlockAt[pc]])) /\ nextLog' = nextLog
    BY <1>5 DEF SaveBlock, Goto
  <2> QED BY <2>1, Tables DEF After, BlockAt
<1>6. CASE SaveToFlash \/ Reload \/ Recache
  <2>1. pc \in DOMAIN BlockAt /\ pc' \in {pc, After[pc]} /\ nextLog' = nextLog
    BY <1>6 DEF SaveToFlash, Reload, Recache, InSave
  <2>2. faults \in Nat
    BY SubjectsAssumption DEF BlocksOK
  <2>3. ~Recache
    BY <2>2 DEF Recache, InSave, RestoreEnds, FlagInv, Good
  <2>4. pc' # pc => SaveSucceeds(BlockAt[pc])
    BY <1>6, <2>3 DEF SaveToFlash, Reload
  <2> QED BY <2>1, <2>4, Tables DEF After, BlockAt
<1>7. CASE \/ \E s \in Subjects : SetValue(s)
           \/ Update \/ SaveLogDataTimer \/ DelayAlarmLogTimer \/ SaveLogSeriesToFlash \/ PowerDown
           \/ (\E f \in BootCalls : Boot(f)) \/ UNCHANGED vars
  BY <1>7 DEF SetValue, Update, SaveLogDataTimer, DelayAlarmLogTimer, SaveLogSeriesToFlash,
     PowerDown, Boot, vars
<1> QED BY <1>1, <1>2, <1>3, <1>4, <1>5, <1>6, <1>7 DEF Next, ConfigTask, Doit

LEMMA NextSeriesInv == TypeInv /\ FlagInv /\ SeriesInv /\ [Next]_vars => SeriesInv'
<1> SUFFICES ASSUME TypeInv, FlagInv, SeriesInv, [Next]_vars, Good', NEW s \in Series, Unwritten(s)'
             PROVE  /\ modified'[BlockOf[s]]
                    /\ BlockOf[s] = "userLog1" => pc' = "saveUser1"
                    /\ BlockOf[s] = "userLog2" => nextLog' \in {UserLog1, UserLog2} /\ pc' # "user2Done"
  BY DEF SeriesInv
<1>0. s \in Subjects /\ BlockOf[s] \in {"userLog1", "userLog2"}
  BY DEF Series, BlockOf
<1>1. ~PowerCycle
  BY <1>0, Loaded DEF Unwritten
<1>2. Good
  BY <1>1, GoodSteps
<1>3. Unwritten(s) =>
        /\ modified[BlockOf[s]]
        /\ BlockOf[s] = "userLog1" => pc = "saveUser1"
        /\ BlockOf[s] = "userLog2" => nextLog \in {UserLog1, UserLog2} /\ pc # "user2Done"
  BY <1>2 DEF SeriesInv
(* The copy was taken before this step, or is taken by it.                  *)
<1>4. CASE Unwritten(s) /\ modified'[BlockOf[s]]
  <2>1. ~SaveSucceeds(BlockOf[s])
    <3>1. BlockOf[s] \in Blocks
      BY <1>0 DEF Blocks
    <3> QED BY <1>0, <1>4, <3>1, Written
  <2> QED BY <1>1, <1>3, <1>4, <2>1, SeriesSteps
<1>5. CASE User1 /\ nextLog = UserLog1 /\ queue = <<>>
  <2>1. /\ pc' = "saveUser1" /\ nextLog' = UserLog1 /\ UNCHANGED <<subject, flash>>
        /\ SaveToCache(Series)
    BY <1>5 DEF User1, Goto
  <2>2. modified'[BlockOf[s]]
    BY <1>0, <1>3, <1>5, <2>1, Copied DEF Unwritten
  <2> QED BY <2>1, <2>2 DEF UserLog1
<1>6. ASSUME ~(User1 /\ nextLog = UserLog1 /\ queue = <<>>)
      PROVE  Unwritten(s) /\ modified'[BlockOf[s]]
  <2>1. CASE UNCHANGED <<cache, modified, flash>>
    BY <1>3, <2>1 DEF Unwritten, Stored, StoredIn
  <2>2. CASE DrainSubject
    <3>1. SaveToCache({Head(queue)}) /\ UNCHANGED <<subject, flash>> /\ Head(queue) \in Subjects \ Series
      BY <2>2, HeadTailProperties DEF DrainSubject, TypeInv, QueueOK
    <3> QED BY <1>0, <1>3, <3>1, Copied DEF Unwritten
  <2>3. CASE AlarmLog
    <3>1. UNCHANGED <<subject, flash>> /\ s \notin {"alarmLog"}
      BY <2>3 DEF AlarmLog, Series
    <3>2. SaveToCache({"alarmLog"} \cap Subjects) \/ UNCHANGED <<cache, modified>>
      BY <2>3 DEF AlarmLog
    <3> QED BY <1>0, <1>3, <2>1, <3>1, <3>2, Copied DEF Unwritten
  <2>4. CASE pc \in DOMAIN BlockAt /\ SaveSucceeds(BlockAt[pc])
    <3>1. BlockAt[pc] \in Blocks /\ cache' = cache
      BY <2>4, Tables DEF SaveSucceeds
    <3> QED BY <1>0, <1>3, <2>4, <3>1, Written DEF Unwritten
  <2>5. SetValue(s) \/ Update \/ DrainAlarmLog => UNCHANGED <<cache, modified, flash>>
    BY DEF SetValue, Update, DrainAlarmLog, blocks
  <2>6. ASSUME NEW t \in Subjects, SetValue(t) PROVE UNCHANGED <<cache, modified, flash>>
    BY <2>6 DEF SetValue
  <2>7. User1 => UNCHANGED <<cache, modified, flash>>
    BY <1>6 DEF User1
  <2> QED BY <1>1, <2>1, <2>2, <2>3, <2>4, <2>5, <2>6, <2>7, GoodSteps
<1> QED BY <1>4, <1>5, <1>6

(* UserLogsInSync.                                                          *)
THEOREM LogSeriesAreInSync == Spec => []UserLogsInSync
<1>1. Init => SeriesInv
  <2>1. ASSUME Init, NEW s \in Series PROVE cache[s] = Stored(s)
    <3>1. s \in Subjects /\ BlockOf[s] \in Blocks
      BY OwnBlock DEF Series
    <3> QED BY <2>1, <3>1 DEF Init, InitBlocks, Stored, StoredIn
  <2> QED BY <2>1 DEF SeriesInv, Unwritten
<1>2. SeriesInv => UserLogsInSync
  <2>1. ASSUME NEW s \in Series PROVE BlockOf[s] \in {"userLog1", "userLog2"}
    BY DEF Series, BlockOf
  <2>2. LogBlock \notin {UserLog1, UserLog2}
    BY DEF LogBlock, UserLog1, UserLog2
  <2> QED BY <2>1, <2>2 DEF SeriesInv, UserLogsInSync, Unwritten, Good
<1> QED
  BY <1>1, <1>2, InitTypeInv, NextTypeInv, InitFlagInv, NextFlagInv, NextSeriesInv, PTL DEF Spec

=============================================================================

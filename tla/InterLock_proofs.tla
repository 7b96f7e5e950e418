-------------------------- MODULE InterLock_proofs --------------------------
(***************************************************************************)
(* Proofs about the two pits, for all times, all delays below the time      *)
(* reserved for the telephone network, and any number of messages and       *)
(* events: locks are reminded of, released, end, and last.                  *)
(***************************************************************************)
EXTENDS InterLock, SequenceTheorems, TLAPS

-----------------------------------------------------------------------------
(* The inductive invariants.                                                *)

MasterInv ==
  /\ LockIsReminded
  /\ "timeout" \notin changed => recallTime = CalcInterLockRecallTime(timeoutPit)

LockInv ==
  /\ LockIsTimed
  /\ timerFlag => timer = Off

(* A reminder is due when the timer of the master is over.                  *)
UntilSent == IF recall = Stopped THEN 0 ELSE recall

(* The time to the arrival of the next message at the latest.               *)
Wait == IF net = <<>> THEN UntilSent + Delay ELSE Delay - net[1].age

(* All messages are on time and ask for a lock that lasts until the next.   *)
NetInv ==
  /\ \A i \in 1 .. Len(net) :
       /\ net[i].command = "INTERLOCK"
       /\ net[i].age <= Delay
       /\ net[i].time > Delay
  /\ net # <<>> => net[Len(net)].time > UntilSent + Delay

Agrees == ~ignore /\ "off" \notin updated /\ ("digIn" \in updated => digIn)

(* The lock of the other pit outlasts Wait, or is about to.                 *)
HeldInv ==
  /\ StaysLocked
  /\ locked /\ "request" \notin updated =>
       /\ timer > 0 /\ ~timerFlag
       /\ ~handled => timer > Wait

HoldInv ==
  hold # "no" =>
    /\ sent = "INTERLOCK"
    /\ NetInv /\ Agrees
    /\ hold = "held" \/ handled => timeout > Wait
    /\ hold = "held" => HeldInv

RecallInv == recallTime + Early <= Longest /\ UntilSent + Early <= Longest

-----------------------------------------------------------------------------
LEMMA GoneOne ==
  ASSUME NEW S, NEW s \in Seq(S), NEW i \in 1 .. Len(s)
  PROVE  /\ RemoveAt(s, i) \in Seq(S)
         /\ Len(RemoveAt(s, i)) = Len(s) - 1
         /\ \A j \in 1 .. Len(s) - 1 :
              RemoveAt(s, i)[j] = IF j < i THEN s[j] ELSE s[j + 1]
<1> DEFINE a == SubSeq(s, 1, i - 1)
           b == SubSeq(s, i + 1, Len(s))
<1>1. /\ a \in Seq(S) /\ Len(a) = i - 1
      /\ \A j \in 1 .. i - 1 : a[j] = s[j]
  BY SMT
<1>2. /\ b \in Seq(S) /\ Len(b) = Len(s) - i
      /\ \A j \in 1 .. Len(s) - i : b[j] = s[j + i]
  BY SMT
<1>3. RemoveAt(s, i) = a \o b
  BY DEF RemoveAt
<1> HIDE DEF a, b
<1>4. /\ a \o b \in Seq(S)
      /\ Len(a \o b) = Len(a) + Len(b)
      /\ \A j \in 1 .. Len(a) + Len(b) :
           (a \o b)[j] = IF j <= Len(a) THEN a[j] ELSE b[j - Len(a)]
  BY <1>1, <1>2, ConcatProperties, Zenon
<1> QED BY <1>1, <1>2, <1>3, <1>4, SMT

LEMMA OlderSeq ==
  ASSUME net \in Seq(Message(Nat))
  PROVE  /\ Older \in Seq(Message(Nat))
         /\ Len(Older) = Len(net)
         /\ \A i \in 1 .. Len(net) :
              /\ Older[i].command = net[i].command /\ Older[i].time = net[i].time
              /\ Older[i].age = IF net[i].age = Late THEN Late ELSE net[i].age + 1
<1> DEFINE e(i) == [net[i] EXCEPT !.age = IF @ = Late THEN Late ELSE @ + 1]
<1>1. ASSUME NEW i \in 1 .. Len(net)
      PROVE  /\ e(i) \in Message(Nat)
             /\ e(i).command = net[i].command /\ e(i).time = net[i].time
             /\ e(i).age = IF net[i].age = Late THEN Late ELSE net[i].age + 1
  <2> DEFINE r == net[i]
  <2>0. r \in Message(Nat)
    OBVIOUS
  <2>1. r \in [command : Command, time : Nat, age : 0 .. Late]
    BY <2>0, Zenon DEF Message
  <2> HIDE DEF r
  <2>2. [r EXCEPT !.age = IF @ = Late THEN Late ELSE @ + 1] = 
          [command |-> r.command, time |-> r.time,
           age |-> IF r.age = Late THEN Late ELSE r.age + 1]
    BY <2>1
  <2>3. Late \in Nat
    BY SmsNetAssumption DEF Late
  <2> QED BY <2>1, <2>2, <2>3 DEF Message, r
<1>2. Older = [i \in 1 .. Len(net) |-> e(i)]
  BY DEF Older
<1> HIDE DEF e
<1>3. [i \in 1 .. Len(net) |-> e(i)] \in Seq(Message(Nat))
  BY <1>1
<1>4. Len(Older) = Len(net)
  BY <1>2
<1> QED BY <1>1, <1>2, <1>3, <1>4

LEMMA MessageFields ==
  ASSUME net \in Seq(Message(Nat)), NEW i \in 1 .. Len(net)
  PROVE  net[i].command \in Command /\ net[i].time \in Nat /\ net[i].age \in 0 .. Late
<1> DEFINE r == net[i]
<1>1. r \in Message(Nat)
  OBVIOUS
<1>2. r \in [command : Command, time : Nat, age : 0 .. Late]
  BY <1>1, Zenon DEF Message
<1> HIDE DEF r
<1>3. r.command \in Command /\ r.time \in Nat /\ r.age \in 0 .. Late
  BY <1>2
<1> QED BY <1>3 DEF r

LEMMA Sent ==
  ASSUME net \in Seq(Message(Nat)), NEW c \in Command, NEW t \in Nat,
         SendSms(c, t), Len(net) <= MaxFlight
  PROVE  /\ net' \in Seq(Message(Nat)) /\ Len(net') <= MaxFlight
         /\ \/ Len(net) = MaxFlight /\ net' = net
            \/ /\ Len(net') = Len(net) + 1 /\ net' # net
               /\ net'[Len(net')] = [command |-> c, time |-> t, age |-> 0]
               /\ \A i \in 1 .. Len(net) : net'[i] = net[i]
<1> DEFINE m == [command |-> c, time |-> t, age |-> 0]
<1>1. m \in Message(Nat)
  BY SmsNetAssumption DEF Message, Late
<1>2. net' = IF Room THEN Append(net, m) ELSE net
  BY DEF SendSms
<1> HIDE DEF m
<1>3. CASE ~Room
  BY <1>2, <1>3, SmsNetAssumption DEF Room
<1>4. CASE Room
  <2>1. net' = Append(net, m) /\ Len(net) < MaxFlight
    BY <1>2, <1>4 DEF Room
  <2> QED BY <1>1, <2>1, SmsNetAssumption DEF m
<1> QED BY <1>3, <1>4

(* What a run of the master does.                                           *)
Sends(c) == SendSms(c, (timeoutPit \div Minute) * Minute) /\ sent' = c

LEMMA MasterRuns ==
  ASSUME MasterTypeOK, RunMaster
  PROVE  /\ masterRun' = recallFlag' /\ recallFlag' \in BOOLEAN
         /\ recallTime' = NewRecallTime /\ changed' \subseteq changed \ {"timeout"}
         /\ UNCHANGED <<levelAlarm, underLowest, enabled, timeoutPit>>
         /\ \/ /\ Sends("INTERLOCK") /\ state' = "ILMS_LOCKED" /\ recall' = NewRecallTime
               /\ state = "ILMS_LOCKED" => changed # {} \/ recallFlag
            \/ Sends("AUTO") /\ state' = "ILMS_UNLOCKED" /\ recall' = Stopped
            \/ /\ UNCHANGED <<recall, sent, net>>
               /\ state = "ILMS_LOCKED" => state' = state /\ ~recallFlag /\ changed = {}
               /\ state # "ILMS_LOCKED" => state' \in MasterState \ {"ILMS_LOCKED"}
<1>1. changed' \subseteq changed \ {"timeout"}
  BY DEF RunMaster, NotAsked, MasterTypeOK, Setting
<1>2. /\ masterRun' = recallFlag' /\ recallTime' = NewRecallTime
      /\ UNCHANGED <<levelAlarm, underLowest, enabled, timeoutPit>>
  BY DEF RunMaster
<1>3. CASE Unlocked
  BY <1>1, <1>2, <1>3 DEF Unlocked, Lock, Keep, Sends, SendInterLockSMS, MasterState
<1>4. CASE WantToLock
  BY <1>1, <1>2, <1>4 DEF WantToLock, Lock, Keep, Sends, SendInterLockSMS, MasterState
<1>5. CASE Release
  BY <1>1, <1>2, <1>5 DEF Release, FlagCleared, Sends, SendInterLockSMS
<1>6. CASE Remind
  BY <1>1, <1>2, <1>6
     DEF Remind, FlagCleared, Lock, Keep, Sends, SendInterLockSMS, MasterTypeOK
<1>7. CASE Lost
  BY <1>1, <1>2, <1>7 DEF Lost, Keep, MasterTypeOK, MasterState
<1> QED BY <1>3, <1>4, <1>5, <1>6, <1>7 DEF RunMaster

Whole(t) == (t \div Minute) * Minute

LEMMA WholeMinutes ==
  ASSUME NEW t \in PitTimeouts
  PROVE  Whole(t) \in Nat /\ Whole(t) <= t /\ t < Whole(t) + Minute
<1>1. t \in Nat /\ Minute \in Nat \ {0}
  BY MasterAssumption
<1> DEFINE q == t \div Minute
           r == t % Minute
<1>2. q \in Nat /\ r \in 0 .. Minute - 1 /\ t = Minute * q + r
  BY <1>1
<1> HIDE DEF q, r
<1>3. q * Minute \in Nat /\ q * Minute = Minute * q
  BY <1>1, <1>2
<1> QED BY <1>1, <1>2, <1>3 DEF Whole, q

(* The reminder leaves the message before it enough time.                   *)
LEMMA RecallTimes ==
  ASSUME NEW t \in PitTimeouts
  PROVE  /\ CalcInterLockRecallTime(t) \in Nat
         /\ CalcInterLockRecallTime(t) + Early <= Longest
         /\ CalcInterLockRecallTime(t) + Delay < Whole(t)
         /\ Delay < Whole(t)
<1>1. t \in Nat /\ Early + MinRecall <= t /\ t <= Longest /\ Early \in Nat
      /\ MinRecall \in Nat /\ Longest \in Nat /\ Delay \in Nat /\ Minute \in Nat
      /\ Delay + Minute <= Early
  BY MasterAssumption, TimesAssumption, InterLockedAssumption, SmsNetAssumption
<1>2. CalcInterLockRecallTime(t) = t - Early
  BY <1>1 DEF CalcInterLockRecallTime
<1> QED BY <1>1, <1>2, WholeMinutes

LEMMA MasterRunTypes ==
  ASSUME TypeOK, RunMaster
  PROVE  MasterTypeOK' /\ net' \in Seq(Message(Nat)) /\ Len(net') <= MaxFlight
<1>1. MasterTypeOK /\ net \in Seq(Message(Nat)) /\ Len(net) <= MaxFlight
  BY DEF TypeOK
<1>2. timeoutPit \in PitTimeouts
  BY <1>1 DEF MasterTypeOK
<1>3. NewRecallTime \in Nat
  BY <1>1, <1>2, RecallTimes DEF MasterTypeOK, NewRecallTime
<1>4. Whole(timeoutPit) \in Nat
  BY <1>2, WholeMinutes
<1>5. net' \in Seq(Message(Nat)) /\ Len(net') <= MaxFlight
  BY <1>1, <1>4, MasterRuns, Sent DEF Sends, Whole, Command
<1>6. MasterTypeOK'
  BY <1>1, <1>3, MasterRuns DEF MasterTypeOK, MasterState, Command, Sends, Stopped
<1> QED BY <1>5, <1>6

LEMMA TypeInit == Init => TypeOK
<1> SUFFICES ASSUME Init PROVE TypeOK
  OBVIOUS
<1>1. MasterTypeOK
  BY RecallTimes, MasterAssumption DEF Init, MasterInit, MasterTypeOK
<1>2. LockTypeOK
  BY InterLockedAssumption DEF Init, LockInit, LockTypeOK
<1>3. net \in Seq(Message(Nat)) /\ Len(net) <= MaxFlight
  BY SmsNetAssumption DEF Init
<1>4. handled = FALSE /\ hold = "no" /\ inputs = 0 /\ 0 \in 0 .. MaxInputs
  BY InterLockBounds DEF Init
<1> QED BY <1>1, <1>2, <1>3, <1>4 DEF TypeOK

LEMMA TypeStep == TypeOK /\ [Next]_vars => TypeOK'
<1> SUFFICES ASSUME TypeOK, [Next]_vars PROVE TypeOK'
  OBVIOUS
<1> DEFINE NetType == net \in Seq(Message(Nat)) /\ Len(net) <= MaxFlight
<1> DEFINE RestType == handled \in BOOLEAN /\ inputs \in 0 .. MaxInputs
                       /\ hold \in {"no", "sent", "held"}
<1>0. MasterTypeOK /\ LockTypeOK /\ NetType /\ RestType
  BY DEF TypeOK
<1> SUFFICES MasterTypeOK' /\ LockTypeOK' /\ NetType' /\ RestType'
  BY DEF TypeOK
<1>1. CASE Master
  BY <1>0, <1>1, MasterRunTypes DEF Master, lockVars, LockTypeOK, HoldOfMaster
<1>2. CASE Locked
  BY <1>0, <1>2, InterLockedAssumption
     DEF Locked, RunLock, NewTimer, Holds, masterVars, MasterTypeOK, LockTypeOK, Off,
         OnRequest, OffRequest, Released, DigInOn, DigInOff, Subject
<1>3. CASE TimeOut
  BY <1>0, <1>3 DEF TimeOut, RecallTimeOut, LockTimeOut, masterVars, lockVars,
                    MasterTypeOK, LockTypeOK, Stopped, Off
<1>4. CASE Tick
  BY <1>0, <1>4, OlderSeq, InterLockBounds
     DEF Tick, Left, MasterTypeOK, LockTypeOK, Stopped, Off
<1>5. CASE \E i \in DOMAIN net : HandleSmsIn(i) \/ Lose(i)
  <2>1. PICK i \in DOMAIN net : HandleSmsIn(i) \/ Lose(i)
    BY <1>5
  <2>2. i \in 1 .. Len(net) /\ net[i].time \in Nat
    BY <1>0, MessageFields
  <2>3. NetType'
    BY <1>0, <2>1, <2>2, GoneOne, SmsNetAssumption DEF HandleSmsIn, Lose, Gone
  <2> QED
    BY <1>0, <2>1, <2>2, <2>3
       DEF HandleSmsIn, Lose, SetEvent, SetTimeout, Notified, HoldOf, masterVars, lockVars,
           MasterTypeOK, LockTypeOK, Subject
<1>6. CASE HandleSmsEnd
  BY <1>0, <1>6 DEF HandleSmsEnd, SetEvent, Notified, masterVars, MasterTypeOK,
                    LockTypeOK, Subject
<1>7. CASE MasterInput
  <2>1. inputs' \in 0 .. MaxInputs /\ UNCHANGED <<lockVars, handled, hold, net>>
    BY <1>0, <1>7, InterLockBounds
       DEF MasterInput, Input, MasterUpdate, SetPitTimeout, SetPitSetting
  <2>2. LockTypeOK' /\ NetType' /\ RestType'
    BY <1>0, <2>1 DEF lockVars, LockTypeOK
  <2>3. MasterTypeOK'
    BY <1>0, <1>7
       DEF MasterInput, MasterUpdate, SetPitTimeout, SetPitSetting, Setting, MasterTypeOK
  <2> QED BY <2>2, <2>3
<1>8. CASE Request \/ DigIn \/ Disagree \/ OtherTime
  <2>1. /\ inputs' \in 0 .. MaxInputs /\ UNCHANGED <<masterVars, net, handled>>
        /\ hold' \in {"no", "sent", "held"}
    BY <1>0, <1>8, InterLockBounds DEF Request, DigIn, Disagree, OtherTime, Input
  <2>2. MasterTypeOK' /\ NetType' /\ RestType'
    BY <1>0, <2>1 DEF masterVars, MasterTypeOK
  <2>3. LockTypeOK'
    BY <1>0, <1>8, InterLockedAssumption
       DEF Request, DigIn, Disagree, OtherTime, SetEvent, SetDigIn, SetIgnore,
           SetTimeout, Notified, lockVars, LockTypeOK, Subject
  <2> QED BY <2>2, <2>3
<1>9. CASE MasterPower
  <2>1. inputs' \in 0 .. MaxInputs /\ UNCHANGED <<lockVars, handled, net>> /\ hold' = "no"
    BY <1>0, <1>9, InterLockBounds DEF MasterPower, Input
  <2>2. LockTypeOK' /\ NetType' /\ RestType'
    BY <1>0, <2>1 DEF lockVars, LockTypeOK
  <2>3. MasterTypeOK'
    BY <1>0, <1>9, RecallTimes DEF MasterPower, MasterStart, MasterTypeOK
  <2> QED BY <2>2, <2>3
<1>10. CASE LockPower
  <2>1. /\ inputs' \in 0 .. MaxInputs /\ UNCHANGED <<masterVars, net>> /\ handled' = FALSE
        /\ hold' \in {"no", "sent", "held"}
    BY <1>0, <1>10, InterLockBounds DEF LockPower, Input
  <2>2. MasterTypeOK' /\ NetType' /\ RestType'
    BY <1>0, <2>1 DEF masterVars, MasterTypeOK
  <2>3. LockTypeOK'
    BY <1>0, <1>10, InterLockedAssumption DEF LockPower, LockStart, LockTypeOK
  <2> QED BY <2>2, <2>3
<1>11. CASE UNCHANGED vars
  BY <1>0, <1>11 DEF vars, masterVars, lockVars, MasterTypeOK, LockTypeOK
<1> QED BY <1>1, <1>2, <1>3, <1>4, <1>5, <1>6, <1>7, <1>8, <1>9, <1>10, <1>11 DEF Next

(* All variables keep their types (InterLock and its two parts).            *)
THEOREM TypeCorrect == Spec => []TypeOK
  BY TypeInit, TypeStep, PTL DEF Spec

-----------------------------------------------------------------------------
(* The master.                                                              *)

LEMMA MasterInvInit == Init => MasterInv
  BY DEF Init, MasterInit, MasterInv, LockIsReminded

LEMMA MasterInvStep == TypeOK /\ MasterInv /\ [Next]_vars => MasterInv'
<1> SUFFICES ASSUME TypeOK, MasterInv, [Next]_vars PROVE MasterInv'
  OBVIOUS
<1> USE DEF MasterInv, LockIsReminded
<1>0. MasterTypeOK
  BY DEF TypeOK
<1>1. CASE RunMaster
  <2>1. NewRecallTime = CalcInterLockRecallTime(timeoutPit)
    BY DEF NewRecallTime
  <2>2. CalcInterLockRecallTime(timeoutPit) \in Nat
    BY <1>0, RecallTimes DEF MasterTypeOK
  <2> QED
    BY <1>0, <1>1, <2>1, <2>2, MasterRuns DEF Sends, Stopped, MasterState
<1>2. CASE RecallTimeOut
  BY <1>2 DEF RecallTimeOut, Stopped
<1>3. CASE Tick
  BY <1>0, <1>3 DEF Tick, Left, Stopped, MasterTypeOK
<1>4. CASE MasterInput
  BY <1>4 DEF MasterInput, MasterUpdate, SetPitTimeout, SetPitSetting, Setting
<1>5. CASE MasterPower
  BY <1>5 DEF MasterPower, MasterStart
<1>6. CASE UNCHANGED masterVars
  BY <1>6 DEF masterVars
<1> QED
  BY <1>1, <1>2, <1>3, <1>4, <1>5, <1>6
     DEF Next, vars, Master, Locked, TimeOut, HandleSmsIn, Lose, HandleSmsEnd, Request,
         DigIn, Disagree, OtherTime, LockPower

(* A lock that was the last message is reminded of, and one not wanted any  *)
(* longer is released and never reminded of again (LockIsReminded).         *)
THEOREM LocksAreReminded == Spec => []LockIsReminded
<1>1. MasterInv => LockIsReminded
  BY DEF MasterInv
<1> QED BY <1>1, TypeInit, TypeStep, MasterInvInit, MasterInvStep, PTL DEF Spec

-----------------------------------------------------------------------------
(* The other pit.                                                           *)

LEMMA LockInvInit == Init => LockInv
  BY DEF Init, LockInit, LockInv, LockIsTimed

LEMMA LockInvStep == TypeOK /\ LockInv /\ [Next]_vars => LockInv'
<1> SUFFICES ASSUME TypeOK, LockInv, [Next]_vars PROVE LockInv'
  OBVIOUS
<1> USE DEF LockInv, LockIsTimed
<1>0. LockTypeOK
  BY DEF TypeOK
<1>1. CASE RunLock
  <2>1. timeout' \in Nat /\ timerFlag' = FALSE /\ timer' = NewTimer /\ locked' = Holds
    BY <1>0, <1>1, InterLockedAssumption DEF RunLock, LockTypeOK
  <2>2. OnRequest \in BOOLEAN /\ Released \in BOOLEAN
    BY DEF OnRequest, Released
  <2> QED
    BY <1>0, <2>1, <2>2 DEF LockTypeOK, NewTimer, Holds, Off
<1>2. CASE LockTimeOut
  BY <1>2 DEF LockTimeOut, Off
<1>3. CASE Tick
  BY <1>0, <1>3 DEF Tick, Left, Off, LockTypeOK
<1>4. ASSUME NEW s, SetEvent(s) PROVE LockInv'
  BY <1>4 DEF SetEvent, Notified
<1>5. ASSUME NEW t, SetTimeout(t) PROVE LockInv'
  BY <1>5 DEF SetTimeout, Notified, lockVars
<1>6. CASE SetDigIn \/ SetIgnore
  BY <1>6 DEF SetDigIn, SetIgnore, Notified
<1>7. CASE LockPower
  BY <1>0, <1>7, InterLockedAssumption DEF LockPower, LockStart, LockTypeOK, Off
<1>8. CASE UNCHANGED lockVars
  BY <1>8 DEF lockVars
<1> QED
  BY <1>1, <1>2, <1>3, <1>4, <1>5, <1>6, <1>7, <1>8
     DEF Next, vars, Master, Locked, TimeOut, HandleSmsIn, Lose, HandleSmsEnd, MasterInput,
         Request, DigIn, Disagree, OtherTime, MasterPower

(* No lock of the other pit is without an end, and no timer is left to end  *)
(* a later lock (LockIsTimed).                                              *)
THEOREM LocksAreTimed == Spec => []LockIsTimed
<1>1. LockInv => LockIsTimed
  BY DEF LockInv
<1> QED BY <1>1, TypeInit, TypeStep, LockInvInit, LockInvStep, PTL DEF Spec

-----------------------------------------------------------------------------
(* Both.                                                                    *)

LEMMA RecallInvInit == Init => RecallInv
<1> SUFFICES ASSUME Init PROVE RecallInv
  OBVIOUS
<1>1. /\ timeoutPit \in PitTimeouts /\ recall = Stopped
      /\ recallTime = CalcInterLockRecallTime(timeoutPit)
  BY DEF Init, MasterInit
<1> QED BY <1>1, RecallTimes, MasterAssumption, InterLockedAssumption DEF RecallInv, UntilSent

LEMMA RecallInvStep == TypeOK /\ RecallInv /\ [Next]_vars => RecallInv'
<1> SUFFICES ASSUME TypeOK, RecallInv, [Next]_vars PROVE RecallInv'
  OBVIOUS
<1>0. MasterTypeOK /\ Longest \in Nat /\ Early \in Nat /\ Stopped = -1
  BY MasterAssumption, InterLockedAssumption DEF TypeOK, Stopped
<1> USE DEF RecallInv, UntilSent
<1>1. CASE RunMaster
  <2>1. NewRecallTime \in Nat /\ NewRecallTime + Early <= Longest
    BY <1>0, RecallTimes DEF NewRecallTime, MasterTypeOK
  <2>2. recallTime' = NewRecallTime /\ recall' \in {recall, NewRecallTime, Stopped}
    BY <1>0, <1>1, MasterRuns
  <2>3. Early <= Longest /\ NewRecallTime # Stopped
    BY <1>0, <2>1
  <2>4. CASE recall' = recall
    BY <2>1, <2>2, <2>4
  <2>5. CASE recall' = NewRecallTime
    BY <2>1, <2>2, <2>3, <2>5
  <2>6. CASE recall' = Stopped
    BY <1>0, <2>1, <2>2, <2>3, <2>6
  <2> QED BY <2>2, <2>4, <2>5, <2>6
<1>2. CASE RecallTimeOut
  BY <1>0, <1>2 DEF RecallTimeOut
<1>3. CASE Tick
  BY <1>0, <1>3 DEF Tick, Left, MasterTypeOK
<1>4. CASE UNCHANGED <<recall, recallTime>>
  BY <1>4
<1>5. CASE MasterPower
  BY <1>0, <1>5, RecallTimes DEF MasterPower, MasterStart, MasterTypeOK
<1> QED
  BY <1>1, <1>2, <1>3, <1>4, <1>5
     DEF Next, vars, masterVars, Master, Locked, TimeOut, HandleSmsIn, Lose, HandleSmsEnd,
         Request, DigIn, Disagree, OtherTime, LockPower, MasterInput, MasterUpdate,
         SetPitTimeout, SetPitSetting

LEMMA WaitTypes ==
  ASSUME TypeOK, NetInv
  PROVE  UntilSent \in Nat /\ Wait \in Nat /\ Delay \in Nat /\ timer \in Nat \cup {-1}
         /\ timeout \in Nat /\ recall \in Nat \cup {-1}
<1>1. /\ recall \in Nat \cup {-1} /\ timer \in Nat \cup {-1} /\ timeout \in Nat
      /\ net \in Seq(Message(Nat)) /\ Delay \in Nat
  BY SmsNetAssumption DEF TypeOK, MasterTypeOK, LockTypeOK, Stopped, Off
<1>2. UntilSent \in Nat
  BY <1>1 DEF UntilSent, Stopped
<1>3. CASE net = <<>>
  BY <1>1, <1>2, <1>3 DEF Wait
<1>4. CASE net # <<>>
  <2>1. 1 \in 1 .. Len(net)
    BY <1>1, <1>4
  <2>2. net[1].age \in 0 .. Late /\ net[1].age <= Delay
    BY <1>1, <2>1, MessageFields DEF NetInv
  <2> QED BY <1>1, <1>2, <1>4, <2>2 DEF Wait, Late
<1> QED BY <1>1, <1>2, <1>3, <1>4

LEMMA SameNet ==
  ASSUME UNCHANGED <<net, recall>>
  PROVE  Wait' = Wait /\ NetInv' = NetInv /\ UntilSent' = UntilSent
BY DEF Wait, NetInv, UntilSent

LEMMA HoldInit == Init => HoldInv
  BY DEF Init, HoldInv

(* The invariants as they are before a step, for the cases below.           *)
Before == TypeOK /\ MasterInv /\ RecallInv /\ HoldInv

(* A message is sent.                                                       *)
LEMMA HoldMaster ==
  ASSUME Before, Master PROVE HoldInv'
<1> SUFFICES ASSUME hold' # "no"
             PROVE  /\ sent' = "INTERLOCK" /\ NetInv' /\ Agrees'
                    /\ hold' = "held" \/ handled' => timeout' > Wait'
                    /\ hold' = "held" => HeldInv'
  BY DEF HoldInv
<1>0. /\ RunMaster /\ hold' = HoldOfMaster /\ state' = "ILMS_LOCKED"
      /\ UNCHANGED <<lockVars, handled>> /\ MasterTypeOK /\ timeoutPit \in PitTimeouts
      /\ net \in Seq(Message(Nat)) /\ Len(net) <= MaxFlight /\ MaxFlight \in Nat \ {0}
  BY SmsNetAssumption DEF Before, TypeOK, MasterTypeOK, Master, HoldOfMaster
<1> DEFINE R == CalcInterLockRecallTime(timeoutPit)
           m == [command |-> "INTERLOCK", time |-> Whole(timeoutPit), age |-> 0]
<1>1. CASE UNCHANGED <<recall, sent, net>> /\ state = "ILMS_LOCKED" /\ ~recallFlag /\ changed = {}
  <2>1. hold' = hold
    BY <1>0, <1>1 DEF HoldOfMaster
  <2> QED
    BY <1>0, <1>1, <2>1, SameNet
       DEF Before, HoldInv, HeldInv, StaysLocked, Agrees, lockVars
<1>2. CASE Sends("INTERLOCK") /\ recall' = NewRecallTime
           /\ (state = "ILMS_LOCKED" => changed # {} \/ recallFlag)
  <2>1. /\ recall' = R /\ R \in Nat /\ R + Delay < Whole(timeoutPit)
        /\ Delay < Whole(timeoutPit) /\ Whole(timeoutPit) \in Nat /\ Delay \in Nat
    BY <1>0, <1>2, RecallTimes, WholeMinutes, SmsNetAssumption DEF Before, MasterInv, NewRecallTime
  <2>2. UntilSent' = R
    BY <2>1 DEF UntilSent, Stopped
  <2>3. /\ sent' = "INTERLOCK" /\ net' \in Seq(Message(Nat))
        /\ \/ Len(net) = MaxFlight /\ net' = net
           \/ /\ Len(net') = Len(net) + 1 /\ net' # net
              /\ net'[Len(net')] = m
              /\ \A i \in 1 .. Len(net) : net'[i] = net[i]
    BY <1>0, <1>2, <2>1, Sent DEF Sends, Whole, Command
  <2> HIDE DEF R
  <2>4. CASE state # "ILMS_LOCKED"
    <3>1. hold' = "sent" /\ net = <<>> /\ ~handled /\ ~ignore /\ updated \cap {"off", "digIn"} = {}
      BY <1>0, <2>4 DEF HoldOfMaster
    <3>2. Len(net') = 1 /\ net'[1] = m
      BY <1>0, <2>3, <3>1
    <3>3. NetInv'
      BY <2>1, <2>2, <2>3, <3>2 DEF NetInv
    <3> QED BY <1>0, <2>3, <3>1, <3>3 DEF Agrees, lockVars
  <2>5. CASE state = "ILMS_LOCKED"
    <3>1. net' # net /\ hold' = hold
      BY <1>0, <1>2, <2>5 DEF HoldOfMaster
    <3>2. /\ Len(net') = Len(net) + 1 /\ net'[Len(net')] = m
          /\ \A i \in 1 .. Len(net) : net'[i] = net[i]
      BY <2>3, <3>1
    <3>3. HoldInv /\ NetInv
      BY <3>1 DEF Before, HoldInv
    <3>4. NetInv'
      <4>1. ASSUME NEW i \in 1 .. Len(net')
            PROVE  net'[i].command = "INTERLOCK" /\ net'[i].age <= Delay /\ net'[i].time > Delay
        BY <1>0, <2>1, <3>2, <3>3 DEF NetInv
      <4> QED BY <2>1, <2>2, <3>2, <4>1 DEF NetInv
    <3>5. Wait' <= Wait
      <4>1. Wait' = Delay - net'[1].age
        BY <1>0, <2>3, <3>2 DEF Wait
      <4>2. CASE net = <<>>
        BY <1>0, <2>1, <3>2, <3>3, <4>1, <4>2, WaitTypes DEF Wait, Before
      <4>3. CASE net # <<>>
        BY <1>0, <3>2, <3>3, <4>1, <4>3, WaitTypes DEF Wait, Before
      <4> QED BY <4>2, <4>3
    <3>6. Wait \in Nat /\ Wait' \in Int /\ timer \in Int /\ timeout \in Nat
      <4>1. 1 \in 1 .. Len(net') /\ net' # <<>>
        BY <1>0, <3>2
      <4>2. net'[1].age \in Int
        BY <1>0, <3>2, <4>1, MessageFields DEF Late
      <4> QED BY <2>1, <3>3, <4>1, <4>2, WaitTypes DEF Wait, Before
    <3> QED
      BY <1>0, <2>3, <3>1, <3>3, <3>4, <3>5, <3>6
         DEF HoldInv, HeldInv, StaysLocked, Agrees, lockVars
  <2> QED BY <2>4, <2>5
<1> QED BY <1>0, <1>1, <1>2, MasterRuns

(* Time passes for the lock as it does for the message that prolongs it.    *)
LEMMA HoldTick ==
  ASSUME Before, Tick PROVE HoldInv'
<1> SUFFICES ASSUME hold' # "no" PROVE HoldInv'
  BY DEF HoldInv
<1>0. /\ net \in Seq(Message(Nat)) /\ hold' = hold /\ net' = Older
      /\ \A i \in DOMAIN net' : net'[i].age # Late
      /\ recall' = Left(recall) /\ timer' = Left(timer) /\ recall # 0 /\ ~masterRun /\ ~handled
      /\ UNCHANGED <<sent, locked, timeout, timerFlag, updated, ignore, digIn, handled>>
  BY DEF Before, TypeOK, Tick
<1>1. HoldInv /\ NetInv /\ Agrees /\ sent = "INTERLOCK" /\ TypeOK
  BY <1>0 DEF Before, HoldInv
<1>2. recall \in Nat /\ recall > 0 /\ recall' = recall - 1
  BY <1>0, <1>1, WaitTypes DEF Before, MasterInv, LockIsReminded, Left, Stopped
<1>3. UntilSent' = UntilSent - 1
  BY <1>2 DEF UntilSent, Stopped
<1>4. /\ Len(net') = Len(net) /\ net' \in Seq(Message(Nat))
      /\ \A i \in 1 .. Len(net) :
           /\ net'[i].command = net[i].command /\ net'[i].time = net[i].time
           /\ net'[i].age = net[i].age + 1 /\ net'[i].age <= Delay
  <2>1. ASSUME NEW i \in 1 .. Len(net)
        PROVE  /\ net'[i].command = net[i].command /\ net'[i].time = net[i].time
               /\ net'[i].age = net[i].age + 1 /\ net'[i].age <= Delay
    <3>1. net[i].age <= Delay /\ net[i].age \in 0 .. Late /\ Late = Delay + 1 /\ Delay \in Nat
      BY <1>0, <1>1, MessageFields, SmsNetAssumption DEF NetInv, Late
    <3>2. i \in DOMAIN net'
      BY <1>0, OlderSeq
    <3> QED BY <1>0, <3>1, <3>2, OlderSeq
  <2> QED BY <1>0, <2>1, OlderSeq
<1>5. UntilSent \in Nat /\ Wait \in Nat /\ Delay \in Nat /\ timer \in Nat \cup {-1} /\ timeout \in Nat
  BY <1>1, WaitTypes
<1>6. NetInv'
  <2>1. net # <<>> => Len(net) \in 1 .. Len(net)
    BY <1>0
  <2>2. net' # <<>> => net # <<>>
    BY <1>0, <1>4
  <2>3. net # <<>> => net[Len(net)].time \in Nat
    BY <1>0, <2>1, MessageFields
  <2> QED BY <1>1, <1>3, <1>4, <1>5, <2>1, <2>2, <2>3 DEF NetInv
<1>7. Wait' = Wait - 1 /\ Wait' \in Nat
  <2>1. CASE net = <<>>
    <3>1. net' = <<>>
      BY <1>4, <2>1
    <3>2. UntilSent = recall
      BY <1>2 DEF UntilSent, Stopped
    <3> QED BY <1>2, <1>3, <1>5, <2>1, <3>1, <3>2 DEF Wait
  <2>2. CASE net # <<>>
    <3>1. 1 \in 1 .. Len(net) /\ net' # <<>>
      BY <1>0, <1>4, <2>2
    <3>2. net[1].age \in Nat
      BY <1>0, <3>1, MessageFields, SmsNetAssumption DEF Late
    <3> QED BY <1>4, <1>5, <2>2, <3>1, <3>2 DEF Wait
  <2> QED BY <2>1, <2>2
<1>8. timer > Wait => timer' > Wait' /\ timer' > 0
  BY <1>0, <1>5, <1>7 DEF Left
<1> QED
  BY <1>0, <1>1, <1>5, <1>6, <1>7, <1>8
     DEF HoldInv, HeldInv, StaysLocked, Agrees

(* The first message comes.                                                 *)
LEMMA HoldSms ==
  ASSUME Before, NEW i \in DOMAIN net, HandleSmsIn(i) PROVE HoldInv'
<1> SUFFICES ASSUME hold' # "no" PROVE HoldInv'
  BY DEF HoldInv
<1>0. net \in Seq(Message(Nat)) /\ i \in 1 .. Len(net) /\ TypeOK
  BY DEF Before, TypeOK
<1>1. /\ i = 1 /\ hold' = hold /\ net[i].command # "AUTO" /\ handled'
      /\ net' = RemoveAt(net, 1) /\ UNCHANGED masterVars
  BY DEF HandleSmsIn, HoldOf, Gone
<1>2. HoldInv /\ NetInv /\ Agrees /\ sent = "INTERLOCK"
  BY <1>1 DEF Before, HoldInv
<1>3. net[1].time > Delay /\ net[1].time \in Nat /\ Delay \in Nat /\ UntilSent \in Nat
  BY <1>0, <1>1, <1>2, MessageFields, WaitTypes DEF NetInv
<1>4. /\ timeout' = net[1].time /\ UNCHANGED <<locked, timer, timerFlag, ignore, digIn>>
      /\ updated' \in {updated, updated \cup {"timeout"}}
  BY <1>1, <1>3 DEF HandleSmsIn, SetTimeout, Notified, lockVars
<1>5. /\ net' \in Seq(Message(Nat)) /\ Len(net') = Len(net) - 1
      /\ \A j \in 1 .. Len(net) - 1 : net'[j] = net[j + 1]
  BY <1>0, <1>1, GoneOne
<1>6. UntilSent' = UntilSent
  BY <1>1 DEF UntilSent, masterVars
<1>7. NetInv'
  <2>1. ASSUME NEW j \in 1 .. Len(net')
        PROVE  net'[j].command = "INTERLOCK" /\ net'[j].age <= Delay /\ net'[j].time > Delay
    BY <1>0, <1>2, <1>5 DEF NetInv
  <2>2. ASSUME net' # <<>> PROVE net'[Len(net')] = net[Len(net)] /\ net # <<>>
    BY <1>0, <1>5, <2>2
  <2> QED BY <1>2, <1>6, <2>1, <2>2 DEF NetInv
<1>8. timeout' > Wait'
  <2>1. CASE net' = <<>>
    <3>1. Len(net) = 1 /\ net # <<>>
      BY <1>0, <1>5, <2>1
    <3> QED BY <1>2, <1>3, <1>4, <1>6, <2>1, <3>1 DEF Wait, NetInv
  <2>2. CASE net' # <<>>
    <3>1. 1 \in 1 .. Len(net) - 1 /\ 2 \in 1 .. Len(net)
      BY <1>0, <1>5, <2>2
    <3>2. net'[1] = net[2] /\ net[2].age \in Nat
      BY <1>0, <1>5, <3>1, MessageFields, SmsNetAssumption DEF Late
    <3> QED BY <1>3, <1>4, <2>2, <3>2 DEF Wait
  <2> QED BY <2>1, <2>2
<1> QED
  BY <1>1, <1>2, <1>4, <1>7, <1>8
     DEF HoldInv, HeldInv, StaysLocked, Agrees, masterVars

(* The other pit sees what has come.                                        *)
LEMMA HoldRun ==
  ASSUME Before, Locked PROVE HoldInv'
<1> SUFFICES ASSUME hold # "no" PROVE HoldInv'
  BY DEF Locked, HoldInv
<1>0. /\ TypeOK /\ RunLock /\ UNCHANGED <<masterVars, net, handled, hold>>
      /\ sent = "INTERLOCK" /\ NetInv /\ Agrees
      /\ hold = "held" \/ handled => timeout > Wait
      /\ hold = "held" => HeldInv
  BY DEF Before, HoldInv, Locked
<1>1. Wait' = Wait /\ NetInv'
  BY <1>0, SameNet DEF masterVars
<1>2. Wait \in Nat /\ UntilSent \in Nat /\ Delay \in Nat /\ timeout \in Nat /\ timer \in Nat \cup {-1}
  BY <1>0, WaitTypes
<1>3. Longest > Wait
  <2>1. UntilSent + Early <= Longest /\ Delay + Minute <= Early
        /\ Minute \in Nat \ {0} /\ Early \in Nat /\ Longest \in Nat
    BY TimesAssumption, MasterAssumption, InterLockedAssumption DEF Before, RecallInv
  <2>2. CASE net = <<>>
    BY <1>2, <2>1, <2>2 DEF Wait
  <2>3. CASE net # <<>>
    <3>1. 1 \in 1 .. Len(net)
      BY <1>0, <2>3 DEF TypeOK
    <3>2. net[1].age \in Nat
      BY <1>0, <3>1, MessageFields, SmsNetAssumption DEF TypeOK, Late
    <3> QED BY <1>2, <2>1, <2>3, <3>2 DEF Wait
  <2> QED BY <2>2, <2>3
<1>4. /\ ~Released /\ ~DigInOff /\ timeout' \in {timeout, Longest} /\ timerFlag' = FALSE
      /\ timer' = IF OnRequest THEN timeout' ELSE timer
      /\ locked' = (OnRequest \/ (locked /\ ~timerFlag))
      /\ "off" \notin updated' /\ "digIn" \notin updated' /\ UNCHANGED <<ignore, digIn>>
      /\ "request" \notin updated'
  BY <1>0 DEF RunLock, Released, OffRequest, DigInOff, Agrees, NewTimer, Holds
<1>5. "request" \in updated => OnRequest
  BY <1>0 DEF OnRequest, Agrees
<1>6. Agrees' /\ sent' = "INTERLOCK" /\ (hold' = "held" \/ handled' => timeout' > Wait')
  BY <1>0, <1>1, <1>3, <1>4 DEF Agrees, masterVars
<1>7. ASSUME hold' = "held" PROVE HeldInv'
  <2>1. HeldInv /\ timeout' > Wait' /\ timeout' \in Nat /\ hold = "held"
    BY <1>0, <1>2, <1>6, <1>7, InterLockedAssumption, <1>4
  <2>2. locked'
    BY <1>4, <1>5, <2>1 DEF HeldInv, StaysLocked
  <2>3. CASE OnRequest
    BY <1>1, <1>2, <1>4, <2>1, <2>2, <2>3 DEF HeldInv, StaysLocked
  <2>4. CASE ~OnRequest
    BY <1>0, <1>1, <1>4, <1>5, <2>1, <2>2, <2>4 DEF HeldInv, StaysLocked
  <2> QED BY <2>3, <2>4
<1> QED BY <1>1, <1>6, <1>7 DEF HoldInv

(* All else.                                                                *)
LEMMA HoldRest ==
  ASSUME Before,
         \/ TimeOut \/ HandleSmsEnd \/ Request \/ DigIn \/ LockPower \/ MasterInput
         \/ UNCHANGED vars
  PROVE  HoldInv'
<1> SUFFICES ASSUME hold' # "no" PROVE HoldInv'
  BY DEF HoldInv
<1>0. hold # "no"
  BY DEF TimeOut, HandleSmsEnd, Request, DigIn, LockPower, MasterInput, vars
<1>1. /\ sent = "INTERLOCK" /\ NetInv /\ Agrees /\ TypeOK
      /\ hold = "held" \/ handled => timeout > Wait
      /\ hold = "held" => HeldInv
  BY <1>0 DEF Before, HoldInv
<1>2. Wait \in Nat /\ timeout \in Nat
  BY <1>1, WaitTypes
<1>3. CASE RecallTimeOut /\ UNCHANGED <<lockVars, handled, inputs, hold>>
  <2>1. UntilSent' = UntilSent
    BY <1>3 DEF RecallTimeOut, UntilSent
  <2>2. Wait' = Wait /\ NetInv' = NetInv /\ sent' = sent
    BY <1>3, <2>1 DEF RecallTimeOut, Wait, NetInv
  <2> QED BY <1>1, <1>3, <2>2 DEF HoldInv, HeldInv, StaysLocked, Agrees, lockVars
<1> SUFFICES ASSUME ~RecallTimeOut \/ ~UNCHANGED <<lockVars, handled, inputs, hold>>
             PROVE  HoldInv'
  BY <1>3
<1>4. UNCHANGED <<net, recall, sent>>
  BY DEF TimeOut, HandleSmsEnd, Request, DigIn, LockPower, MasterInput, MasterUpdate,
         SetPitTimeout, SetPitSetting, vars, masterVars
<1>5. Wait' = Wait /\ NetInv'
  BY <1>1, <1>4, SameNet
<1>6. CASE LockTimeOut /\ UNCHANGED <<masterVars, net, handled, inputs, hold>>
  BY <1>1, <1>4, <1>5, <1>6 DEF LockTimeOut, HoldInv, HeldInv, StaysLocked, Agrees
<1>7. CASE HandleSmsEnd
  BY <1>0, <1>1, <1>4, <1>5, <1>7
     DEF HandleSmsEnd, SetEvent, Notified, HoldInv, HeldInv, StaysLocked, Agrees
<1>8. CASE Request
  BY <1>1, <1>4, <1>5, <1>8
     DEF Request, SetEvent, Notified, HoldInv, HeldInv, StaysLocked, Agrees
<1>9. CASE DigIn
  BY <1>1, <1>4, <1>5, <1>9
     DEF DigIn, SetDigIn, Notified, HoldInv, HeldInv, StaysLocked, Agrees
<1>10. CASE LockPower
  <2>1. PICK l \in BOOLEAN, t \in Timeouts \cup {timeout} :
          /\ LockStart(l, t)
          /\ hold' = IF <<l, t>> = <<locked, timeout>> /\ updated = {} /\ ~handled
                     THEN hold ELSE "no"
    BY <1>10 DEF LockPower
  <2>2. l = locked /\ t = timeout /\ updated = {} /\ hold' = hold /\ handled' = FALSE
    BY <1>10, <2>1 DEF LockPower
  <2>3. /\ locked' = locked /\ timeout' = timeout /\ (locked => timer' = timeout)
        /\ timerFlag' = FALSE /\ updated' = {} /\ ignore' = ignore
    BY <2>1, <2>2 DEF LockStart
  <2> QED
    BY <1>1, <1>2, <1>4, <1>5, <2>2, <2>3 DEF HoldInv, HeldInv, StaysLocked, Agrees
<1>11. CASE MasterInput
  BY <1>1, <1>4, <1>5, <1>11
     DEF MasterInput, HoldInv, HeldInv, StaysLocked, Agrees, lockVars
<1>12. CASE UNCHANGED vars
  BY <1>1, <1>4, <1>5, <1>12 DEF vars, HoldInv, HeldInv, StaysLocked, Agrees, lockVars
<1> QED BY <1>3, <1>6, <1>7, <1>8, <1>9, <1>10, <1>11, <1>12 DEF TimeOut

LEMMA HoldStep == Before /\ [Next]_vars => HoldInv'
<1> SUFFICES ASSUME Before, [Next]_vars PROVE HoldInv'
  OBVIOUS
<1>1. CASE Master
  BY <1>1, HoldMaster
<1>2. CASE Locked
  BY <1>2, HoldRun
<1>3. CASE Tick
  BY <1>3, HoldTick
<1>4. CASE \E i \in DOMAIN net : HandleSmsIn(i)
  BY <1>4, HoldSms
<1>5. CASE (\E i \in DOMAIN net : Lose(i)) \/ Disagree \/ OtherTime \/ MasterPower
  BY <1>5 DEF Lose, Disagree, OtherTime, MasterPower, HoldInv
<1> QED BY <1>1, <1>2, <1>3, <1>4, <1>5, HoldRest DEF Next

(* While the messages take no longer than Delay, no lock of the master ends *)
(* in between (StaysLocked).                                                *)
THEOREM LocksLast == Spec => []StaysLocked
<1>1. HoldInv => StaysLocked
  BY DEF HoldInv, HeldInv, StaysLocked
<1> QED
  BY <1>1, TypeInit, TypeStep, MasterInvInit, MasterInvStep, RecallInvInit, RecallInvStep,
     HoldInit, HoldStep, PTL DEF Spec, Before

=============================================================================

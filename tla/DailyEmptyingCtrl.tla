------------------------- MODULE DailyEmptyingCtrl -------------------------
(***************************************************************************)
(* DailyEmptyingCtrl (src/application/DailyEmptyingCtrl): once a day, or at  *)
(* a digital input, the pit is to be pumped down to the lowest stop level,  *)
(* for at most a maximum time.                                              *)
(***************************************************************************)
EXTENDS PitData

VARIABLES
  enabled,       (* mpDailyEmptyingED                                       *)
  due,           (* mTimeForDailyEmptying, or a new digital input           *)
  news,          (* the SubjectPtr marked as updated: "enabled", "under"    *)
  maxTimer,      (* PIT_EMPTYING_MAX_TIMER is running                       *)
  maxTimeOut     (* mPitEmptyingMaxTimeOutFlag                              *)

dailyVars == <<enabled, due, news, maxTimer, maxTimeOut>>

DailyInit ==
  /\ enabled = TRUE /\ due = FALSE /\ news = {"under"}
  /\ maxTimer = FALSE /\ maxTimeOut = FALSE

DailyTypeOK ==
  /\ {enabled, due, maxTimer, maxTimeOut} \subseteq BOOLEAN
  /\ news \subseteq {"enabled", "under"}

(* Mutant: the sub task is asked for, but not told what has changed.        *)
HearsUnder_Unmarked == UNCHANGED dailyVars

(* Update: LevelCtrl has given under another value or quality.              *)
HearsUnder ==
  /\ news' = news \cup If(<<under', underKnown'>> # <<under, underKnown>>, {"under"})
  /\ UNCHANGED <<enabled, due, maxTimer, maxTimeOut>>

(* Update: the time of the day, the input, the timer, and the user's switch.*)
TimeOfDay ==
  /\ Quiet /\ ~due /\ due' = TRUE /\ asked' = {"daily"}
  /\ UNCHANGED <<daily, enabled, news, maxTimer, maxTimeOut>>

MaxTimeOut ==
  /\ maxTimer /\ maxTimer' = FALSE /\ maxTimeOut' = TRUE /\ asked' = asked \cup {"daily"}
  /\ UNCHANGED <<daily, enabled, due, news>>

EnableDaily ==
  /\ Quiet /\ enabled' = ~enabled /\ news' = news \cup {"enabled"} /\ asked' = {"daily"}
  /\ UNCHANGED <<daily, due, maxTimer, maxTimeOut>>

(* RunSubTask: switched off, then due, then the level has sunk, then the    *)
(* time is over.  (under keeps its value while its quality is gone.)        *)
DailyRequested ==
  LET off  == "enabled" \in news /\ ~enabled
      asks == due /\ enabled /\ ~under
      sunk == "under" \in news /\ under
  IN ((daily /\ ~off) \/ asks) /\ ~sunk /\ ~maxTimeOut

(* The timer is stopped when switched off and started again when due.       *)
MaxTimer == (maxTimer /\ ~("enabled" \in news /\ ~enabled)) \/ (due /\ enabled)

RunDailyEmptyingCtrl ==
  /\ "daily" \in asked
  /\ daily' = DailyRequested /\ maxTimer' = MaxTimer
  /\ due' = FALSE /\ news' = {} /\ maxTimeOut' = FALSE
  /\ asked' = (asked \ {"daily"}) \cup If(DailyRequested # daily, {"pump"})
  /\ UNCHANGED enabled
=============================================================================

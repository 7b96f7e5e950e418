-------------------------------- MODULE Pit --------------------------------
(***************************************************************************)
(* A pit: LevelCtrl, DailyEmptyingCtrl, FoamDrain and PumpCtrl together,    *)
(* with what the rest of the program does to the data points they share.    *)
(* From Pump.tla comes when a pump starts, stops and is ready; here a pump  *)
(* does as it is told some time later, or is taken out of automatic         *)
(* operation.                                                               *)
(***************************************************************************)
EXTENDS LevelCtrl, DailyEmptyingCtrl, FoamDrain, PumpCtrl

VARIABLE counts    (* the pumps whose mode has changed since StartPumpCnt ran *)

vars == <<dataPoints, asked, levelVars, dailyVars, foamVars, pumpVars, counts>>

Plays(play) == play \in config.plays

Init ==
  /\ config \in Configs
  /\ asked = {"daily", "foam", "pump"}
  /\ level = TopLevel \div 2 /\ quality = "notReady" /\ floats = {}
  /\ ref = {} /\ high = FALSE /\ under = FALSE /\ underKnown = FALSE
  /\ daily = FALSE /\ foam = FALSE /\ anti = {} /\ interlocked = FALSE /\ tempStop = NoPump
  /\ on = {} /\ ready = Pumps /\ started = {} /\ byTime = [p \in Pumps |-> p]
  /\ LevelInit /\ DailyInit /\ FoamInit /\ PumpInit
  /\ counts = {}

-----------------------------------------------------------------------------
(* The inputs of a pass.                                                    *)
Qualities == IF Plays("sensor") THEN {"ok", "fault"} ELSE {"ok"}

LevelTask ==
  /\ \/ \E l \in Level, q \in Qualities, f \in SUBSET config.switches : Sense(l, q, f)
     \/ LevelCtrl
     \/ AfterRunEnds
     \/ \E f \in {"sensor", "conflict"} : AlarmChanges(f)
  /\ HearsUnder
  /\ UNCHANGED <<config, daily, foam, anti, interlocked, tempStop, on, ready, started, byTime,
                 foamVars, pumpVars, counts>>

DailyTask ==
  /\ \/ RunDailyEmptyingCtrl \/ MaxTimeOut
     \/ Plays("daily") /\ (TimeOfDay \/ EnableDaily)
  /\ UNCHANGED <<config, level, quality, floats, ref, high, under, underKnown, foam, anti,
                 interlocked, tempStop, on, ready, started, byTime,
                 levelVars, foamVars, pumpVars, counts>>

FoamTask ==
  /\ RunFoamDrain \/ FoamTimeOut \/ (Plays("foam") /\ FoamInterval)
  /\ UNCHANGED <<config, level, quality, floats, ref, high, under, underKnown, daily, anti,
                 interlocked, tempStop, on, ready, started, byTime,
                 levelVars, dailyVars, pumpVars, counts>>

PumpTask ==
  /\ RunPumpCtrl \/ StartUpEnds
  /\ UNCHANGED <<config, level, quality, floats, ref, high, under, underKnown, daily, foam, anti,
                 interlocked, tempStop, ready, started, byTime,
                 levelVars, dailyVars, foamVars, counts>>

-----------------------------------------------------------------------------
(* The other sub tasks.                                                     *)
others == <<config, level, quality, floats, ref, high, under, underKnown, daily, foam, on,
            levelVars, dailyVars, foamVars, pumpVars>>

(* Pump: starts and stops as it is told, or by hand when it is not ready.   *)
PumpStarts(p) ==
  /\ p \notin started /\ (IF p \in ready THEN p \in on ELSE Plays("hand"))
  /\ started' = started \cup {p} /\ counts' = counts \cup {p} /\ asked' = asked \cup {"pump"}
  /\ UNCHANGED <<others, anti, interlocked, tempStop, ready, byTime>>

PumpStops(p) ==
  /\ p \in started /\ (p \in ready => p \notin on)
  /\ started' = started \ {p} /\ counts' = counts \cup {p} /\ asked' = asked \cup {"pump"}
  /\ UNCHANGED <<others, anti, interlocked, tempStop, ready, byTime>>

(* Pump: an alarm of the pump, manual operation, and back to automatic.     *)
ReadyChanges(p) ==
  /\ Plays("ready")
  /\ ready' = (IF p \in ready THEN ready \ {p} ELSE ready \cup {p})
  /\ asked' = asked \cup {"pump"}
  /\ UNCHANGED <<others, anti, interlocked, tempStop, started, byTime, counts>>

(* AntiSeizingCtrl and InterLockedCtrl.                                     *)
AntiSeizingRequest(p) ==
  /\ Plays("anti")
  /\ anti' = (IF p \in anti THEN anti \ {p} ELSE anti \cup {p})
  /\ asked' = asked \cup {"pump"}
  /\ UNCHANGED <<others, interlocked, tempStop, ready, started, byTime, counts>>

Interlock ==
  /\ Plays("interlock")
  /\ interlocked' = ~interlocked /\ asked' = asked \cup {"pump"}
  /\ UNCHANGED <<others, anti, tempStop, ready, started, byTime, counts>>

(* The places after a start of p.                                           *)
RunsLast(p) ==
  [q \in Pumps |-> CASE q = p -> config.pumps
                     [] byTime[q] > byTime[p] -> byTime[q] - 1
                     [] OTHER -> byTime[q]]

(* StartPumpCnt, once a second in the task of lowest priority: a pump whose *)
(* mode has changed and that runs was started now.                          *)
CountStart(p) ==
  /\ pc = "idle" /\ Quiet /\ p \in counts
  /\ counts' = counts \ {p}
  /\ byTime' = (IF p \in started THEN RunsLast(p) ELSE byTime)
  /\ UNCHANGED <<others, asked, anti, interlocked, tempStop, ready, started>>

(* AdvancedFlowCtrl (UpdateTrainingFrequency), in the same task: a pump that *)
(* runs alone is to be stopped for a moment, may go on once no pump runs,   *)
(* or the request is taken back.                                            *)
TempStop(p) ==
  /\ Plays("tempStop") /\ pc = "idle" /\ Quiet
  /\ \/ started = {p} /\ tempStop' = p
     \/ started = {} /\ tempStop = p /\ tempStop' = Resume
     \/ tempStop' = NoPump
  /\ tempStop' # tempStop /\ asked' = {"pump"}
  /\ UNCHANGED <<others, anti, interlocked, ready, started, byTime, counts>>

Next ==
  \/ LevelTask \/ DailyTask \/ FoamTask \/ PumpTask
  \/ \E p \in Pumps : \/ PumpStarts(p) \/ PumpStops(p) \/ ReadyChanges(p)
                      \/ AntiSeizingRequest(p) \/ CountStart(p) \/ TempStop(p)
  \/ Interlock

Spec == Init /\ [][Next]_vars

(* The kernel runs a sub task that asks for it; LevelCtrl gets its turn     *)
(* every 10 ms, however often it is preempted; the start-up delay ends; and *)
(* a pump that stays ordered starts.  (Each action says which variable such *)
(* a step changes, and when it can.)                                        *)
Taken(task) == task \in asked /\ asked' \in SUBSET (Tasks \ {task})
Turn == Quiet /\ pc' \in {"idle", "sensed", "evaluated", "on", "off", "dry", "level"}
              /\ next' \in Pumps

FairSpec ==
  /\ Spec
  /\ SF_<<pc, next>>(Turn)
  /\ \A task \in Tasks : WF_asked(Taken(task))
  /\ WF_startUpTimeout(startUpTimeout' = TRUE)
  /\ \A p \in UNION {1 .. c.pumps : c \in Configs} :
       WF_started(p \in (on \cap ready) \ started /\ started' = started \cup {p})

-----------------------------------------------------------------------------
(* Types of all variables.                                                  *)
TypeOK ==
  /\ asked \subseteq Tasks
  /\ level \in Level /\ quality \in {"notReady", "ok", "fault"} /\ floats \subseteq config.switches
  /\ {high, under, underKnown, daily, foam, interlocked} \subseteq BOOLEAN
  /\ \A S \in {ref, anti, on, ready, started, counts} : S \subseteq Pumps
  /\ tempStop \in Pumps \cup {NoPump, Resume}
  /\ byTime \in [Pumps -> Pumps] /\ \A p, q \in Pumps : byTime[p] = byTime[q] => p = q
  /\ LevelTypeOK /\ DailyTypeOK /\ FoamTypeOK /\ PumpTypeOK

(* PumpCtrl has reacted to all that has happened.                           *)
Chosen == "pump" \notin asked

InGroup(S, g) == Cardinality(S \cap Group(g))

(* Groups that may not run together are never ordered together, and the     *)
(* first one is not ordered while the second is run by hand.                *)
GroupsApart ==
  2 \in Groups /\ ~config.together =>
    \/ on \cap Group(1) = {}
    \/ (on \cup Manual) \cap Group(2) = {}

(* Only pumps that are ready are ordered, and besides the ones run by hand  *)
(* as many as the limits of each group and of the pit allow.  A group may   *)
(* fall short of its minimum only where the maximum of the pit is used up   *)
(* (PumpCtrl.cpp:443 reduces the choice after the minimum was tested).      *)
WithinLimits ==
  Chosen =>
    LET all == Cardinality(on) + Cardinality(Manual)
    IN /\ on \subseteq ready
       /\ \A g \in Groups : on \cap Group(g) # {} =>
            LET some == InGroup(on, g) + InGroup(Manual, g)
            IN /\ some <= config.max[g]
               /\ some >= config.min[g] \/ (2 \in Groups /\ all = config.total[2])
       /\ 2 \in Groups /\ on # {} => all \in config.total[1] .. config.total[2]
       /\ GroupsApart

(* While the after run of a high level that was lost sight of lasts, every  *)
(* pump is asked for, also when the sensor is back (LevelCtrl.cpp:387-394,  *)
(* :424 and :432).                                                          *)
AfterRunPumps == pc = "idle" /\ afterRun => ref = Pumps

(* At high level everything that may run does: no temporary stop, no turn   *)
(* and no group order is in the way; so it goes on in the after run.        *)
HighLevelPumps ==
  /\ Chosen /\ Quiet /\ pc = "idle" /\ high /\ Groups = {1} /\ ~interlocked /\ startUpTimeout =>
       LET most == Min({config.max[1] - Cardinality(Manual), Cardinality(ready)})
       IN \/ Cardinality(on) = most
          \/ most <= 0 /\ on = {}
          \/ most + Cardinality(Manual) < config.min[1] /\ on = {}
  /\ AfterRunPumps

(* A foam drain needs the sensor: once FoamDrain has seen that its data     *)
(* points have lost their quality it is over.                               *)
FoamNeedsSensor == foam /\ "foam" \notin asked => underKnown /\ quality # "notReady"

(* Daily emptying is over once DailyEmptyingCtrl has seen the level under   *)
(* the lowest stop level, however this meets with the request, the user's   *)
(* switch and the maximum time; and it always has a timer that will end it. *)
DailyEnds ==
  /\ under /\ "daily" \notin asked => ~daily
  /\ daily => maxTimer \/ maxTimeOut

(* In a pit that is dry no pump is ordered but for anti-seizing, for foam   *)
(* draining, and for daily emptying while nobody has seen the level under   *)
(* the lowest stop level (a switch may hang dry without a sensor); both     *)
(* come to an end.                                                          *)
DryPitIsLeft ==
  /\ Chosen /\ Quiet /\ pc = "idle" /\ now.dry /\ ~now.high /\ ~foam /\ (daily => under) =>
       on \subseteq anti
  /\ FoamNeedsSensor /\ DailyEnds

(* Alternation does not change pumps that run: a pump that runs and is      *)
(* ready loses its order to another one only if that runs too, or resumes   *)
(* after a temporary stop, or is anti-seizing; or if the maximum of the pit *)
(* is used up, which knows nothing of the turn (PumpCtrl.cpp:443).          *)
NoNeedlessChange ==
  [][\A g \in Groups : config.alternate[g] =>
       \A p \in on \cap started \cap ready \cap Group(g), q \in (on' \ on) \cap Group(g) :
         \/ p \in on' \/ q \in started \cup anti \/ q = pumpInTempStop
         \/ 2 \in Groups /\ Cardinality(on') + Cardinality(Manual) = config.total[2]]_vars

(* When the level stays high, and nothing keeps the pumps from running, as  *)
(* many run in the end as their group may: no change is lost on its way     *)
(* from the high level that LevelCtrl reports, through PumpCtrl, to the     *)
(* pumps.                                                                   *)
HighLevelIsPumped ==
  Groups = {1} /\ <>[](high /\ ready = Pumps /\ ~interlocked)
    => <>[](Cardinality(started) >= config.max[1])
=============================================================================

----------------------------- MODULE LevelCtrl -----------------------------
(***************************************************************************)
(* LevelCtrl (src/application/LevelCtrl/LevelCtrl.cpp) with an analogue     *)
(* sensor: every 10 ms it compares the surface level and the float switches *)
(* with the limits, and says which pumps the level asks for.  It runs in    *)
(* the periodic task, and so is preempted by the events task whenever it    *)
(* gives a data point another value: RunSubTask is Evaluate, Detect and one *)
(* Steer for each pump.                                                     *)
(*                                                                         *)
(* AlarmDelay.tla models when a fault becomes an alarm; here it does at any *)
(* time while it is set, and goes at any time after (it may have to be      *)
(* acknowledged).  The alarm data points LevelCtrl does not read, and the   *)
(* timers that hold back the dry run alarm, are left out.                   *)
(***************************************************************************)
EXTENDS PitData

VARIABLES
  pc,        (* where RunSubTask is, "idle" between two passes              *)
  next,      (* the pump Steer comes to                                    *)
  now,       (* what Evaluate found: high, dry and the sensor is used       *)
  first,     (* mFirstRunInAnalogueMode                                     *)
  oldHigh,   (* mOldHighLevel                                               *)
  afterRun,  (* mpHighLevelAfterRunTimer is running                         *)
  fault,     (* the faults that are set: "sensor", "conflict"               *)
  alarm      (* those whose alarm is present                                *)

levelVars == <<pc, next, now, first, oldHigh, afterRun, fault, alarm>>

LevelInit ==
  /\ pc = "idle" /\ next = 1 /\ now = [high |-> FALSE, dry |-> FALSE, use |-> FALSE]
  /\ first = TRUE /\ oldHigh = FALSE /\ afterRun = FALSE /\ fault = {} /\ alarm = {}

LevelTypeOK ==
  /\ pc \in {"idle", "sensed", "evaluated", "on", "off", "dry", "level"}
  /\ next \in Pumps
  /\ now \in [{"high", "dry", "use"} -> BOOLEAN]
  /\ {first, oldHigh, afterRun} \subseteq BOOLEAN
  /\ fault \subseteq {"sensor", "conflict"} /\ alarm \subseteq {"sensor", "conflict"}

-----------------------------------------------------------------------------
(* A pass of the periodic task first reads the inputs.                      *)
Sense(l, q, f) ==
  /\ pc = "idle" /\ Quiet /\ pc' = "sensed"
  /\ quality # "notReady" => q # "notReady"
  /\ f \subseteq config.switches
  /\ level' = l /\ quality' = q /\ floats' = f
  /\ asked' = If(l # level \/ q # quality, {"foam"})
  /\ UNCHANGED <<ref, high, under, underKnown, next, now, first, oldHigh, afterRun, fault, alarm>>

(* What the switches say; high level takes priority over dry run.  A dry    *)
(* run switch that is not lifted hangs dry.                                 *)
HighSwitch == "high" \in floats
DrySwitch  == ~HighSwitch /\ "dry" \in config.switches \ floats

(* The sensor is compared with the switches, which win.                     *)
Sensor == quality = "ok" /\ "sensor" \notin alarm
Above  == level >= config.highLevel
Below  == level <= config.dry

Conflict == Sensor /\ ((HighSwitch /\ ~Above) \/ (DrySwitch /\ ~Below))

Found ==
  [high |-> HighSwitch \/ (Sensor /\ ~Conflict /\ Above),
   dry  |-> DrySwitch \/ (Sensor /\ ~Conflict /\ Below),
   use  |-> Sensor /\ ~Conflict /\ "conflict" \notin alarm]

Evaluate ==
  LET low   == \A p \in Pumps : level <= config.stop[p]
      value == IF Found.use THEN low ELSE under
  IN /\ pc = "sensed" /\ Quiet /\ pc' = "evaluated"
     /\ now' = Found
     /\ under' = value /\ underKnown' = Found.use
     /\ fault' = {f \in {"sensor"} : quality = "fault"} \cup {f \in {"conflict"} : Conflict}
     /\ asked' = If(value # under, {"daily"}) \cup If(Found.use # underKnown, {"daily", "foam"})
     /\ oldHigh' = (oldHigh /\ ~first) /\ afterRun' = (afterRun /\ ~first)
     /\ UNCHANGED <<level, quality, floats, ref, high, next, first, alarm>>

(* The end of a high level that nobody can see the rest of starts the after *)
(* run; then the references are set by the first of four reasons.           *)
AfterRun == afterRun \/ (oldHigh /\ ~now.high /\ ~now.use)

Branch_AfterRunFirst == IF now.high \/ (afterRun' /\ ~now.use) THEN "on"
                        ELSE IF now.dry THEN "dry" ELSE IF now.use THEN "level" ELSE "off"
Branch == IF now.high THEN "on" ELSE IF now.dry THEN "dry" ELSE IF now.use THEN "level"
          ELSE IF afterRun' THEN "on" ELSE "off"

Detect ==
  /\ pc = "evaluated" /\ Quiet
  /\ afterRun' = AfterRun
  /\ oldHigh' = now.high /\ high' = now.high
  /\ pc' = Branch /\ next' = 1
  /\ asked' = If(now.high # high, {"pump"})
  /\ UNCHANGED <<level, quality, floats, ref, under, underKnown, now, first, fault, alarm>>

(* One turn of the loop over the pumps.                                     *)
Wanted(p) ==
  \/ pc = "on"
  \/ /\ pc = "level"
     /\ \/ level >= config.start[p]
        \/ p \in ref /\ (afterRun \/ (level > config.stop[p] /\ ~first))

(* After the loop, a dry pit ends the after run.                            *)
Steer ==
  LET new  == (ref \ {next}) \cup {p \in {next} : Wanted(p)}
      last == next = config.pumps
  IN /\ pc \in {"on", "off", "dry", "level"} /\ Quiet
     /\ ref' = new /\ asked' = If(new # ref, {"foam", "pump"})
     /\ next' = (IF last THEN 1 ELSE next + 1)
     /\ pc' = (IF last THEN "idle" ELSE pc)
     /\ first' = (first /\ ~last)
     /\ afterRun' = (afterRun /\ ~(last /\ pc = "dry"))
     /\ UNCHANGED <<level, quality, floats, high, under, underKnown, now, oldHigh, fault, alarm>>

(* The after run timer expires; its Update does nothing.                    *)
AfterRunEnds ==
  /\ afterRun /\ afterRun' = FALSE
  /\ UNCHANGED <<asked, level, quality, floats, ref, high, under, underKnown, pc, next, now,
                 first, oldHigh, fault, alarm>>

(* The delay of an alarm is over, or the alarm is gone.                     *)
AlarmChanges(f) ==
  /\ pc = "idle" /\ Quiet /\ (f \in fault <=> f \notin alarm)
  /\ alarm' = (IF f \in alarm THEN alarm \ {f} ELSE alarm \cup {f})
  /\ UNCHANGED <<asked, level, quality, floats, ref, high, under, underKnown, pc, next, now,
                 first, oldHigh, afterRun, fault>>

LevelCtrl == Evaluate \/ Detect \/ Steer
=============================================================================

------------------------------ MODULE PitData ------------------------------
(***************************************************************************)
(* The data points through which the sub tasks that decide which pumps of a *)
(* pit run talk to each other, and the way a change of one gets its readers *)
(* to run.  A data point that gets another value asks for the sub tasks of  *)
(* the events task that subscribe to it; that task preempts the periodic    *)
(* task of LevelCtrl and the one of lowest priority, and so runs them       *)
(* before the writer goes on.  (SubTasks.tla is the detailed model of it.)  *)
(*                                                                         *)
(* Pumps are numbered from 1, by p.  A reference is the set of pumps it     *)
(* asks for.  The surface level is a small number: only its order with the  *)
(* configured limits matters.                                               *)
(***************************************************************************)
EXTENDS Integers, FiniteSets

CONSTANTS
  Configs,    (* the configurations of the pit: records, see ConfigFields  *)
  TopLevel    (* the highest surface level                                 *)

Level == 0 .. TopLevel

(* pumps    mpNoOfPumps                                                     *)
(* group2   mpGroup2FirstPump, 0 when there is one group                    *)
(* shift    mpGroupAlternation         alternate  mpAlternationInGroup      *)
(* min, max of the pumps started in each group                              *)
(* total    the same in total, <<min, max>>                                 *)
(* together mpGroupsMayRunTogether                                          *)
(* start, stop  levels of each pump    dry, highLevel  alarm limits         *)
(* foamLevel    mpFoamDrainLevel       switches  the float switches fitted  *)
(* plays    what happens in the pit with this configuration, see Pit        *)
ConfigFields == {"pumps", "group2", "shift", "alternate", "min", "max", "total", "together",
                 "start", "stop", "dry", "highLevel", "foamLevel", "switches", "plays"}

(* The limits keep to the ranges of NoOfPumpsInGroupsCtrl.                  *)
ASSUME PitAssumption ==
  /\ TopLevel \in Nat
  /\ \A c \in Configs :
       /\ DOMAIN c = ConfigFields
       /\ c.pumps \in Nat \ {0} /\ c.group2 \in {0} \cup 2 .. c.pumps
       /\ {c.min, c.max, c.total} \subseteq [1 .. 2 -> 1 .. c.pumps]
       /\ \A g \in 1 .. 2 : c.min[g] <= c.max[g]
       /\ c.total[1] <= c.total[2]
       /\ \A p \in 1 .. c.pumps : c.stop[p] < c.start[p]

VARIABLES
  config,
  asked,       (* the sub tasks of the events task that are to run          *)
  level,       (* mpSurfaceLevel                                            *)
  quality,     (* of it; "notReady" before mpSurfaceLevelReady              *)
  floats,      (* the float switches that are lifted                        *)
  ref,         (* mpPumpRefLevel, the pumps the level asks for              *)
  high,        (* mpHighLevelStateDetected                                  *)
  under,       (* mpUnderLowestStopLevel                                    *)
  underKnown,  (* quality of it and of mpUnderDryRunLevel                   *)
  daily,       (* mpDailyEmptyingRequested                                  *)
  foam,        (* mpFoamDrainRequest                                        *)
  anti,        (* mpAntiSeizingRequestPump                                  *)
  interlocked, (* mpInterlocked                                             *)
  tempStop,    (* mpAdvFlowTempStopRequest: a pump, Resume or NoPump        *)
  on,          (* mpOprModeRefPump, the pumps that are to run               *)
  ready,       (* mpPumpReady                                               *)
  started,     (* mpOprModeActPump                                          *)
  byTime       (* the place of each pump by mpLastRunTime, longest ago      *)
               (* first                                                     *)

dataPoints == <<config, level, quality, floats, ref, high, under, underKnown, daily, foam,
                anti, interlocked, tempStop, on, ready, started, byTime>>

Pumps  == 1 .. config.pumps
NoPump == 0
Resume == config.pumps + 1

Tasks == {"daily", "foam", "pump"}

(* The sub tasks to run because a data point, or a quality, has changed.    *)
If(changed, tasks) == IF changed THEN tasks ELSE {}

(* The events task has nothing to do: tasks of lower priority may go on.    *)
Quiet == asked = {}
=============================================================================

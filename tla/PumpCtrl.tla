------------------------------ MODULE PumpCtrl ------------------------------
(***************************************************************************)
(* PumpCtrl (src/application/PumpCtrl/PumpCtrl.cpp): from the pumps that the *)
(* level, daily emptying, foam draining and anti-seizing ask for it chooses  *)
(* the ones that are to run: within the limits of each group and of the     *)
(* pit, with the pumps that are ready, and in turn.  It runs in the events  *)
(* task, and what it reads is written by that task and by tasks of lower    *)
(* priority: RunSubTask is one step.                                        *)
(*                                                                         *)
(* mpAppMode, the mode shown to the user, is left out.  Name_What is a      *)
(* mutant of Name.                                                          *)
(***************************************************************************)
EXTENDS PitData, FiniteSetsExt

VARIABLES
  tempStopAllowed,      (* mTempStopAllowed                                 *)
  pumpInTempStop,       (* mPumpInTempStop                                  *)
  foamDrainRef,         (* mFoamDrainRef                                    *)
  startGroup,           (* mAlternationStartGroup, 1 or 2                   *)
  startUpTimeout        (* mStartUpDelayTimeout                             *)

pumpVars == <<tempStopAllowed, pumpInTempStop, foamDrainRef, startGroup, startUpTimeout>>

(* InitSubTask starts the delay unless it draws a short one.                *)
PumpInit ==
  /\ tempStopAllowed = FALSE /\ pumpInTempStop = NoPump
  /\ foamDrainRef = {} /\ startGroup = 1
  /\ startUpTimeout \in BOOLEAN

PumpTypeOK ==
  /\ {tempStopAllowed, startUpTimeout} \subseteq BOOLEAN
  /\ pumpInTempStop \in {NoPump} \cup Pumps
  /\ foamDrainRef \subseteq Pumps /\ startGroup \in 1 .. 2

-----------------------------------------------------------------------------
(* The groups, and the pumps that somebody runs by hand.                    *)
GroupOf(p) == IF config.group2 # 0 /\ p >= config.group2 THEN 2 ELSE 1
Group(g)   == {p \in Pumps : GroupOf(p) = g}
Groups     == IF config.group2 # 0 THEN {1, 2} ELSE {1}
Manual     == {p \in Pumps : p \notin ready /\ p \in started}

(* The first k pumps of S: by number, from the highest number down, by the  *)
(* time of their last run (GetPumpByTime), and from the latest one back.    *)
FirstBy(place, S, k) == {p \in S : Cardinality({q \in S : place[q] <= place[p]}) <= k}
Lowest(S, k)  == FirstBy([p \in Pumps |-> p], S, k)
Highest(S, k) == FirstBy([p \in Pumps |-> -p], S, k)
Oldest(S, k)  == FirstBy(byTime, S, k)
Latest(S, k)  == FirstBy([p \in Pumps |-> -byTime[p]], S, k)

(* Daily emptying, when the level asks for nothing.                         *)
WithDaily(S) ==
  IF daily /\ S = {} THEN Lowest(Pumps, Max({config.total[1], config.min[2]})) ELSE S

(* Foam draining keeps the pumps that were asked for last.                  *)
WithFoam(S) == IF foam /\ ref = {} THEN foamDrainRef ELSE S

(* PumpRef::ShiftRefs: pump i takes over from pump i - shift.  The index is *)
(* unsigned, so that below zero it goes on at 2^32, which is a multiple of  *)
(* the number of pumps for 1, 2 and 4 pumps only.                           *)
Index(i) == (IF i < 0 THEN i + (65536 % config.pumps) * (65536 % config.pumps) ELSE i) % config.pumps
Shifted(S) ==
  IF config.shift /\ config.group2 # 0 /\ startGroup = 2
  THEN {p \in Pumps : Index(p - config.group2) + 1 \in S}
  ELSE S

(* The number of pumps of group g to run: with alternation any, else those  *)
(* that were asked for and are ready.                                       *)
Wish(S, g) ==
  IF config.alternate[g]
  THEN Max({0, Min({Cardinality(S \cap Group(g)),
                    config.max[g] - Cardinality(Manual \cap Group(g))})})
  ELSE Cardinality(S \cap Group(g) \cap ready)

(* CheckTempStop: AdvancedFlowCtrl may ask for the only pump to be stopped  *)
(* for a moment, and to go on.                                              *)
CheckTempStop_AtHighLevel(wish, manual) ==
  LET invalid == wish > 1 \/ manual > 0
      allowed == ~invalid /\ (wish = 0 \/ tempStopAllowed)
      pump    == IF invalid THEN NoPump ELSE pumpInTempStop
      Answer(call, stopped, p) ==
        [call |-> call, allowed |-> allowed, stopped |-> stopped, pump |-> p]
  IN CASE allowed /\ wish = 1 /\ tempStop \in Pumps \cap ready -> Answer("stop", tempStop, tempStop)
       [] allowed /\ wish = 1 /\ tempStop = Resume /\ pump \in ready -> Answer("resume", NoPump, pump)
       [] allowed /\ wish = 1 /\ tempStop = Resume /\ pump \notin ready -> Answer("ignore", NoPump, NoPump)
       [] OTHER -> Answer("ignore", pump, NoPump)
CheckTempStop(wish, manual) ==
  LET invalid == wish > 1 \/ manual > 0 \/ high
      allowed == ~invalid /\ (wish = 0 \/ tempStopAllowed)
      pump    == IF invalid THEN NoPump ELSE pumpInTempStop
      Answer(call, stopped, p) ==
        [call |-> call, allowed |-> allowed, stopped |-> stopped, pump |-> p]
  IN CASE allowed /\ wish = 1 /\ tempStop \in Pumps \cap ready -> Answer("stop", tempStop, tempStop)
       [] allowed /\ wish = 1 /\ tempStop = Resume /\ pump \in ready -> Answer("resume", NoPump, pump)
       [] allowed /\ wish = 1 /\ tempStop = Resume /\ pump \notin ready -> Answer("ignore", NoPump, NoPump)
       [] OTHER -> Answer("ignore", pump, NoPump)

(* With alternation: first the pump that resumes, then pumps that already   *)
(* run, the last started first, then the ones that have waited longest.     *)
Alternated_OldestFirst(S, g, temp) ==
  LET wish  == IF temp.call = "stop" THEN 0 ELSE Wish(S, g)
      kept  == (S \ Group(g)) \cup (IF temp.call = "resume" THEN {temp.pump} ELSE {})
      left  == IF temp.call = "resume" THEN wish - 1 ELSE wish
  IN kept \cup Oldest((ready \cap Group(g)) \ kept, left)
Alternated(S, g, temp) ==
  LET wish  == IF temp.call = "stop" THEN 0 ELSE Wish(S, g)
      kept  == (S \ Group(g)) \cup (IF temp.call = "resume" THEN {temp.pump} ELSE {})
      left  == IF temp.call = "resume" THEN wish - 1 ELSE wish
      can   == ready \cap Group(g)
      goOn  == Latest(can \cap started, left)
      fill  == Oldest(can \ (kept \cup goOn), left - Cardinality(goOn))
  IN kept \cup goOn \cup fill

(* Without: the pumps asked for, less the highest numbers above the limit.  *)
Reduced(S, g, temp) ==
  LET rest == (S \ (Group(g) \ ready)) \ (IF temp.call = "stop" THEN {temp.pump} ELSE {})
      above == Wish(S, g) + Cardinality(Manual \cap Group(g)) - config.max[g]
  IN rest \ Highest(rest \cap Group(g), above)

(* Anti-seizing adds a pump, or as many as the group must have.             *)
AntiSeizing(S, g) ==
  LET running == Cardinality(S \cap Group(g)) + Cardinality(Manual \cap Group(g))
  IN Lowest((anti \cap Group(g) \cap ready) \ S,
            IF running >= config.max[g] THEN 0 ELSE Max({1, config.min[g] - running}))

(* One turn of the loop over the groups; r.anti are the pumps that were     *)
(* added for anti-seizing.                                                  *)
GroupDone(r, g, temp) ==
  LET chosen == IF config.alternate[g] THEN Alternated(r.pumps, g, temp)
                                       ELSE Reduced(r.pumps, g, temp)
      all    == chosen \cup AntiSeizing(chosen, g)
      enough == Cardinality(all \cap Group(g)) + Cardinality(Manual \cap Group(g)) >= config.min[g]
  IN [pumps |-> IF enough THEN all ELSE all \ Group(g),
      anti  |-> r.anti \cup AntiSeizing(chosen, g)]

(* The groups do not run together, unless they may: group 2 goes first,     *)
(* unless it is anti-seizing only.                                          *)
Apart_IgnoresManual(r) ==
  IF config.together \/ \E g \in 1 .. 2 : r.pumps \cap Group(g) = {}
  THEN r.pumps
  ELSE IF r.pumps \cap Group(2) \subseteq r.anti THEN r.pumps \ Group(2) ELSE r.pumps \ Group(1)
Apart(r) ==
  IF config.together \/ \E g \in 1 .. 2 : (r.pumps \cup Manual) \cap Group(g) = {}
  THEN r.pumps
  ELSE IF (r.pumps \cup Manual) \cap Group(2) \subseteq r.anti
       THEN r.pumps \ Group(2)
       ELSE r.pumps \ Group(1)

(* The limits of the pit: too few means none; of too many the anti-seizing  *)
(* ones go first, then the highest numbers.                                 *)
InTotal(S, by) ==
  LET manual == Cardinality(Manual)
      some   == IF Cardinality(S) + manual < config.total[1] THEN {} ELSE S
      above  == Cardinality(some) + manual - config.total[2]
      rest   == some \ Highest(some \cap by, above)
  IN rest \ Highest(rest, above - (Cardinality(some) - Cardinality(rest)))

-----------------------------------------------------------------------------
(* The start group changes when the choice has become empty.  mPumpRefOld   *)
(* is what on is here: the choice after the interlock and the delay.        *)
StartGroup_NoWrap(chosen) ==
  IF 2 \in Groups /\ on # {} /\ chosen = {} THEN startGroup + 1 ELSE startGroup
StartGroup(chosen) ==
  IF 2 \in Groups /\ on # {} /\ chosen = {} THEN 3 - startGroup ELSE startGroup

(* RunSubTask.                                                              *)
RunPumpCtrl ==
  LET asks  == Shifted(WithFoam(WithDaily(ref)))
      temp  == CheckTempStop(Wish(asks, 1), Cardinality(Manual \cap Group(1)))
      one   == GroupDone([pumps |-> asks, anti |-> {}], 1, temp)
      two   == GroupDone(one, 2, [call |-> "ignore", pump |-> NoPump])
      chosen == IF 2 \in Groups THEN InTotal(Apart(two), two.anti) ELSE one.pumps
      result == IF interlocked \/ ~startUpTimeout THEN {} ELSE chosen
  IN /\ "pump" \in asked /\ asked' = asked \ {"pump"}
     /\ on' = result
     /\ foamDrainRef' = (IF foam /\ ref # {} THEN ref ELSE foamDrainRef)
     /\ startGroup' = StartGroup(chosen)
     /\ tempStopAllowed' = temp.allowed /\ pumpInTempStop' = temp.stopped
     /\ UNCHANGED startUpTimeout

(* Update, when the start-up delay is over.                                 *)
StartUpEnds_Silent ==
  /\ ~startUpTimeout /\ startUpTimeout' = TRUE
  /\ UNCHANGED <<asked, on, tempStopAllowed, pumpInTempStop, foamDrainRef, startGroup>>
StartUpEnds ==
  /\ ~startUpTimeout /\ startUpTimeout' = TRUE /\ asked' = asked \cup {"pump"}
  /\ UNCHANGED <<on, tempStopAllowed, pumpInTempStop, foamDrainRef, startGroup>>
=============================================================================

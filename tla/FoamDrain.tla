----------------------------- MODULE FoamDrain -----------------------------
(***************************************************************************)
(* FoamDrain (src/application/FoamDrain/FoamDrain.cpp) with an analogue      *)
(* sensor: every interval, the next time the pumps run, the pit is pumped   *)
(* below the foam drain level for a time, to get rid of what floats.        *)
(***************************************************************************)
EXTENDS PitData

VARIABLES
  state,         (* mFoamDrainState                                         *)
  intervalOut,   (* mFoamDrainIntervalTimeOut                               *)
  foamTimer,     (* mpFoamDrainTimer is running                             *)
  foamTimeOut    (* mFoamDrainTimeOut                                       *)

foamVars == <<state, intervalOut, foamTimer, foamTimeOut>>

FoamInit == state = "idle" /\ intervalOut = FALSE /\ foamTimer = FALSE /\ foamTimeOut = FALSE

FoamTypeOK ==
  /\ state \in {"idle", "waitStart", "waitLevel", "waitTimeOut"}
  /\ {intervalOut, foamTimer, foamTimeOut} \subseteq BOOLEAN

(* Update: the interval timer, and the timer of a drain.                    *)
FoamInterval ==
  /\ ~intervalOut /\ intervalOut' = TRUE /\ asked' = asked \cup {"foam"}
  /\ UNCHANGED <<foam, state, foamTimer, foamTimeOut>>

FoamTimeOut ==
  /\ foamTimer /\ foamTimer' = FALSE /\ foamTimeOut' = TRUE /\ asked' = asked \cup {"foam"}
  /\ UNCHANGED <<foam, state, intervalOut>>

(* The switch over mFoamDrainState falls through from state to state: how   *)
(* far it gets.  The foam drain time is not zero.                           *)
Begun   == IF state = "idle" /\ intervalOut THEN "waitStart" ELSE state
Running == IF Begun = "waitStart" /\ ref # {} THEN "waitLevel" ELSE Begun
Reached == Running = "waitLevel" /\ level < config.foamLevel

Drained ==
  CASE Reached -> "waitTimeOut"
    [] state = "waitTimeOut" /\ foamTimeOut -> "idle"
    [] OTHER -> Running

(* Without a sensor to rely on, a drain is aborted.                         *)
NextState == IF underKnown THEN Drained ELSE "idle"

Drains(s) == s \in {"waitLevel", "waitTimeOut"}

(* RunSubTask, whose timer and flags go with the state.                     *)
RunFoamDrain ==
  /\ "foam" \in asked
  /\ IF quality = "notReady"
     THEN asked' = asked \ {"foam"} /\ UNCHANGED <<foam, foamVars>>
     ELSE /\ state' = NextState
          /\ intervalOut' = (intervalOut /\ ~(underKnown /\ state = "idle"))
          /\ foamTimer' = (underKnown /\ (Reached \/ (foamTimer /\ state # "idle")))
          /\ foamTimeOut' = (foamTimeOut /\ underKnown /\ ~Reached)
          /\ foam' = Drains(state')
          /\ asked' = (asked \ {"foam"}) \cup If(foam' # foam, {"pump"})
=============================================================================

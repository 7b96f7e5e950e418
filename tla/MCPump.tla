------------------------------- MODULE MCPump -------------------------------
EXTENDS Pump

Delay(ss, pp, sps) == [startStart |-> ss, stopStop |-> pp, startStopStart |-> sps]

(* Two pumps; the start-stop-start delay is the longest, as by default.     *)
Pit == {<<2, Delay(1, 1, 2)>>, <<2, Delay(2, 1, 3)>>, <<2, Delay(2, 2, 2)>>}
PitShort == {<<2, Delay(1, 1, 2)>>}
Never == {}

(* One pump that may be removed, and whose delays may change.               *)
Changing == {<<1, Delay(1, 1, 1)>>, <<0, Delay(1, 1, 1)>>, <<1, Delay(1, 1, 2)>>}

Enabled == [enable |-> TRUE, req |-> "auto", source |-> "system", level |-> FALSE,
            underLowest |-> FALSE, alarm |-> FALSE, vfd |-> "none", flush |-> "idle",
            feedback |-> "none", reference |-> TRUE]

(* Ordinary operation: the level control starts and stops, or SCADA does.   *)
LevelInputs == {[req |-> "auto", source |-> "system", level |-> v] : v \in BOOLEAN}
PitInputs == LevelInputs \cup
  {[req |-> "on", source |-> "scada", level |-> FALSE, underLowest |-> v] : v \in BOOLEAN}

(* One pump: started and stopped, flushed without a *)
(* frequency drive and with one, which comes and goes, with a contactor     *)
(* feedback that is right or wrong, disabled and enabled.                   *)
PumpInputs ==
  LevelInputs
  \cup {[vfd |-> "none", flush |-> v] : v \in {"idle", "reverse"}}
  \cup {[vfd |-> v, flush |-> "idle"] : v \in {"stop", "revFlush"}}
  \cup {[feedback |-> v] : v \in {"none", "active"}}
  \cup {[enable |-> v] : v \in BOOLEAN}
=============================================================================

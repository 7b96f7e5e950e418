--------------------------- MODULE MCAlarmControl ---------------------------
EXTENDS AlarmControl

TwoSources == <<"pump", "config">>
Custom == [s \in {"pump", "config"} |-> {IF s = "pump" THEN "ALARM" ELSE "WARNING"}]
=============================================================================

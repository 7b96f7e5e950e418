---------------------------- MODULE MCAlarmDelay ----------------------------
EXTENDS AlarmDelay

Analogue(delay) == [type |-> "AC_FLOAT", alarm |-> TRUE, warning |-> TRUE, delay |-> delay]
WarnOnly(delay) == [type |-> "AC_DIGITAL", alarm |-> FALSE, warning |-> TRUE, delay |-> delay]

(* Delays of one part, of several, and of a multiple of the chunk.          *)
SomeConfigs == {Analogue(3), WarnOnly(4)}
Limits == {{}, {"warning"}, {"warning", "fault"}}
Periods == {<<5, "MS", FALSE>>, <<1, "MINUTE", FALSE>>, <<1, "MS", TRUE>>}
=============================================================================

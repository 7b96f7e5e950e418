---------------------------- MODULE MCInterLock ----------------------------
(* InterLock with a tick of half a minute, and times that keep their order: *)
(* Early is 5 minutes and the timeouts 10 and more in the code.             *)
EXTENDS InterLock

MCPitTimeouts == {6, 7}
MCTimeouts == {2}

=============================================================================
